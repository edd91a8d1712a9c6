-------------------------- MODULE DisclosureProofs ---------------------------
(***************************************************************************)
(* Theorems about LogContext, for every set of logs and every limit, and   *)
(* about Projection, for every evidence, profile and approval.             *)
(*                                                                         *)
(* Of a selection: the range selected from a log lies in the log and       *)
(* reaches the end of the diagnostic or of the log (RangeFacts), so the    *)
(* numbers disclosed with it are consistent (ContextFacts); what a         *)
(* candidate may take never exceeds what is left (SelectTypeOK); and each  *)
(* context is paid from what is left when it is accepted (ShareInv), while *)
(* a log cut where a line starts is the sum of its parts (ContentSplits).  *)
(*                                                                         *)
(* Of a projection: the classes of items are taken in order and each once, *)
(* so that a class holds exactly what was chosen for it when its limits    *)
(* were checked (SpentInv), and the manifest lists what is shown           *)
(* (ListInv).  That lists are complete (CompleteInv) and that the sealed   *)
(* request validates (SealInv) then follow class by class.                 *)
(***************************************************************************)
EXTENDS Projection, LogContext, ListProofs

(***************************************************************************)
(* Log contexts.                                                           *)
(***************************************************************************)

(* What the end of a diagnostic has to do with a context selected for it.  *)
HoldsAnchor(a, c) ==
  c.selection = "causal_context" => c.byteStart < Anchor(a).end /\ Anchor(a).end <= c.byteEnd

ResultInv ==
  \A k \in DOMAIN result :
    /\ ValidProjectedLog(result[k])
    /\ \E a \in artifacts : a.id = result[k].id /\ HoldsAnchor(a, result[k])

SelectIInv == artifacts \in Bundles /\ limits \in ProfileLimits /\ SelectTypeOK /\ ResultInv

-----------------------------------------------------------------------------
(* A set of naturals that is not empty has a smallest element.             *)
LEMMA MinIsLeast ==
  ASSUME NEW S \in SUBSET Nat, S # {}
  PROVE  Min(S) \in S /\ \A i \in S : Min(S) <= i
BY LeastElement DEF Min

(* A bounded one has a largest.                                            *)
LEMMA MaxIsGreatest ==
  ASSUME NEW n \in Nat, NEW S \in SUBSET (0 .. n), S # {}
  PROVE  Max(S) \in S /\ \A i \in S : i <= Max(S)
<1> DEFINE T == {n - i : i \in S}
<1>1. T \in SUBSET Nat /\ T # {}
  <2>1. ASSUME NEW i \in S
        PROVE  n - i \in Nat
    <3>1. i \in 0 .. n
      OBVIOUS
    <3>2. QED
      BY <3>1
  <2>2. QED
    BY <2>1
<1>2. Min(T) \in T /\ \A j \in T : Min(T) <= j
  BY <1>1, MinIsLeast
<1>3. PICK m \in S : Min(T) = n - m
  BY <1>2
<1>4. ASSUME NEW i \in S
      PROVE  m >= i
  <2>1. n - m <= n - i
    BY <1>2, <1>3
  <2>2. i \in Nat /\ m \in Nat
    OBVIOUS
  <2>3. QED
    BY <2>1, <2>2
<1>5. QED
  BY <1>4 DEF Max

(* The next line start is where it is asked for, or later in the log.      *)
LEMMA NextLineFacts ==
  ASSUME NEW data \in Seq(Kinds), NEW offset \in Nat
  PROVE  NextLineStart(data, offset) \in Nat /\ NextLineStart(data, offset) >= offset
<1> DEFINE breaks == {i \in Newlines(data) : i >= offset}
<1>1. breaks \in SUBSET Nat
  BY DEF Newlines
<1>2. CASE breaks = {}
  BY <1>2 DEF NextLineStart
<1>3. CASE breaks # {}
  <2>1. Min(breaks) \in breaks
    BY <1>1, <1>3, MinIsLeast
  <2>2. Min(breaks) \in Nat /\ Min(breaks) >= offset
    BY <1>1, <2>1
  <2> HIDE DEF breaks
  <2>3. Min(breaks) + 1 \in Nat /\ Min(breaks) + 1 >= offset
    BY <2>2
  <2>4. QED
    BY <2>3 DEF NextLineStart, breaks
<1>4. QED
  BY <1>2, <1>3

(* The previous line end is where it is asked for, or earlier.             *)
LEMMA PreviousLineFacts ==
  ASSUME NEW data \in Seq(Kinds), NEW offset \in 0 .. Len(data)
  PROVE  PreviousLineEnd(data, offset) \in 0 .. offset
<1> DEFINE breaks == {i \in Newlines(data) : i < offset}
<1>1. breaks \in SUBSET (0 .. Len(data)) /\ Len(data) \in Nat
  BY DEF Newlines
<1>2. CASE breaks = {}
  BY <1>2 DEF PreviousLineEnd
<1>3. CASE breaks # {}
  <2>1. Max(breaks) \in breaks
    BY <1>1, <1>3, MaxIsGreatest
  <2>2. Max(breaks) \in Nat /\ Max(breaks) < offset
    BY <1>1, <2>1
  <2> HIDE DEF breaks
  <2>3. Max(breaks) + 1 \in 0 .. offset
    BY <2>2
  <2>4. QED
    BY <2>3 DEF PreviousLineEnd, breaks
<1>4. QED
  BY <1>2, <1>3

(* The range selected lies in the log and reaches the end of the           *)
(* diagnostic, or of the log.                                              *)
LEMMA RangeFacts ==
  ASSUME NEW data \in Seq(Kinds), data # <<>>, NEW anchor, NEW bytes \in Nat,
         anchor = NoItem \/ (/\ anchor \in Ranges /\ anchor.start < anchor.end
                             /\ anchor.end <= Len(data)),
         SelectedRange(data, anchor, bytes).start < SelectedRange(data, anchor, bytes).end
  PROVE  /\ bytes > 0
         /\ SelectedRange(data, anchor, bytes).start \in Nat
         /\ SelectedRange(data, anchor, bytes).end \in 1 .. Len(data)
         /\ anchor = NoItem => SelectedRange(data, anchor, bytes).end = Len(data)
         /\ anchor # NoItem => /\ SelectedRange(data, anchor, bytes).start < anchor.end
                               /\ anchor.end <= SelectedRange(data, anchor, bytes).end
<1> DEFINE k == Kernel(data, anchor)
           r == SelectedRange(data, anchor, bytes)
           c == Centered(data, k, bytes)
           w == WholeLines(data, c)
           n == Len(data)
<1>1. n \in Nat /\ n > 0
  OBVIOUS
<1>2. k.start \in Nat /\ k.end \in Nat /\ k.start < k.end /\ k.end <= n
  BY <1>1 DEF Kernel, NoItem, Ranges
<1>3. anchor = NoItem => k.end = n
  BY DEF Kernel
<1>4. anchor # NoItem => k.start = anchor.start /\ k.end = anchor.end
  BY DEF Kernel
<1>5. bytes > 0
  BY DEF SelectedRange
<1>6. r = IF n <= bytes THEN [start |-> 0, end |-> n]
          ELSE IF k.end - k.start >= bytes THEN [start |-> NextLineStart(data, k.end - bytes), end |-> k.end]
          ELSE IF Covers(w, k) THEN w
          ELSE [start |-> Larger(0, k.end - bytes), end |-> k.end]
  BY <1>5 DEF SelectedRange
<1>7. r.start < r.end
  OBVIOUS
<1> HIDE DEF k, r, n
<1>8. /\ r.start \in Nat /\ r.end \in Nat
      /\ r.start < k.end /\ k.end <= r.end /\ r.end <= n
  <2>1. CASE n <= bytes
    BY <1>1, <1>2, <1>6, <2>1
  <2>2. CASE ~ (n <= bytes) /\ k.end - k.start >= bytes
    <3>1. k.end - bytes \in Nat
      BY <1>2, <2>2
    <3>2. NextLineStart(data, k.end - bytes) \in Nat
      BY <3>1, NextLineFacts
    <3>3. QED
      BY <1>2, <1>6, <1>7, <2>2, <3>2
  <2>3. CASE ~ (n <= bytes) /\ ~ (k.end - k.start >= bytes) /\ Covers(w, k)
    <3>1. (bytes * 2) \div 3 \in Nat
      OBVIOUS
    <3>2. c.start \in Nat /\ c.end \in 0 .. n
      BY <1>1, <1>2, <3>1 DEF Centered, Larger, Smaller, n
    <3>3. w.start \in Nat /\ w.end \in 0 .. c.end
      BY <3>2, NextLineFacts, PreviousLineFacts DEF WholeLines, n
    <3>4. r = w
      BY <1>6, <2>3
    <3>5. w.start < w.end /\ w.start <= k.start /\ k.end <= w.end
      BY <2>3 DEF Covers
    <3> HIDE DEF w, c
    <3>6. QED
      BY <1>1, <1>2, <3>2, <3>3, <3>4, <3>5
  <2>4. CASE ~ (n <= bytes) /\ ~ (k.end - k.start >= bytes) /\ ~ Covers(w, k)
    <3>1. r = [start |-> Larger(0, k.end - bytes), end |-> k.end]
      BY <1>6, <2>4
    <3>2. Larger(0, k.end - bytes) \in Nat /\ Larger(0, k.end - bytes) < k.end
      BY <1>2, <1>5 DEF Larger
    <3>3. QED
      BY <1>2, <3>1, <3>2
  <2>5. QED
    BY <2>1, <2>2, <2>3, <2>4
<1>9. /\ r.start \in Nat /\ r.end \in 1 .. n
      /\ anchor = NoItem => r.end = n
      /\ anchor # NoItem => r.start < anchor.end /\ anchor.end <= r.end
  BY <1>1, <1>2, <1>3, <1>4, <1>7, <1>8
<1>10. QED
  BY <1>5, <1>9 DEF r, n

(* The size of a content is a number, and not zero unless it is empty.     *)
LEMMA ContentFacts ==
  ASSUME NEW data \in Seq(Kinds), NEW start \in Nat, NEW end \in Nat
  PROVE  /\ ContentSize(data, start, end) \in Nat
         /\ start < end => ContentSize(data, start, end) # 0
<1> DEFINE valid == {i \in start .. end - 1 : Valid(data, start, end, i)}
           runs == {i \in (start .. end - 1) \ valid : i = start \/ i - 1 \in valid}
<1>1. IsFiniteSet(start .. end - 1)
  BY FS_Interval
<1>2. IsFiniteSet(valid) /\ IsFiniteSet(runs)
  BY <1>1, FS_Subset
<1>3. Cardinality(valid) \in Nat /\ Cardinality(runs) \in Nat
  BY <1>2, FS_CardinalityType
<1>4. start < end => start \in valid \/ start \in runs
  OBVIOUS
<1>5. start < end => Cardinality(valid) # 0 \/ Cardinality(runs) # 0
  BY <1>2, <1>4, FS_EmptySet
<1>6. ContentSize(data, start, end) = Cardinality(valid) + 3 * Cardinality(runs)
  BY DEF ContentSize
<1> HIDE DEF valid, runs
<1>7. QED
  BY <1>3, <1>5, <1>6

(* Line numbers count from 1 and do not decrease.                          *)
LEMMA LinesGrow ==
  ASSUME NEW data \in Seq(Kinds), NEW i \in Int, NEW j \in Int, i <= j
  PROVE  LineAt(data, i) \in Nat \ {0} /\ LineAt(data, j) \in Nat \ {0} /\ LineAt(data, i) <= LineAt(data, j)
<1> DEFINE I == {b \in Newlines(data) : b < i}
           J == {b \in Newlines(data) : b < j}
<1>1. Newlines(data) \subseteq Int /\ IsFiniteSet(Newlines(data))
  <2>1. IsFiniteSet(0 .. Len(data) - 1)
    BY FS_Interval
  <2>2. QED
    BY <2>1, FS_Subset DEF Newlines
<1>2. I \subseteq J /\ IsFiniteSet(J) /\ IsFiniteSet(I)
  BY <1>1, FS_Subset
<1>3. Cardinality(I) \in Nat /\ Cardinality(J) \in Nat /\ Cardinality(I) <= Cardinality(J)
  BY <1>2, FS_Subset, FS_CardinalityType
<1>4. LineAt(data, i) = Cardinality(I) + 1 /\ LineAt(data, j) = Cardinality(J) + 1
  BY DEF LineAt
<1> HIDE DEF I, J
<1>5. QED
  BY <1>3, <1>4

(* The line of the last byte is the number of lines.                       *)
LEMMA LastLineIsCount ==
  ASSUME NEW data \in Seq(Kinds), data # <<>>
  PROVE  LastLine(data, Len(data)) = LineCount(data)
<1> DEFINE n == Len(data) - 1
           B == {b \in Newlines(data) : b < n}
<1>1. n \in Nat /\ Newlines(data) \subseteq 0 .. n
  BY DEF Newlines
<1>2. IsFiniteSet(B)
  <2>1. IsFiniteSet(0 .. n)
    BY <1>1, FS_Interval
  <2>2. QED
    BY <1>1, <2>1, FS_Subset
<1>3. Cardinality(B) \in Nat
  BY <1>2, FS_CardinalityType
<1>4. LastLine(data, Len(data)) = Cardinality(B) + 1
  BY DEF LastLine, LineAt
<1>5. Last(data) = data[n + 1]
  BY DEF Last
<1>6. CASE Last(data) = "nl"
  <2>1. n \in Newlines(data)
    <3>1. n \in 0 .. Len(data) - 1
      BY <1>1
    <3>2. data[n + 1] = "nl"
      BY <1>5, <1>6
    <3> HIDE DEF n
    <3>3. QED
      BY <3>1, <3>2 DEF Newlines
  <2>2. Newlines(data) = B \cup {n} /\ n \notin B
    BY <1>1, <2>1
  <2>3. Cardinality(Newlines(data)) = Cardinality(B) + 1
    BY <1>2, <2>2, FS_AddElement
  <2>4. LineCount(data) = Cardinality(Newlines(data)) + 0
    BY <1>6 DEF LineCount
  <2> HIDE DEF B, n
  <2>5. QED
    BY <1>3, <1>4, <2>3, <2>4
<1>7. CASE Last(data) # "nl"
  <2>1. n \notin Newlines(data)
    BY <1>5, <1>7 DEF Newlines
  <2>2. Newlines(data) = B
    BY <1>1, <2>1
  <2>3. QED
    BY <1>4, <1>7, <2>2 DEF LineCount
<1>8. QED
  BY <1>6, <1>7

(* A log with diagnostics has a strongest one.                             *)
LEMMA AnchorIsItem ==
  ASSUME NEW a \in ArtifactType
  PROVE  \/ Anchor(a) = NoItem
         \/ Anchor(a) \in Items(a)
<1> DEFINE S == Items(a)
<1>1. CASE S = {}
  BY <1>1 DEF Anchor
<1>2. CASE S # {}
  <2>0. \A i \in S : i.score \in Int /\ i.end \in Int /\ i.start \in Int
    BY DEF Items, Ranges, ArtifactType
  <2>1. \A i \in S : i.start \in Nat /\ i.end \in 0 .. Len(a.data) /\ i.score \in 0 .. 300
    BY DEF Items, Ranges, ArtifactType
  <2>2. Len(a.data) \in Nat
    BY DEF ArtifactType
  <2> HIDE DEF S
  <2> DEFINE scores == {i.score : i \in S}
  <2>3. Max(scores) \in scores /\ \A x \in scores : x <= Max(scores)
    <3>1. scores \in SUBSET (0 .. 300) /\ scores # {} /\ 300 \in Nat
      <4>1. \A i \in S : i.score \in 0 .. 300
        BY <2>1
      <4>2. QED
        BY <1>2, <4>1
    <3> HIDE DEF scores
    <3>2. QED
      BY <3>1, MaxIsGreatest
  <2> DEFINE T == {i \in S : i.score = Max(scores)}
             ends == {i.end : i \in T}
  <2>4. T # {}
    BY <2>3
  <2>5. Max(ends) \in ends /\ \A x \in ends : x <= Max(ends)
    <3>1. ends \in SUBSET (0 .. Len(a.data)) /\ ends # {}
      <4>1. \A i \in T : i.end \in 0 .. Len(a.data)
        BY <2>1
      <4>2. QED
        BY <2>4, <4>1
    <3> HIDE DEF ends
    <3>2. QED
      BY <2>2, <3>1, MaxIsGreatest
  <2> DEFINE U == {i \in T : i.end = Max(ends)}
             starts == {i.start : i \in U}
  <2>6. U # {}
    BY <2>5
  <2>7. Min(starts) \in starts /\ \A x \in starts : Min(starts) <= x
    <3>1. starts \in SUBSET Nat /\ starts # {}
      BY <2>1, <2>6
    <3>2. QED
      BY <3>1, MinIsLeast
  <2>8. PICK m \in U : m.start = Min(starts)
    BY <2>7
  <2>9. m \in S /\ m.score = Max(scores) /\ m.end = Max(ends)
    BY <2>8
  <2>10. ASSUME NEW j \in S
         PROVE  Stronger(m, j)
    <3>1. j.score <= m.score
      <4>1. j.score \in scores
        BY <2>10
      <4>2. QED
        BY <2>3, <2>9, <4>1
    <3>2. j.score = m.score => j.end <= m.end
      BY <2>5, <2>9
    <3>3. j.score = m.score /\ j.end = m.end => m.start <= j.start
      BY <2>7, <2>8, <2>9
    <3>4. /\ m.score \in Int /\ m.end \in Int /\ m.start \in Int
          /\ j.score \in Int /\ j.end \in Int /\ j.start \in Int
      <4>1. \A i \in S : i.score \in Int /\ i.end \in Int /\ i.start \in Int
        BY <2>0
      <4>2. m \in S /\ j \in S
        BY <2>9, <2>10
      <4> HIDE DEF scores, T, ends, U, starts
      <4>3. QED
        BY <4>1, <4>2
    <3>5. QED
      BY <3>1, <3>2, <3>3, <3>4 DEF Stronger
  <2>11. \E i \in S : \A j \in S : Stronger(i, j)
    BY <2>9, <2>10
  <2>12. QED
    BY <1>2, <2>11 DEF Anchor, S
<1>3. QED
  BY <1>1, <1>2

(* What is disclosed of a range selected is valid and holds the anchor.    *)
LEMMA ContextFacts ==
  ASSUME NEW a \in ArtifactType, a.data # <<>>, NEW bytes \in Nat, NEW r,
         r = SelectedRange(a.data, Anchor(a), bytes), r.start < r.end
  PROVE  /\ bytes > 0
         /\ Context(a, r) \in ContextType
         /\ Context(a, r).id = a.id
         /\ ValidProjectedLog(Context(a, r))
         /\ HoldsAnchor(a, Context(a, r))
         /\ ContentSize(a.data, r.start, r.end) \in Nat
<1> DEFINE data == a.data  n == Len(a.data)  anchor == Anchor(a)  c == Context(a, r)
           at == IF anchor = NoItem THEN r.end ELSE Smaller(r.end, anchor.end)
<1>1. data \in Seq(Kinds) /\ n \in Nat /\ n > 0
  BY DEF ArtifactType
<1>2. anchor = NoItem \/ (anchor \in Ranges /\ anchor.start < anchor.end /\ anchor.end <= n)
  BY AnchorIsItem DEF Items, ArtifactType
<1>3. /\ bytes > 0 /\ r.start \in Nat /\ r.end \in 1 .. n
      /\ anchor = NoItem => r.end = n
      /\ anchor # NoItem => r.start < anchor.end /\ anchor.end <= r.end
  BY <1>1, <1>2, RangeFacts
<1>4. anchor # NoItem => anchor.end \in Nat
  BY <1>2 DEF Ranges
<1> HIDE DEF data, anchor, n
<1>5. at \in Nat /\ r.start <= at - 1 /\ at <= r.end
  BY <1>1, <1>3, <1>4 DEF Smaller
<1>6. /\ LineAt(data, r.start) \in Nat \ {0}
      /\ LastLine(data, at) \in Nat \ {0} /\ LastLine(data, r.end) \in Nat \ {0}
      /\ LineAt(data, r.start) <= LastLine(data, at) /\ LastLine(data, at) <= LastLine(data, r.end)
  <2>1. r.start \in Int /\ at - 1 \in Int /\ r.end - 1 \in Int /\ at - 1 <= r.end - 1
    BY <1>3, <1>5
  <2> HIDE DEF at
  <2>2. QED
    BY <1>1, <1>5, <2>1, LinesGrow DEF LastLine
<1>7. /\ LineCount(data) \in Nat
      /\ LastLine(data, r.end) <= LineCount(data)
      /\ r.end = n => LastLine(data, r.end) = LineCount(data)
  <2>1. LastLine(data, n) = LineCount(data)
    BY <1>1, LastLineIsCount DEF data, n
  <2>2. r.end - 1 \in Int /\ n - 1 \in Int /\ r.end - 1 <= n - 1
    BY <1>1, <1>3
  <2>3. LastLine(data, n) \in Nat \ {0} /\ LastLine(data, r.end) <= LastLine(data, n)
    BY <1>1, <2>2, LinesGrow DEF LastLine
  <2>4. QED
    BY <2>1, <2>3
<1>8. ContentSize(data, r.start, r.end) \in Nat \ {0}
  <2>1. r.start \in Nat /\ r.end \in Nat /\ r.start < r.end
    BY <1>1, <1>3
  <2>2. QED
    BY <1>1, <2>1, ContentFacts
<1>9. {Rebased(data, r, i) : i \in {j \in Items(a) : Inside(r, j)}} \in SUBSET [start : Nat, end : Nat]
  <2>1. ASSUME NEW i \in Items(a)
        PROVE  Rebased(data, r, i) \in [start : Nat, end : Nat]
    <3>1. i.start \in Nat /\ i.end \in Nat
      BY DEF Items, ArtifactType, Ranges
    <3>2. ContentSize(data, r.start, i.start) \in Nat /\ ContentSize(data, r.start, i.end) \in Nat
      BY <1>1, <1>3, <3>1, ContentFacts
    <3>3. QED
      BY <3>2 DEF Rebased
  <2>2. QED
    BY <2>1
<1>10. /\ c.id = a.id /\ c.byteStart = r.start /\ c.byteEnd = r.end /\ c.fileBytes = n
       /\ c.startLine = LineAt(data, r.start) /\ c.endLine = LastLine(data, r.end)
       /\ c.anchorLine = LastLine(data, at) /\ c.totalLines = LineCount(data)
       /\ c.contentBytes = ContentSize(data, r.start, r.end)
       /\ c.truncated = (r.start # 0 \/ r.end # n)
       /\ c.selection = IF anchor = NoItem THEN "tail" ELSE "causal_context"
  BY DEF Context, data, n, anchor
<1>11. c \in ContextType
  <2>1. /\ a.id \in Nat /\ r.start \in Nat /\ r.end \in Nat /\ n \in Nat
        /\ LineAt(data, r.start) \in Nat /\ LastLine(data, r.end) \in Nat /\ LastLine(data, at) \in Nat
        /\ LineCount(data) \in Nat /\ ContentSize(data, r.start, r.end) \in Nat
    BY <1>1, <1>3, <1>6, <1>7, <1>8 DEF ArtifactType
  <2>2. (r.start # 0 \/ r.end # n) \in BOOLEAN
    OBVIOUS
  <2>3. (IF anchor = NoItem THEN "tail" ELSE "causal_context") \in {"tail", "causal_context"}
    OBVIOUS
  <2>4. c = [id |-> a.id,
             selection |-> IF anchor = NoItem THEN "tail" ELSE "causal_context",
             anchorLine |-> LastLine(data, at),
             startLine |-> LineAt(data, r.start), endLine |-> LastLine(data, r.end),
             totalLines |-> LineCount(data),
             byteStart |-> r.start, byteEnd |-> r.end, fileBytes |-> n,
             truncated |-> r.start # 0 \/ r.end # n,
             contentBytes |-> ContentSize(data, r.start, r.end),
             enrichment |-> {Rebased(data, r, i) : i \in {j \in Items(a) : Inside(r, j)}}]
    BY DEF Context, data, n, anchor
  <2> HIDE DEF c, at
  <2>5. QED
    BY <1>9, <2>1, <2>2, <2>3, <2>4, Zenon DEF ContextType
<1> HIDE DEF c, at
<1>12. ValidProjectedLog(c)
  <2>1. c.contentBytes # 0 /\ c.fileBytes # 0 /\ c.byteStart < c.byteEnd /\ c.byteEnd <= c.fileBytes
    BY <1>1, <1>3, <1>8, <1>10
  <2>2. c.truncated \/ (c.byteStart = 0 /\ c.byteEnd = c.fileBytes)
    BY <1>10
  <2>3. 0 < c.startLine /\ c.startLine <= c.endLine /\ c.endLine <= c.totalLines
    <3>1. LineAt(data, r.start) <= LastLine(data, r.end)
      BY <1>6
    <3>2. QED
      BY <1>6, <1>7, <1>10, <3>1
  <2>4. c.startLine <= c.anchorLine /\ c.anchorLine <= c.endLine
    BY <1>6, <1>10
  <2>5. c.selection = "tail" =>
          c.endLine = c.totalLines /\ c.anchorLine = c.endLine /\ c.byteEnd = c.fileBytes
    <3>1. CASE anchor = NoItem
      <4>1. r.end = n /\ at = r.end
        BY <1>3, <3>1 DEF at
      <4>2. QED
        BY <1>7, <1>10, <4>1
    <3>2. CASE anchor # NoItem
      BY <1>10, <3>2
    <3>3. QED
      BY <3>1, <3>2
  <2>6. QED
    BY <2>1, <2>2, <2>3, <2>4, <2>5 DEF ValidProjectedLog
<1>13. HoldsAnchor(a, c)
  BY <1>3, <1>10 DEF HoldsAnchor, anchor
<1>14. QED
  BY <1>3, <1>8, <1>10, <1>11, <1>12, <1>13 DEF c, data

-----------------------------------------------------------------------------
(* The invariant holds at the start.                                       *)
LEMMA SelectInitIInv == SelectInit => SelectIInv
BY LogAssumption DEF SelectInit, SelectIInv, SelectTypeOK, ResultInv

(* Ranking offers candidates of the evidence only.                         *)
LEMMA RankKeeps ==
  ASSUME SelectIInv, Rank
  PROVE  SelectIInv'
<1> USE DEF SelectIInv, Rank
<1>1. Strongest(Causal, limits.artifacts) \subseteq LogCandidates
  BY DEF Strongest, Causal
<1>2. LogCandidates' = LogCandidates
  BY DEF LogCandidates
<1>3. SelectTypeOK'
  BY <1>1, <1>2 DEF SelectTypeOK
<1>4. ResultInv'
  BY DEF ResultInv
<1>5. QED
  BY <1>3, <1>4

(* What a candidate may take is left.                                      *)
LEMMA TakeKeeps ==
  ASSUME SelectIInv, Take
  PROVE  SelectIInv'
<1> USE DEF SelectIInv, Take
<1>1. LogCandidates' = LogCandidates
  BY DEF LogCandidates
<1>2. CASE waiting = {} \/ remaining = 0
  <2>1. UNCHANGED <<artifacts, limits, remaining, result, waiting, chosen, allowance, budget, attempts>> /\ step' = "done"
    BY <1>2
  <2>2. QED
    BY <1>1, <2>1 DEF SelectTypeOK, ResultInv
<1>3. CASE waiting # {} /\ remaining # 0
  <2>1. PICK a \in waiting :
          /\ chosen' = a
          /\ waiting' = waiting \ {a}
          /\ allowance' = Smaller(Share, remaining)
          /\ budget' = allowance'
          /\ attempts' = 1
          /\ step' = "fit"
    BY <1>3
  <2>2. IsFiniteSet(waiting)
    <3>1. waiting \subseteq artifacts /\ IsFiniteSet(artifacts)
      BY LogAssumption DEF SelectTypeOK, LogCandidates
    <3>2. QED
      BY <3>1, FS_Subset
  <2>3. Cardinality(waiting) \in Nat \ {0}
    BY <1>3, <2>2, FS_EmptySet, FS_CardinalityType
  <2>4. remaining \in Nat /\ remaining <= limits.bytes /\ limits.bytes \in Nat
    BY DEF SelectTypeOK
  <2>5. remaining \div Cardinality(waiting) \in Nat
    BY <2>3, <2>4
  <2>6. Share \in Nat
    BY <2>5, LogAssumption DEF Share
  <2>7. allowance' \in 0 .. remaining
    BY <2>1, <2>4, <2>6 DEF Smaller
  <2>8. UNCHANGED <<artifacts, limits, remaining, result>>
    OBVIOUS
  <2>9. SelectTypeOK'
    BY <1>1, <2>1, <2>4, <2>7, <2>8 DEF SelectTypeOK
  <2>10. ResultInv'
    BY <2>8 DEF ResultInv
  <2>11. QED
    BY <2>8, <2>9, <2>10
<1>4. QED
  BY <1>2, <1>3

(* An attempt selects something valid, or leaves the rest as it was.       *)
LEMMA FitKeeps ==
  ASSUME SelectIInv, Fit
  PROVE  SelectIInv'
<1> USE DEF SelectIInv
<1> DEFINE r == SelectedRange(chosen.data, Anchor(chosen), budget)
           size == ContentSize(chosen.data, r.start, r.end)
<1>1. /\ step = "fit" /\ chosen \in LogCandidates
      /\ UNCHANGED <<artifacts, limits, waiting, chosen, allowance>>
  BY DEF Fit, SelectTypeOK
<1>2. chosen \in ArtifactType /\ chosen \in artifacts /\ chosen.data # <<>>
  BY <1>1 DEF LogCandidates, SelectTypeOK
<1>3. /\ remaining \in Nat /\ allowance \in Nat /\ budget \in Nat /\ limits.bytes \in Nat
      /\ budget <= allowance /\ allowance <= remaining /\ remaining <= limits.bytes
  BY <1>1 DEF SelectTypeOK
<1>4. LogCandidates' = LogCandidates
  BY <1>1 DEF LogCandidates
<1>5. CASE step' = "next" /\ UNCHANGED <<remaining, budget, attempts, result>>
  BY <1>1, <1>4, <1>5 DEF SelectTypeOK, ResultInv
<1>6. CASE r.start < r.end /\ size <= allowance /\ Accept(r) /\ step' = "next" /\ UNCHANGED <<budget, attempts>>
  <2> DEFINE c == Context(chosen, r)
  <2>1. /\ c \in ContextType /\ c.id = chosen.id /\ ValidProjectedLog(c) /\ HoldsAnchor(chosen, c)
        /\ size \in Nat
    BY <1>2, <1>3, <1>6, ContextFacts
  <2>2. result' = Append(result, c) /\ remaining' = remaining - size
    BY <1>6 DEF Accept
  <2> HIDE DEF c, r, size
  <2>3. result \in Seq(ContextType)
    BY DEF SelectTypeOK
  <2>4. result' \in Seq(ContextType)
    BY <2>1, <2>2, <2>3
  <2>5. remaining' \in 0 .. limits.bytes
    BY <1>3, <1>6, <2>1, <2>2
  <2>6. SelectTypeOK'
    BY <1>1, <1>4, <1>6, <2>4, <2>5 DEF SelectTypeOK
  <2>7. ASSUME NEW k \in DOMAIN result'
        PROVE  ValidProjectedLog(result'[k]) /\ \E a \in artifacts : a.id = result'[k].id /\ HoldsAnchor(a, result'[k])
    <3>1. CASE k \in DOMAIN result
      <4>1. result'[k] = result[k]
        BY <2>2, <2>3, <3>1
      <4>2. QED
        BY <3>1, <4>1 DEF ResultInv
    <3>2. CASE k \notin DOMAIN result
      <4>1. result'[k] = c
        BY <2>2, <2>3, <3>2
      <4>2. QED
        BY <1>2, <2>1, <4>1
    <3>3. QED
      BY <3>1, <3>2
  <2>8. ResultInv'
    BY <1>1, <2>7 DEF ResultInv, ValidProjectedLog, HoldsAnchor
  <2>9. QED
    BY <1>1, <2>6, <2>8
<1>7. CASE /\ r.start < r.end /\ size > allowance /\ attempts < 4
           /\ budget' = Shrunk(size - allowance)
           /\ attempts' = attempts + 1
           /\ UNCHANGED <<step, remaining, result>>
  <2>1. budget > 0 /\ size \in Nat
    BY <1>2, <1>3, <1>7, ContextFacts
  <2> HIDE DEF r, size
  <2>2. budget \div 2 \in Nat /\ budget \div 2 <= budget
    BY <1>3
  <2>3. budget' \in 0 .. allowance
    BY <1>3, <1>7, <2>1, <2>2 DEF Shrunk, Larger
  <2>4. attempts' \in 0 .. 4
    BY <1>7 DEF SelectTypeOK
  <2>5. SelectTypeOK'
    BY <1>1, <1>4, <1>7, <2>3, <2>4 DEF SelectTypeOK
  <2>6. ResultInv'
    BY <1>1, <1>7 DEF ResultInv
  <2>7. QED
    BY <1>1, <2>5, <2>6
<1>8. QED
  BY <1>5, <1>6, <1>7 DEF Fit

(* The invariant is inductive.                                             *)
THEOREM SelectInvariance == SelectSpec => []SelectIInv
<1>1. SelectInit => SelectIInv
  BY SelectInitIInv
<1>2. SelectIInv /\ UNCHANGED selectVars => SelectIInv'
  BY DEF selectVars, SelectIInv, SelectTypeOK, ResultInv, LogCandidates
<1>3. SelectIInv /\ [SelectNext]_selectVars => SelectIInv'
  BY <1>2, RankKeeps, TakeKeeps, FitKeeps DEF SelectNext, SelectDone
<1>4. QED
  BY <1>1, <1>3, PTL DEF SelectSpec

-----------------------------------------------------------------------------
(* Every variable of a selection keeps its type; in particular what a      *)
(* candidate may take is never more than what is left of the budget.       *)
THEOREM SelectTypeCorrect == SelectSpec => []SelectTypeOK
<1>1. SelectIInv => SelectTypeOK
  BY DEF SelectIInv
<1>2. QED
  BY <1>1, SelectInvariance, PTL

(* The program's own validation accepts every context it selects.          *)
THEOREM SelectionIsValid == SelectSpec => []ContextsAreValid
<1>1. SelectIInv => ContextsAreValid
  BY DEF SelectIInv, ResultInv, ContextsAreValid, Contexts
<1>2. QED
  BY <1>1, SelectInvariance, PTL

(* A context selected for a diagnostic holds the end of that diagnostic.   *)
THEOREM AnchorStays == SelectSpec => []AnchorInWindow
<1>1. ASSUME SelectIInv, NEW c \in Contexts, c.selection = "causal_context"
      PROVE  c.byteStart < Anchor(Source(c)).end /\ Anchor(Source(c)).end <= c.byteEnd
  <2>1. PICK a \in artifacts : a.id = c.id /\ HoldsAnchor(a, c)
    BY <1>1 DEF SelectIInv, ResultInv, Contexts
  <2>2. \A x, y \in artifacts : x.id = y.id => x = y
    BY <1>1, LogAssumption DEF SelectIInv
  <2>3. Source(c) = a
    BY <2>1, <2>2 DEF Source
  <2>4. QED
    BY <1>1, <2>1, <2>3 DEF HoldsAnchor
<1>2. SelectIInv => AnchorInWindow
  BY <1>1 DEF AnchorInWindow
<1>3. QED
  BY <1>2, SelectInvariance, PTL

(* A range of a log and where it may be cut without cutting a character.   *)
Cuts(data, start, mid, end) ==
  /\ start \in Nat /\ mid \in Nat /\ end \in Nat
  /\ start <= mid /\ mid <= end
  /\ mid = start \/ mid = end \/ data[mid] = "nl"

(* Cut there, its content is that of its parts.                            *)
LEMMA ContentSplits ==
  ASSUME NEW data, NEW start, NEW mid, NEW end, Cuts(data, start, mid, end)
  PROVE  ContentSize(data, start, end) = ContentSize(data, start, mid) + ContentSize(data, mid, end)
<1> USE DEF Cuts
<1> DEFINE V(s, e) == {i \in s .. e - 1 : Valid(data, s, e, i)}
           R(s, e) == {i \in (s .. e - 1) \ V(s, e) : i = s \/ i - 1 \in V(s, e)}
<1>1. \A s, e \in Nat : /\ ContentSize(data, s, e) = Cardinality(V(s, e)) + 3 * Cardinality(R(s, e))
                        /\ IsFiniteSet(V(s, e)) /\ IsFiniteSet(R(s, e))
  <2>1. ASSUME NEW s \in Nat, NEW e \in Nat
        PROVE  /\ ContentSize(data, s, e) = Cardinality(V(s, e)) + 3 * Cardinality(R(s, e))
               /\ IsFiniteSet(V(s, e)) /\ IsFiniteSet(R(s, e))
    <3>1. IsFiniteSet(s .. e - 1)
      BY FS_Interval
    <3>2. V(s, e) \subseteq s .. e - 1 /\ R(s, e) \subseteq s .. e - 1
      OBVIOUS
    <3>3. QED
      BY <3>1, <3>2, FS_Subset DEF ContentSize
  <2>2. QED
    BY <2>1
<1>2. CASE mid = start
  <2>1. V(start, mid) = {} /\ R(start, mid) = {}
    BY <1>2
  <2> HIDE DEF V, R
  <2>2. ContentSize(data, start, mid) = 0
    <3>1. ContentSize(data, start, mid) = Cardinality(V(start, mid)) + 3 * Cardinality(R(start, mid))
      BY <1>1
    <3>2. Cardinality({}) = 0
      BY FS_EmptySet
    <3>3. QED
      BY <2>1, <3>1, <3>2
  <2>3. Cardinality(V(mid, end)) \in Nat /\ Cardinality(R(mid, end)) \in Nat
    BY <1>1, FS_CardinalityType
  <2>4. QED
    BY <1>1, <1>2, <2>2, <2>3
<1>3. CASE mid = end
  <2>1. V(mid, end) = {} /\ R(mid, end) = {}
    BY <1>3
  <2> HIDE DEF V, R
  <2>2. ContentSize(data, mid, end) = 0
    <3>1. ContentSize(data, mid, end) = Cardinality(V(mid, end)) + 3 * Cardinality(R(mid, end))
      BY <1>1
    <3>2. Cardinality({}) = 0
      BY FS_EmptySet
    <3>3. QED
      BY <2>1, <3>1, <3>2
  <2>3. Cardinality(V(start, mid)) \in Nat /\ Cardinality(R(start, mid)) \in Nat
    BY <1>1, FS_CardinalityType
  <2>4. QED
    BY <1>1, <1>3, <2>2, <2>3
<1>4. CASE data[mid] = "nl" /\ start < mid /\ mid < end
  <2>1. \A i \in start .. mid - 1 : Valid(data, start, end, i) <=> Valid(data, start, mid, i)
    BY <1>4 DEF Valid
  <2>2. \A i \in mid .. end - 1 : Valid(data, start, end, i) <=> Valid(data, mid, end, i)
    BY <1>4 DEF Valid
  <2>3. Valid(data, start, end, mid - 1)
    BY <1>4 DEF Valid
  <2>4. V(start, end) = V(start, mid) \cup V(mid, end)
    BY <2>1, <2>2
  <2>5. \A i \in start .. mid - 1 : i \in V(start, end) <=> i \in V(start, mid)
    BY <2>1
  <2>6. \A i \in mid .. end - 1 : i \in V(start, end) <=> i \in V(mid, end)
    BY <2>2
  <2>7. mid - 1 \in V(start, end)
    BY <1>4, <2>3
  <2> HIDE DEF V
  <2>8. R(start, end) = R(start, mid) \cup R(mid, end)
    <3>1. ASSUME NEW i \in start .. mid - 1
          PROVE  i \in R(start, end) <=> i \in R(start, mid)
      BY <2>5
    <3>2. ASSUME NEW i \in mid .. end - 1
          PROVE  i \in R(start, end) <=> i \in R(mid, end)
      <4>1. CASE i = mid
        BY <1>4, <2>6, <2>7, <4>1
      <4>2. CASE i # mid
        BY <1>4, <2>6, <4>2
      <4>3. QED
        BY <4>1, <4>2
    <3>3. /\ R(start, end) \subseteq start .. end - 1 /\ R(start, mid) \subseteq start .. mid - 1
          /\ R(mid, end) \subseteq mid .. end - 1
      OBVIOUS
    <3> HIDE DEF R
    <3>4. QED
      BY <1>4, <3>1, <3>2, <3>3
  <2>9. V(start, mid) \cap V(mid, end) = {} /\ R(start, mid) \cap R(mid, end) = {}
    BY DEF V
  <2> HIDE DEF R
  <2>11. /\ Cardinality(V(start, mid)) \in Nat /\ Cardinality(V(mid, end)) \in Nat
         /\ Cardinality(R(start, mid)) \in Nat /\ Cardinality(R(mid, end)) \in Nat
    BY <1>1, FS_CardinalityType
  <2>12. Cardinality(V(start, end)) = Cardinality(V(start, mid)) + Cardinality(V(mid, end))
    <3>1. IsFiniteSet(V(start, mid)) /\ IsFiniteSet(V(mid, end))
      BY <1>1
    <3>2. QED
      BY <2>4, <2>9, <3>1, CountedApart
  <2>13. Cardinality(R(start, end)) = Cardinality(R(start, mid)) + Cardinality(R(mid, end))
    <3>1. IsFiniteSet(R(start, mid)) /\ IsFiniteSet(R(mid, end))
      BY <1>1
    <3>2. QED
      BY <2>8, <2>9, <3>1, CountedApart
  <2>14. QED
    BY <1>1, <2>11, <2>12, <2>13
<1>5. QED
  BY <1>2, <1>3, <1>4

-----------------------------------------------------------------------------
(* The range selected lies in the log.                                     *)
LEMMA RangeInLog ==
  ASSUME NEW a \in ArtifactType, a.data # <<>>, NEW bytes \in Nat, NEW r,
         r = SelectedRange(a.data, Anchor(a), bytes), r.start < r.end
  PROVE  r.start \in Nat /\ r.end \in 1 .. Len(a.data)
<1>1. a.data \in Seq(Kinds)
  BY DEF ArtifactType
<1>2. \/ Anchor(a) = NoItem
      \/ Anchor(a) \in Ranges /\ Anchor(a).start < Anchor(a).end /\ Anchor(a).end <= Len(a.data)
  BY AnchorIsItem DEF Items, ArtifactType
<1>3. QED
  BY <1>1, <1>2, RangeFacts

(* At most n candidates have fewer than n before them.                     *)
LEMMA StrongestAreFew ==
  ASSUME NEW C, C \subseteq ArtifactType, IsFiniteSet(C), NEW n \in Nat,
         \A a, b \in C : a.id = b.id => a = b
  PROVE  IsFiniteSet(Strongest(C, n)) /\ Cardinality(Strongest(C, n)) <= n
<1> DEFINE S == Strongest(C, n)
           P(a) == {b \in C : Before(b, a)}
           p == [a \in S |-> Cardinality(P(a))]
<1>1. ASSUME NEW a \in C
      PROVE  Anchor(a).score \in Int /\ a.run \in Int /\ a.id \in Int /\ a.stream \in {"stdout", "stderr"}
  <2>1. a \in ArtifactType
    OBVIOUS
  <2>2. a.run \in Int /\ a.id \in Int /\ a.stream \in {"stdout", "stderr"} /\ a.items \subseteq Ranges
    BY <2>1 DEF ArtifactType
  <2>3. Anchor(a).score \in Int
    BY <2>1, <2>2, AnchorIsItem DEF NoItem, Items, Ranges
  <2>4. QED
    BY <2>2, <2>3
<1>2. ASSUME NEW a \in C, NEW b \in C, a # b
      PROVE  Before(a, b) \/ Before(b, a)
  <2>1. a.id # b.id
    BY <1>2
  <2>2. QED
    BY <1>1, <2>1 DEF Before
<1>3. \A a \in C : ~ Before(a, a)
  BY <1>1 DEF Before
<1>4. ASSUME NEW a \in C, NEW b \in C, NEW c \in C, Before(a, b), Before(b, c)
      PROVE  Before(a, c)
  BY <1>1, <1>4 DEF Before
<1>5. \A a \in C : IsFiniteSet(P(a)) /\ Cardinality(P(a)) \in Nat
  BY FS_Subset, FS_CardinalityType
<1>6. ASSUME NEW a \in C, NEW b \in C, Before(a, b)
      PROVE  Cardinality(P(a)) < Cardinality(P(b))
  <2>1. a \notin P(a) /\ P(a) \cup {a} \subseteq P(b)
    BY <1>3, <1>4, <1>6
  <2> HIDE DEF P
  <2>2. Cardinality(P(a) \cup {a}) = Cardinality(P(a)) + 1
    BY <1>5, <2>1, FS_AddElement
  <2>3. Cardinality(P(a) \cup {a}) <= Cardinality(P(b))
    BY <1>5, <2>1, FS_Subset
  <2>4. QED
    BY <1>5, <2>2, <2>3
<1>7. S \subseteq C /\ \A a \in S : Cardinality(P(a)) < n
  BY DEF Strongest
<1> HIDE DEF S, P
<1>8. p \in Injection(S, 0 .. n - 1)
  <2>1. p \in [S -> 0 .. n - 1]
    BY <1>5, <1>7
  <2>2. ASSUME NEW a \in S, NEW b \in S, p[a] = p[b]
        PROVE  a = b
    <3>1. SUFFICES ASSUME a # b
                   PROVE  FALSE
      OBVIOUS
    <3>2. a \in C /\ b \in C
      BY <1>7
    <3>3. Cardinality(P(a)) < Cardinality(P(b)) \/ Cardinality(P(b)) < Cardinality(P(a))
      BY <1>2, <1>6, <3>1, <3>2
    <3>4. QED
      BY <1>5, <2>2, <3>2, <3>3
  <2>3. QED
    BY <2>1, <2>2 DEF Injection, IsInjective
<1>9. IsFiniteSet(0 .. n - 1) /\ Cardinality(0 .. n - 1) = n
  BY FS_Interval
<1>10. IsFiniteSet(S) /\ Cardinality(S) <= Cardinality(0 .. n - 1)
  <2>1. IsFiniteSet(S)
    BY <1>7, FS_Subset
  <2>2. QED
    BY <2>1, <1>8, <1>9, FS_Injection
<1>11. QED
  BY <1>9, <1>10 DEF S
-----------------------------------------------------------------------------
(* Sizes of the contexts selected.                                         *)
Sizes == [k \in DOMAIN result |-> result[k].contentBytes]

(* Each is what was disclosed of a range of one of the logs.               *)
Disclosed(a, r, c) ==
  /\ r.start \in Nat /\ r.end \in 1 .. Len(a.data) /\ r.start < r.end
  /\ c = Context(a, r)

RangeInv == \A k \in DOMAIN result : \E a \in LogCandidates, r \in [start : Nat, end : Nat] : Disclosed(a, r, result[k])

(* No log is shown twice: those waiting, the one being fitted and those    *)
(* shown are different ones.                                               *)
OnceInv ==
  /\ \A k, l \in DOMAIN result : k # l => result[k].id # result[l].id
  /\ \A a \in waiting, k \in DOMAIN result : a.id # result[k].id
  /\ step = "fit" => chosen \notin waiting /\ \A k \in DOMAIN result : chosen.id # result[k].id

(* What is shown and what is left keep to the limits together.             *)
ShareInv ==
  /\ step = "rank" => result = <<>>
  /\ Total(Sizes) + remaining <= limits.bytes
  /\ step = "rank" => waiting = {}
  /\ Cardinality(waiting) + Len(result) + (IF step = "fit" THEN 1 ELSE 0) <= limits.artifacts

ExactInv == RangeInv /\ OnceInv /\ ShareInv

(* Candidates are finitely many, each known by its id.                     *)
LEMMA CandidatesAreFinite ==
  ASSUME SelectIInv
  PROVE  /\ LogCandidates \subseteq ArtifactType /\ IsFiniteSet(LogCandidates)
         /\ \A a, b \in artifacts : a.id = b.id => a = b
         /\ limits.artifacts \in Nat /\ limits.bytes \in Nat
         /\ IsFiniteSet(waiting) /\ Cardinality(waiting) \in Nat
         /\ Len(result) \in Nat /\ Sizes \in Seq(Nat) /\ Total(Sizes) \in Nat
<1> USE DEF SelectIInv
<1>1. LogCandidates \subseteq artifacts /\ waiting \subseteq LogCandidates
  BY DEF LogCandidates, SelectTypeOK
<1>2. /\ artifacts \subseteq ArtifactType /\ IsFiniteSet(artifacts)
      /\ \A a, b \in artifacts : a.id = b.id => a = b
  BY LogAssumption
<1>3. IsFiniteSet(LogCandidates) /\ IsFiniteSet(waiting) /\ Cardinality(waiting) \in Nat
  BY <1>1, <1>2, FS_Subset, FS_CardinalityType
<1>4. limits.artifacts \in Nat /\ limits.bytes \in Nat /\ result \in Seq(ContextType)
  BY DEF SelectTypeOK
<1>5. Len(result) \in Nat /\ \A k \in DOMAIN result : result[k].contentBytes \in Nat
  <2>1. \A c \in ContextType : c.contentBytes \in Nat
    BY DEF ContextType
  <2>2. Len(result) \in Nat /\ \A k \in DOMAIN result : result[k] \in ContextType
    BY <1>4
  <2>3. QED
    BY <2>1, <2>2
<1>6. Sizes \in Seq(Nat)
  BY <1>4, <1>5 DEF Sizes
<1>7. Total(Sizes) \in Nat
  <2>1. 0 \in Nat
    OBVIOUS
  <2>2. QED
    BY <1>6, <2>1, TotalAppend
<1>8. QED
  BY <1>1, <1>2, <1>3, <1>4, <1>5, <1>6, <1>7

LEMMA InitExact == SelectInit => ExactInv
<1> SUFFICES ASSUME SelectInit PROVE ExactInv
  OBVIOUS
<1> USE DEF SelectInit
<1>1. Sizes = <<>> /\ Total(Sizes) = 0
  <2>1. Sizes = <<>>
    BY DEF Sizes
  <2>2. QED
    BY <2>1, TotalOfNone
<1>2. limits.bytes \in Nat /\ limits.artifacts \in Nat
  BY LogAssumption
<1>3. Cardinality({}) = 0 /\ Len(<<>>) = 0
  BY FS_EmptySet
<1>4. ShareInv
  BY <1>1, <1>2, <1>3 DEF ShareInv
<1>5. RangeInv /\ OnceInv
  BY DEF RangeInv, OnceInv
<1>6. QED
  BY <1>4, <1>5 DEF ExactInv

(* No more candidates are ranked than may be shown.                        *)
LEMMA RankExact ==
  ASSUME SelectIInv, ExactInv, Rank
  PROVE  ExactInv'
<1> USE DEF ExactInv, Rank
<1>1. /\ LogCandidates' = LogCandidates /\ Sizes' = Sizes /\ step = "rank" /\ result = <<>>
      /\ UNCHANGED <<artifacts, limits, chosen, result>>
  BY DEF LogCandidates, Sizes, ShareInv
<1>2. CASE limits.artifacts = 0 \/ limits.bytes = 0
  <2>1. step' = "done" /\ UNCHANGED <<waiting, remaining>>
    BY <1>2
  <2>2. QED
    BY <1>1, <2>1 DEF RangeInv, OnceInv, ShareInv, Disclosed
<1>3. CASE limits.artifacts # 0 /\ limits.bytes # 0
  <2>1. waiting' = Strongest(Causal, limits.artifacts) /\ remaining' = limits.bytes /\ step' = "next"
    BY <1>3
  <2>2. /\ Causal \subseteq LogCandidates /\ LogCandidates \subseteq artifacts
    BY DEF Causal, LogCandidates
  <2>3. IsFiniteSet(Causal) /\ Causal \subseteq ArtifactType /\ limits.artifacts \in Nat
        /\ \A a, b \in Causal : a.id = b.id => a = b
    BY <2>2, CandidatesAreFinite, FS_Subset
  <2>4. Cardinality(waiting') <= limits.artifacts /\ Cardinality(waiting') \in Nat
    BY <2>1, <2>3, StrongestAreFew, FS_CardinalityType
  <2>5. Total(Sizes) = 0 /\ Len(result) = 0 /\ limits.bytes \in Nat
    <3>1. Sizes = <<>>
      BY <1>1 DEF Sizes
    <3>2. QED
      BY <1>1, <3>1, TotalOfNone, CandidatesAreFinite
  <2>6. ShareInv'
    BY <1>1, <2>1, <2>3, <2>4, <2>5 DEF ShareInv
  <2>7. RangeInv' /\ OnceInv'
    BY <1>1, <2>1 DEF RangeInv, OnceInv
  <2>8. QED
    BY <2>6, <2>7
<1>4. QED
  BY <1>2, <1>3

(* The one taken is no longer waiting.                                     *)
LEMMA TakeExact ==
  ASSUME SelectIInv, ExactInv, Take
  PROVE  ExactInv'
<1> USE DEF ExactInv, Take
<1>1. /\ LogCandidates' = LogCandidates /\ Sizes' = Sizes /\ step = "next"
      /\ UNCHANGED <<artifacts, limits, remaining, result>>
  BY DEF LogCandidates, Sizes
<1>2. RangeInv'
  BY <1>1 DEF RangeInv, Disclosed
<1>3. CASE waiting = {} \/ remaining = 0
  <2>1. step' = "done" /\ UNCHANGED <<waiting, chosen>>
    BY <1>3
  <2>2. QED
    BY <1>1, <1>2, <2>1 DEF OnceInv, ShareInv
<1>4. CASE waiting # {} /\ remaining # 0
  <2>1. PICK a \in waiting : chosen' = a /\ waiting' = waiting \ {a} /\ step' = "fit"
    BY <1>4
  <2>2. Cardinality(waiting \ {a}) = Cardinality(waiting) - 1
    BY CandidatesAreFinite, FS_RemoveElement
  <2>3. Cardinality(waiting) \in Nat /\ Len(result) \in Nat /\ limits.artifacts \in Nat
    BY CandidatesAreFinite
  <2>4. ShareInv'
    BY <1>1, <2>1, <2>2, <2>3 DEF ShareInv
  <2>5. OnceInv'
    BY <1>1, <2>1 DEF OnceInv
  <2>6. QED
    BY <1>2, <2>4, <2>5
<1>5. QED
  BY <1>3, <1>4

(* What is accepted is paid from what is left.                             *)
LEMMA FitExact ==
  ASSUME SelectIInv, ExactInv, Fit
  PROVE  ExactInv'
<1> USE DEF ExactInv
<1> DEFINE r == SelectedRange(chosen.data, Anchor(chosen), budget)
           size == ContentSize(chosen.data, r.start, r.end)
<1>1. /\ step = "fit" /\ chosen \in LogCandidates /\ LogCandidates' = LogCandidates
      /\ UNCHANGED <<artifacts, limits, waiting, chosen>>
  BY DEF Fit, SelectIInv, SelectTypeOK, LogCandidates
<1>2. chosen \in ArtifactType /\ chosen \in artifacts /\ chosen.data # <<>> /\ budget \in Nat
  BY <1>1 DEF LogCandidates, SelectIInv, SelectTypeOK
<1>3. /\ Cardinality(waiting) \in Nat /\ Len(result) \in Nat /\ limits.artifacts \in Nat /\ limits.bytes \in Nat
      /\ Sizes \in Seq(Nat) /\ Total(Sizes) \in Nat /\ remaining \in Nat
      /\ \A a, b \in artifacts : a.id = b.id => a = b
  BY CandidatesAreFinite DEF SelectIInv, SelectTypeOK
<1>4. CASE /\ UNCHANGED <<remaining, result>>
           /\ step' \in {"next", "fit"}
  <2>1. Sizes' = Sizes
    BY <1>4 DEF Sizes
  <2>2. RangeInv'
    BY <1>1, <1>4 DEF RangeInv, Disclosed
  <2>3. OnceInv'
    BY <1>1, <1>4 DEF OnceInv
  <2>4. ShareInv'
    BY <1>1, <1>3, <1>4, <2>1 DEF ShareInv
  <2>5. QED
    BY <2>2, <2>3, <2>4
<1>5. CASE r.start < r.end /\ size <= allowance /\ Accept(r) /\ step' = "next"
  <2> DEFINE c == Context(chosen, r)  n == Len(result)
  <2>1. /\ c \in ContextType /\ c.id = chosen.id /\ size \in Nat
        /\ r.start \in Nat /\ r.end \in 1 .. Len(chosen.data)
    BY <1>2, <1>5, ContextFacts, RangeInLog
  <2>2. result' = Append(result, c) /\ remaining' = remaining - size
    BY <1>5 DEF Accept
  <2>3. c.contentBytes = size
    BY DEF Context
  <2>4. Disclosed(chosen, [start |-> r.start, end |-> r.end], c)
    BY <1>5, <2>1 DEF Disclosed, Context, Inside, Rebased
  <2> HIDE DEF c, r, size
  <2>5. result \in Seq(ContextType)
    BY DEF SelectIInv, SelectTypeOK
  <2>6. /\ result' \in Seq(ContextType) /\ Len(result') = n + 1
        /\ DOMAIN result' = 1 .. n + 1 /\ DOMAIN result = 1 .. n
        /\ result'[n + 1] = c /\ \A k \in 1 .. n : result'[k] = result[k]
    BY <2>1, <2>2, <2>5, AppendProperties
  <2> HIDE DEF n
  <2>7. n \in Nat
    BY <1>3 DEF n
  <2>8. RangeInv'
    <3>1. ASSUME NEW k \in 1 .. n + 1
          PROVE  \E a \in LogCandidates, q \in [start : Nat, end : Nat] : Disclosed(a, q, result'[k])
      <4>1. CASE k \in 1 .. n
        BY <2>6, <4>1 DEF RangeInv
      <4>2. CASE k = n + 1
        <5>1. [start |-> r.start, end |-> r.end] \in [start : Nat, end : Nat]
          BY <1>2, <2>1 DEF ArtifactType
        <5>2. QED
          BY <1>1, <2>4, <2>6, <4>2, <5>1
      <4>3. QED
        BY <2>7, <4>1, <4>2
    <3>2. QED
      BY <1>1, <2>6, <3>1 DEF RangeInv, Disclosed
  <2>9. OnceInv'
    <3>1. \A k \in 1 .. n : result[k].id # chosen.id
      BY <1>1, <2>6 DEF OnceInv
    <3>2. ASSUME NEW k \in 1 .. n + 1, NEW l \in 1 .. n + 1, k # l
          PROVE  result'[k].id # result'[l].id
      <4>1. CASE k = n + 1
        BY <2>1, <2>6, <2>7, <3>1, <3>2, <4>1
      <4>2. CASE l = n + 1
        BY <2>1, <2>6, <2>7, <3>1, <3>2, <4>2
      <4>3. CASE k \in 1 .. n /\ l \in 1 .. n
        BY <2>6, <3>2, <4>3 DEF OnceInv
      <4>4. QED
        BY <2>7, <4>1, <4>2, <4>3
    <3>3. ASSUME NEW a \in waiting, NEW k \in 1 .. n + 1
          PROVE  a.id # result'[k].id
      <4>1. CASE k \in 1 .. n
        BY <2>6, <4>1 DEF OnceInv
      <4>2. CASE k = n + 1
        <5>1. a \in artifacts /\ a # chosen
          BY <1>1 DEF OnceInv, SelectIInv, SelectTypeOK, LogCandidates
        <5>2. QED
          BY <1>2, <1>3, <2>1, <2>6, <4>2, <5>1
      <4>3. QED
        BY <2>7, <4>1, <4>2
    <3>4. QED
      BY <1>1, <1>5, <2>6, <3>2, <3>3 DEF OnceInv
  <2>10. ShareInv'
    <3>1. Sizes' = Append(Sizes, size)
      <4>1. Sizes \in [1 .. n -> Nat] /\ Len(Sizes) = n
        BY <1>3, <2>6, <2>7 DEF Sizes
      <4> DEFINE h == Append(Sizes, size)
      <4>2. /\ h \in Seq(Nat) /\ Len(h) = n + 1 /\ h[n + 1] = size
            /\ \A k \in 1 .. n : h[k] = Sizes[k]
        BY <1>3, <2>1, <4>1, AppendProperties
      <4> HIDE DEF h
      <4>3. h = [k \in 1 .. n + 1 |-> h[k]]
        BY <4>2
      <4>4. \A k \in 1 .. n + 1 : result'[k].contentBytes = h[k]
        BY <2>3, <2>6, <2>7, <4>2 DEF Sizes
      <4>5. Sizes' = [k \in 1 .. n + 1 |-> result'[k].contentBytes]
        BY <2>6 DEF Sizes
      <4>6. Sizes' = h
        BY <4>3, <4>4, <4>5
      <4>7. QED
        BY <4>6 DEF h
    <3>2. Total(Sizes') = Total(Sizes) + size
      BY <1>3, <2>1, <3>1, TotalAppend
    <3>3. Total(Sizes)' = Total(Sizes')
      BY DEF Total, Units
    <3>4. QED
      BY <1>1, <1>3, <1>5, <2>1, <2>2, <2>6, <2>7, <3>2, <3>3 DEF ShareInv, n
  <2>11. QED
    BY <2>8, <2>9, <2>10
<1>6. QED
  BY <1>4, <1>5 DEF Fit

(* The invariant of the limits and ranges is inductive.                    *)
LEMMA ExactInvariance == SelectSpec => []ExactInv
<1>1. SelectInit => ExactInv
  BY InitExact
<1>2. ASSUME ExactInv, UNCHANGED selectVars
      PROVE  ExactInv'
  <2>1. LogCandidates' = LogCandidates /\ Sizes' = Sizes
    BY <1>2 DEF selectVars, LogCandidates, Sizes
  <2>2. QED
    BY <1>2, <2>1 DEF selectVars, ExactInv, RangeInv, OnceInv, ShareInv, Disclosed
<1>3. SelectIInv /\ ExactInv /\ [SelectNext]_selectVars => ExactInv'
  BY <1>2, RankExact, TakeExact, FitExact DEF SelectNext, SelectDone
<1>4. QED
  BY <1>1, <1>3, SelectInvariance, PTL DEF SelectSpec

(* A diagnostic shown has its own text where its place says.               *)
LEMMA PlacesAreTrue ==
  ASSUME NEW a \in ArtifactType, NEW r \in [start : Nat, end : Nat], NEW c, Disclosed(a, r, c),
         NEW i \in Items(a), Inside(r, i), i.start \in LineStarts(a.data)
  PROVE  \E e \in c.enrichment :
           /\ e.start < e.end /\ (i.end \in LineEnds(a.data) => e.end <= c.contentBytes)
           /\ e.start = ContentSize(a.data, c.byteStart, i.start)
           /\ e.end - e.start = ContentSize(a.data, i.start, i.end)
<1> DEFINE data == a.data  e == Rebased(data, r, i)
           head == ContentSize(data, r.start, i.start)
           text == ContentSize(data, i.start, i.end)
           rest == ContentSize(data, i.end, r.end)
<1>1. /\ data \in Seq(Kinds) /\ i.start \in Nat /\ i.end \in Nat /\ r.start \in Nat /\ r.end \in Nat
      /\ i.start < i.end /\ i.end <= Len(data) /\ r.end <= Len(data) /\ Len(data) \in Nat
      /\ r.start <= i.start /\ i.end <= r.end
  BY DEF ArtifactType, Items, Ranges, Disclosed, Inside
<1>2. /\ c.enrichment = {Rebased(data, r, j) : j \in {k \in Items(a) : Inside(r, k)}}
      /\ c.byteStart = r.start /\ c.contentBytes = ContentSize(data, r.start, r.end)
  BY DEF Disclosed, Context
<1>3. e \in c.enrichment
  BY <1>2
<1>4. e.start = head /\ e.end = ContentSize(data, r.start, i.end)
  BY DEF Rebased
<1> HIDE DEF e
<1>5. head \in Nat /\ text \in Nat /\ text # 0 /\ rest \in Nat
  BY <1>1, ContentFacts
<1>6. Cuts(data, r.start, i.start, i.end)
  <2>1. i.start = 0 \/ data[i.start] = "nl"
    BY <1>1 DEF LineStarts, Newlines
  <2> HIDE DEF data
  <2>2. QED
    BY <1>1, <2>1 DEF Cuts
<1>7. ContentSize(data, r.start, i.end) = head + text
  BY <1>6, ContentSplits
<1>8. i.end \in LineEnds(data) => ContentSize(data, r.start, r.end) = (head + text) + rest
  <2>1. SUFFICES ASSUME i.end \in LineEnds(data)
                 PROVE  ContentSize(data, r.start, r.end) = (head + text) + rest
    OBVIOUS
  <2>2. i.end = Len(data) \/ data[i.end] = "nl"
    BY <1>1, <2>1 DEF LineEnds, Newlines
  <2> HIDE DEF data
  <2>3. Cuts(data, r.start, i.end, r.end)
    BY <1>1, <2>2 DEF Cuts
  <2>4. ContentSize(data, r.start, r.end) = ContentSize(data, r.start, i.end) + rest
    BY <2>3, ContentSplits
  <2>5. QED
    BY <1>7, <2>4
<1> HIDE DEF head, text, rest
<1>9. e.start < e.end /\ (i.end \in LineEnds(data) => e.end <= c.contentBytes) /\ e.end - e.start = text
  BY <1>2, <1>4, <1>5, <1>7, <1>8
<1>10. QED
  BY <1>2, <1>3, <1>4, <1>9 DEF head, text, data

(* What is selected is what may be shown: the contexts keep to the limits  *)
(* of the profile together, and every diagnostic in them is where its text *)
(* is.                                                                     *)
THEOREM SelectionKeepsLimits == SelectSpec => []SelectionIsExact
<1>1. ASSUME SelectIInv, ExactInv
      PROVE  WithinLimits
  <2>1. Total(Sizes) <= limits.bytes
    BY <1>1, CandidatesAreFinite DEF ExactInv, ShareInv, SelectIInv, SelectTypeOK
  <2>2. Len(result) <= limits.artifacts
    BY <1>1, CandidatesAreFinite DEF ExactInv, ShareInv
  <2>3. QED
    BY <1>1, <2>1, <2>2 DEF WithinLimits, Sizes, ExactInv, OnceInv
<1>2. ASSUME SelectIInv, ExactInv, NEW c \in Contexts,
             NEW i \in {j \in Items(Source(c)) : c.byteStart <= j.start /\ j.end <= c.byteEnd}
      PROVE  \E e \in c.enrichment :
               /\ e.start < e.end /\ (i.end \in LineEnds(Source(c).data) => e.end <= c.contentBytes)
               /\ e.start = ContentSize(Source(c).data, c.byteStart, i.start)
               /\ e.end - e.start = ContentSize(Source(c).data, i.start, i.end)
  <2>1. PICK a \in LogCandidates, r \in [start : Nat, end : Nat] : Disclosed(a, r, c)
    BY <1>2 DEF ExactInv, RangeInv, Contexts
  <2>2. a \in artifacts /\ a \in ArtifactType /\ a.id = c.id /\ c.byteStart = r.start /\ c.byteEnd = r.end
    BY <1>2, <2>1, CandidatesAreFinite DEF LogCandidates, Disclosed, Context
  <2>3. Source(c) = a
    BY <1>2, <2>2, CandidatesAreFinite DEF Source
  <2>4. i \in Items(a) /\ Inside(r, i)
    BY <2>2, <2>3 DEF Inside
  <2>5. i.start \in LineStarts(a.data)
    BY <1>2, <2>2, <2>4, LogAssumption DEF SelectIInv, Items
  <2>6. QED
    BY <2>1, <2>2, <2>3, <2>4, <2>5, PlacesAreTrue
<1>3. SelectIInv /\ ExactInv => SelectionIsExact
  BY <1>1, <1>2 DEF SelectionIsExact, RangesAreRebased
<1>4. QED
  BY <1>3, SelectInvariance, ExactInvariance, PTL

-----------------------------------------------------------------------------
(***************************************************************************)
(* The projection.                                                         *)
(***************************************************************************)

(* The steps up to one.                                                    *)
AtItems    == {"begin", "items"}
AtLogs     == AtItems \cup {"logs"}
AtSource   == AtLogs \cup {"source"}
AtNotices  == AtSource \cup {"notices"}
AtFindings == AtNotices \cup {"findings"}

ShapeInv ==
  /\ projection = [items |-> projection.items, artifacts |-> projection.artifacts,
                   enrichment |-> projection.enrichment, notices |-> projection.notices]
  /\ manifest = [classes |-> manifest.classes, items |-> manifest.items, artifacts |-> manifest.artifacts,
                 enrichment |-> manifest.enrichment, bytes |-> manifest.bytes]

(* What is shown so far.                                                   *)
OrderInv ==
  /\ pc # "done" => outcome = "none"
  /\ pc = "begin" => class = 1 /\ projection.items = {}
  /\ pc \in AtLogs => projection.artifacts = {} /\ projection.enrichment = {}
  /\ pc = "source" => \A a \in projection.artifacts : a.class = "log_content"
  /\ pc \in AtNotices => projection.notices = {}
  /\ pc \in AtFindings => candidates = {}

SpentInv ==
  /\ \A i \in projection.items : \E k \in 1 .. class - 1 : k <= 4 /\ i.class = ItemClasses[k]
  /\ \A a \in projection.artifacts : a.class \in {"log_content", "source_content"}
  /\ \A x \in projection.items \cup projection.artifacts :
       Allowed(x.class) /\ Within(OfClass(x.class), profile[x.class])

ListInv ==
  /\ manifest.items = Ids(projection.items)
  /\ manifest.artifacts = Ids(projection.artifacts)
  /\ manifest.enrichment = Ids(projection.enrichment)
  /\ \A r \in projection.enrichment : \E a \in projection.artifacts : a.id = r.log /\ a.class = "log_content"
  /\ \A n \in projection.notices : n.affects \subseteq Listed
  /\ \A f \in candidates : f.support \cup f.against \subseteq Listed

IInv == TypeOK /\ ShapeInv /\ OrderInv /\ SpentInv /\ ListInv

-----------------------------------------------------------------------------
(* The classes of items, by position.                                      *)
LEMMA ClassFacts ==
  /\ Len(ItemClasses) = 4
  /\ ToSet(ItemClasses) = {"metadata", "command", "path", "environment_name"}
  /\ \A k \in 1 .. 4 : ItemClasses[k] \in ToSet(ItemClasses)
  /\ \A j, k \in 1 .. 4 : ItemClasses[j] = ItemClasses[k] => j = k
  /\ \A c \in ToSet(ItemClasses) : \E k \in 1 .. 4 : c = ItemClasses[k]
<1> DEFINE s == ItemClasses
<1>1. Len(s) = 4 /\ DOMAIN s = 1 .. 4
  BY DEF ItemClasses
<1>2. s[1] = "metadata" /\ s[2] = "command" /\ s[3] = "path" /\ s[4] = "environment_name"
  BY DEF ItemClasses
<1>3. \A k \in 1 .. 4 : k = 1 \/ k = 2 \/ k = 3 \/ k = 4
  OBVIOUS
<1>4. ToSet(s) = {s[k] : k \in 1 .. 4}
  BY <1>1 DEF ToSet
<1> HIDE DEF s
<1>5. ToSet(s) = {"metadata", "command", "path", "environment_name"}
  BY <1>2, <1>3, <1>4
<1>6. \A j, k \in 1 .. 4 : s[j] = s[k] => j = k
  BY <1>2, <1>3
<1>7. QED
  BY <1>1, <1>4, <1>5, <1>6 DEF s

(* What is listed is what is shown.                                        *)
LEMMA ListedIsShown == ASSUME ListInv PROVE Listed = Shown
BY DEF ListInv, Listed, Shown

(* The classes taken before stay taken.                                    *)
LEMMA LongerPrefix ==
  ASSUME NEW a \in Int, NEW b \in Int, b = a \/ b = a + 1
  PROVE  1 .. a - 1 \subseteq 1 .. b - 1
OBVIOUS

(* A failure discloses nothing more.                                       *)
LEMMA FailKeeps ==
  ASSUME IInv, NEW why, Fail(why), UNCHANGED inputs,
         why \in {"prepared", "evidence", "approval", "limit", "no_metadata", "no_redaction", "no_candidate", "seal", "oversized"}
  PROVE  IInv'
<1> USE DEF IInv, Fail, inputs
<1>1. TypeOK'
  BY DEF TypeOK
<1>2. ShapeInv'
  BY DEF ShapeInv
<1>3. OrderInv'
  BY DEF OrderInv, AtItems, AtLogs, AtSource, AtNotices, AtFindings
<1>4. SpentInv'
  BY DEF SpentInv, Allowed, OfClass
<1>5. ListInv'
  BY DEF ListInv, Listed
<1>6. QED
  BY <1>1, <1>2, <1>3, <1>4, <1>5

(* A step that shows nothing more goes on to the next.                     *)
LEMMA MoveKeeps ==
  ASSUME IInv, UNCHANGED <<evidence, profile, approved, outcome, projection, manifest, candidates>>,
         class' \in 1 .. Len(ItemClasses) + 1, class' = class \/ class' = class + 1,
         <<pc, pc'>> \in {<<"begin", "items">>, <<"items", "items">>, <<"items", "logs">>, <<"logs", "source">>,
                          <<"source", "notices">>, <<"seal", "encode">>}
  PROVE  IInv'
<1>1. pc' \in {"items", "logs", "source", "notices", "encode"}
  OBVIOUS
<1>2. TypeOK'
  BY <1>1 DEF IInv, TypeOK
<1>3. ShapeInv'
  BY DEF IInv, ShapeInv
<1>4. OrderInv'
  BY DEF IInv, OrderInv, AtItems, AtLogs, AtSource, AtNotices, AtFindings
<1>5. SpentInv'
  <2>1. Len(ItemClasses) = 4
    BY ClassFacts
  <2>2. class \in Int /\ class' \in Int
    BY <2>1 DEF IInv, TypeOK
  <2>3. 1 .. class - 1 \subseteq 1 .. class' - 1
    BY <2>2, LongerPrefix
  <2>4. \A i \in projection.items : \E k \in 1 .. class' - 1 : k <= 4 /\ i.class = ItemClasses[k]
    BY <2>3 DEF IInv, SpentInv
  <2>5. QED
    BY <2>4 DEF IInv, SpentInv, Allowed, OfClass
<1>6. ListInv'
  BY DEF IInv, ListInv, Listed
<1>7. QED
  BY <1>2, <1>3, <1>4, <1>5, <1>6 DEF IInv

-----------------------------------------------------------------------------
LEMMA InitHolds == Init => IInv
<1> SUFFICES ASSUME Init PROVE IInv
  OBVIOUS
<1>1. TypeOK
  BY ClassFacts DEF Init, TypeOK
<1>2. ShapeInv /\ OrderInv /\ SpentInv
  BY DEF Init, ShapeInv, OrderInv, SpentInv
<1>3. ListInv
  BY DEF Init, ListInv, Ids
<1>4. QED
  BY <1>1, <1>2, <1>3 DEF IInv

LEMMA BeginKeeps == ASSUME IInv, Begin PROVE IInv'
<1>1. class' \in 1 .. Len(ItemClasses) + 1 \/ UNCHANGED class
  BY DEF Begin, Fail
<1>2. CASE Goto("items") /\ UNCHANGED <<class, projection, manifest, candidates>>
  BY <1>2, MoveKeeps DEF Begin, Goto, inputs, IInv, TypeOK
<1>3. CASE Fail("evidence") \/ Fail("approval")
  BY <1>3, FailKeeps DEF Begin
<1>4. QED
  BY <1>2, <1>3 DEF Begin

(* Showing the items of the next class.                                    *)
LEMMA ShowItemsKeeps ==
  ASSUME IInv, pc = "items", class <= Len(ItemClasses), NEW picked \in SUBSET evidence.items,
         \A i \in picked : i.class = ItemClasses[class],
         Allowed(ItemClasses[class]), Within(picked, profile[ItemClasses[class]]),
         ShowItems(ItemClasses[class], picked), class' = class + 1,
         UNCHANGED <<evidence, profile, approved, pc, outcome, candidates>>
  PROVE  IInv'
<1>0. PICK c : c = ItemClasses[class]
  OBVIOUS
<1>1. Len(ItemClasses) = 4 /\ class \in 1 .. 4 /\ c \in ToSet(ItemClasses) /\ c \in Classes
  BY <1>0, ClassFacts DEF IInv, TypeOK, Classes
<1>2. /\ projection' = [projection EXCEPT !.items = @ \cup picked]
      /\ manifest' = [manifest EXCEPT !.items = @ \cup Ids(picked), !.classes = @ \cup (IF picked = {} THEN {} ELSE {c})]
  BY <1>0 DEF ShowItems
<1>3. /\ projection' = [items |-> projection.items \cup picked, artifacts |-> {}, enrichment |-> {}, notices |-> {}]
      /\ projection.artifacts = {} /\ projection.enrichment = {} /\ projection.notices = {} /\ candidates = {}
  BY <1>2 DEF IInv, ShapeInv, OrderInv, AtItems, AtLogs, AtSource, AtNotices, AtFindings
<1>4. manifest' = [classes |-> manifest.classes \cup (IF picked = {} THEN {} ELSE {c}), items |-> manifest.items \cup Ids(picked),
                   artifacts |-> manifest.artifacts, enrichment |-> manifest.enrichment, bytes |-> manifest.bytes]
  BY <1>2 DEF IInv, ShapeInv
<1>5. TypeOK'
  <2>1. class' \in 1 .. Len(ItemClasses) + 1
    BY <1>1
  <2>2. manifest'.classes \subseteq Classes
    BY <1>1, <1>4 DEF IInv, TypeOK
  <2>3. QED
    BY <2>1, <2>2 DEF IInv, TypeOK
<1>6. ShapeInv'
  BY <1>3, <1>4 DEF ShapeInv
<1>7. OrderInv'
  BY <1>3 DEF IInv, OrderInv, AtItems, AtLogs, AtSource, AtNotices, AtFindings
<1>8. SpentInv'
  <2>1. \A i \in projection.items : i.class # c
    <3>1. ASSUME NEW i \in projection.items, i.class = c PROVE FALSE
      <4>1. PICK k \in 1 .. class - 1 : k <= 4 /\ i.class = ItemClasses[k]
        BY DEF IInv, SpentInv
      <4>2. k \in 1 .. 4 /\ k # class
        BY <1>1, <4>1
      <4>3. QED
        BY <1>0, <1>1, <3>1, <4>1, <4>2, ClassFacts
    <3>2. QED
      BY <3>1
  <2>2. \A i \in projection'.items : \E k \in 1 .. class' - 1 : k <= 4 /\ i.class = ItemClasses[k]
    <3>1. ASSUME NEW i \in projection.items PROVE \E k \in 1 .. class' - 1 : k <= 4 /\ i.class = ItemClasses[k]
      <4>1. PICK k \in 1 .. class - 1 : k <= 4 /\ i.class = ItemClasses[k]
        BY DEF IInv, SpentInv
      <4>2. k \in 1 .. class' - 1
        BY <1>1
      <4>3. QED
        BY <4>1, <4>2
    <3>2. class \in 1 .. class' - 1 /\ class <= 4
      BY <1>1
    <3>3. QED
      BY <1>3, <3>1, <3>2
  <2>3. OfClass(c)' = picked
    BY <1>0, <1>3, <2>1 DEF OfClass
  <2>4. ASSUME NEW i \in projection.items PROVE OfClass(i.class)' = OfClass(i.class)
    <3>1. OfClass(i.class)' = {x \in projection.items \cup picked : x.class = i.class}
      BY <1>3 DEF OfClass
    <3>2. \A x \in picked : x.class # i.class
      BY <1>0, <2>1
    <3>3. OfClass(i.class) = {x \in projection.items : x.class = i.class}
      BY <1>3 DEF OfClass
    <3>4. QED
      BY <3>1, <3>2, <3>3
  <2>5. \A x \in projection'.items \cup projection'.artifacts : (Allowed(x.class) /\ Within(OfClass(x.class), profile[x.class]))'
    <3>1. profile' = profile /\ approved' = approved
      OBVIOUS
    <3>2. ASSUME NEW x \in projection.items PROVE (Allowed(x.class) /\ Within(OfClass(x.class), profile[x.class]))'
      BY <2>4, <3>1 DEF IInv, SpentInv, Allowed, Within
    <3>3. ASSUME NEW x \in picked PROVE (Allowed(x.class) /\ Within(OfClass(x.class), profile[x.class]))'
      <4>1. x.class = c
        BY <1>0
      <4>2. QED
        BY <1>0, <2>3, <3>1, <4>1 DEF Allowed, Within
    <3>4. QED
      BY <1>3, <3>2, <3>3
  <2>6. QED
    BY <1>3, <2>2, <2>5 DEF SpentInv
<1>9. ListInv'
  BY <1>3, <1>4 DEF IInv, ListInv, Ids
<1>10. QED
  BY <1>5, <1>6, <1>7, <1>8, <1>9 DEF IInv

LEMMA ProjectItemsKeeps == ASSUME IInv, ProjectItems PROVE IInv'
<1> DEFINE c == ItemClasses[class]
           picked == {i \in evidence.items : i.class = c /\ i.useful}
<1>1. class + 1 \in 1 .. Len(ItemClasses) + 1
  BY ClassFacts DEF ProjectItems, IInv, TypeOK
<1>2. CASE ~ Allowed(c)
  BY <1>1, <1>2, MoveKeeps DEF ProjectItems, inputs
<1>3. CASE Allowed(c) /\ ~ Within(picked, profile[c])
  BY <1>3, FailKeeps DEF ProjectItems
<1>4. CASE Allowed(c) /\ Within(picked, profile[c])
  BY <1>4, ShowItemsKeeps DEF ProjectItems, inputs
<1>5. QED
  BY <1>2, <1>3, <1>4

LEMMA ItemsEndKeeps == ASSUME IInv, ItemsEnd PROVE IInv'
<1>1. CASE Fail("no_metadata")
  BY <1>1, FailKeeps DEF ItemsEnd
<1>2. CASE Goto("logs") /\ UNCHANGED <<class, projection, manifest, candidates>>
  BY <1>2, MoveKeeps DEF ItemsEnd, Goto, inputs, IInv, TypeOK
<1>3. QED
  BY <1>1, <1>2 DEF ItemsEnd

(* Contexts of logs, within the limits, with ranges of theirs.             *)
LEMMA ShowContextsKeeps ==
  ASSUME IInv, pc = "logs", "log_content" \in approved, UNCHANGED inputs,
         NEW logs, NEW ranges, NEW contexts, NEW size,
         contexts = {[id |-> l.id, class |-> "log_content", size |-> size[l]] : l \in logs},
         \A r \in ranges : r.log \in Ids(logs),
         Within(contexts, Limits("log_content")),
         ShowContexts(contexts, ranges), Goto("source"), UNCHANGED <<class, candidates>>
  PROVE  IInv'
<1>1. PICK shown : shown = {[id |-> r.id, log |-> r.log, lines |-> DiagnosticLines(r)] : r \in ranges}
  OBVIOUS
<1>2. /\ projection' = [items |-> projection.items, artifacts |-> contexts, enrichment |-> shown, notices |-> {}]
      /\ candidates' = {} /\ pc' = "source" /\ class' = class /\ outcome' = outcome
  BY <1>1 DEF ShowContexts, IInv, ShapeInv, OrderInv, AtLogs, AtSource, AtNotices, AtFindings, Goto
<1>3. manifest' = [classes |-> manifest.classes \cup (IF contexts = {} THEN {} ELSE {"log_content"}), items |-> manifest.items,
                   artifacts |-> Ids(contexts), enrichment |-> Ids(ranges), bytes |-> Bytes(contexts)]
  BY DEF ShowContexts, IInv, ShapeInv
<1>4. \A a \in contexts : a.class = "log_content"
  OBVIOUS
<1>5. TypeOK'
  <2>1. manifest'.classes \subseteq Classes
    BY <1>3 DEF IInv, TypeOK, Classes
  <2>2. QED
    BY <1>2, <2>1 DEF IInv, TypeOK, inputs
<1>6. ShapeInv'
  BY <1>2, <1>3 DEF ShapeInv
<1>7. OrderInv'
  BY <1>2, <1>4 DEF IInv, OrderInv, AtItems, AtLogs, AtSource, AtNotices, AtFindings
<1>8. SpentInv'
  <2>1. "log_content" \notin ToSet(ItemClasses)
    BY ClassFacts
  <2>2. \A i \in projection.items : i.class \in ToSet(ItemClasses)
    BY ClassFacts DEF IInv, SpentInv
  <2>3. OfClass("log_content")' = contexts
    BY <1>2, <1>4, <2>1, <2>2 DEF OfClass
  <2>4. ASSUME NEW i \in projection.items PROVE OfClass(i.class)' = OfClass(i.class)
    <3>1. projection.artifacts = {}
      BY DEF IInv, OrderInv, AtLogs
    <3>2. \A a \in contexts : a.class # i.class
      BY <1>4, <2>1, <2>2
    <3>3. QED
      BY <1>2, <3>1, <3>2 DEF OfClass
  <2>5. approved' = approved /\ profile' = profile /\ approved \subseteq DOMAIN profile
    BY DEF inputs, IInv, TypeOK
  <2>6. ASSUME NEW x \in projection.items PROVE (Allowed(x.class) /\ Within(OfClass(x.class), profile[x.class]))'
    BY <2>4, <2>5 DEF IInv, SpentInv, Allowed, Within
  <2>7. ASSUME NEW x \in contexts PROVE (Allowed(x.class) /\ Within(OfClass(x.class), profile[x.class]))'
    <3>1. Limits("log_content") = profile["log_content"]
      BY <2>5 DEF Limits
    <3>2. QED
      BY <1>4, <2>3, <2>5, <3>1 DEF Allowed, Within
  <2>8. \A i \in projection.items : \E k \in 1 .. class - 1 : k <= 4 /\ i.class = ItemClasses[k]
    BY DEF IInv, SpentInv
  <2>9. QED
    BY <1>2, <1>4, <2>6, <2>7, <2>8 DEF SpentInv
<1>9. ListInv'
  <2>1. Ids(ranges) = Ids(shown)
    <3>1. \A r \in ranges : \E x \in shown : x.id = r.id
      <4>1. ASSUME NEW r \in ranges PROVE \E x \in shown : x.id = r.id
        <5>1. [id |-> r.id, log |-> r.log, lines |-> DiagnosticLines(r)] \in shown
          BY <1>1
        <5>2. QED
          BY <5>1
      <4>2. QED
        BY <4>1
    <3>2. \A x \in shown : \E r \in ranges : x.id = r.id
      BY <1>1
    <3>3. QED
      BY <3>1, <3>2 DEF Ids
  <2>2. Ids(contexts) = Ids(logs)
    <3>1. \A l \in logs : \E c \in contexts : c.id = l.id
      <4>1. ASSUME NEW l \in logs PROVE \E c \in contexts : c.id = l.id
        <5>1. [id |-> l.id, class |-> "log_content", size |-> size[l]] \in contexts
          OBVIOUS
        <5>2. QED
          BY <5>1
      <4>2. QED
        BY <4>1
    <3>2. \A c \in contexts : \E l \in logs : c.id = l.id
      OBVIOUS
    <3>3. QED
      BY <3>1, <3>2 DEF Ids
  <2>3. ASSUME NEW r \in shown PROVE \E a \in contexts : a.id = r.log /\ a.class = "log_content"
    <3>1. r.log \in Ids(contexts)
      BY <1>1, <2>2
    <3>2. QED
      BY <1>4, <3>1 DEF Ids
  <2>4. manifest.items = Ids(projection.items)
    BY DEF IInv, ListInv
  <2>5. QED
    BY <1>2, <1>3, <2>1, <2>3, <2>4 DEF ListInv
<1>10. QED
  BY <1>5, <1>6, <1>7, <1>8, <1>9 DEF IInv

LEMMA ShowLogsKeeps ==
  ASSUME IInv, pc = "logs", "log_content" \in approved, UNCHANGED inputs, ShowLogs(Limits("log_content"))
  PROVE  IInv'
<1> DEFINE bounds == Limits("log_content")
           contexts(logs, size) == {[id |-> l.id, class |-> "log_content", size |-> size[l]] : l \in logs}
<1>1. PICK logs \in SUBSET Eligible :
        \E size \in [logs -> 1 .. bounds.bytes], ranges \in SUBSET {r \in evidence.ranges : r.log \in Ids(logs)} :
          /\ Within(contexts(logs, size), bounds)
          /\ IF logs = {} /\ Eligible # {} THEN Fail("limit")
             ELSE ShowContexts(contexts(logs, size), ranges) /\ Goto("source") /\ UNCHANGED <<class, candidates>>
  BY DEF ShowLogs
<1>2. PICK size \in [logs -> 1 .. bounds.bytes], ranges \in SUBSET {r \in evidence.ranges : r.log \in Ids(logs)} :
        /\ Within(contexts(logs, size), bounds)
        /\ IF logs = {} /\ Eligible # {} THEN Fail("limit")
           ELSE ShowContexts(contexts(logs, size), ranges) /\ Goto("source") /\ UNCHANGED <<class, candidates>>
  BY <1>1
<1>3. CASE Fail("limit")
  BY <1>3, FailKeeps
<1>4. CASE ShowContexts(contexts(logs, size), ranges) /\ Goto("source") /\ UNCHANGED <<class, candidates>>
  BY <1>2, <1>4, ShowContextsKeeps
<1>5. QED
  BY <1>2, <1>3, <1>4

LEMMA ProjectLogsKeeps == ASSUME IInv, ProjectLogs PROVE IInv'
<1>1. CASE Goto("source") /\ UNCHANGED <<class, projection, manifest, candidates>>
  BY <1>1, MoveKeeps DEF ProjectLogs, Goto, inputs, IInv, TypeOK
<1>2. CASE Fail("no_redaction")
  BY <1>2, FailKeeps DEF ProjectLogs
<1>3. CASE "log_content" \in approved /\ ShowLogs(Limits("log_content"))
  BY <1>3, ShowLogsKeeps DEF ProjectLogs
<1>4. QED
  BY <1>1, <1>2, <1>3 DEF ProjectLogs

(* Showing the snapshots that the logs do not contradict.                  *)
LEMMA ShowSourceKeeps ==
  ASSUME IInv, pc = "source", "source_content" \in approved, UNCHANGED inputs,
         NEW picked, NEW shown,
         shown = {[id |-> s.id, class |-> "source_content", size |-> s.size] : s \in picked},
         Within(shown, profile["source_content"]),
         projection' = [projection EXCEPT !.artifacts = @ \cup shown],
         manifest' = [manifest EXCEPT
                   !.artifacts = @ \cup Ids(shown), !.bytes = @ + Bytes(shown),
                   !.classes = @ \cup (IF shown = {} THEN {} ELSE {"source_content"})],
         Goto("notices"), UNCHANGED <<class, candidates>>
  PROVE  IInv'
<1>1. /\ projection' = [items |-> projection.items, artifacts |-> projection.artifacts \cup shown,
                        enrichment |-> projection.enrichment, notices |-> {}]
      /\ candidates' = {} /\ pc' = "notices" /\ class' = class /\ outcome' = outcome
  BY DEF IInv, ShapeInv, OrderInv, AtSource, AtNotices, AtFindings, Goto
<1>2. manifest' = [classes |-> manifest.classes \cup (IF shown = {} THEN {} ELSE {"source_content"}), items |-> manifest.items,
                   artifacts |-> manifest.artifacts \cup Ids(shown), enrichment |-> manifest.enrichment,
                   bytes |-> manifest.bytes + Bytes(shown)]
  BY DEF IInv, ShapeInv
<1>3. \A a \in shown : a.class = "source_content"
  OBVIOUS
<1>4. \A a \in projection.artifacts : a.class = "log_content"
  BY DEF IInv, OrderInv
<1>5. TypeOK'
  <2>1. manifest'.classes \subseteq Classes
    <3>1. manifest'.classes \subseteq manifest.classes \cup {"source_content"}
      BY <1>2
    <3>2. manifest.classes \subseteq Classes /\ "source_content" \in Classes
      BY DEF IInv, TypeOK, Classes
    <3>3. QED
      BY <3>1, <3>2
  <2>2. QED
    BY <1>1, <2>1 DEF IInv, TypeOK, inputs
<1>6. ShapeInv'
  BY <1>1, <1>2 DEF ShapeInv
<1>7. OrderInv'
  BY <1>1 DEF IInv, OrderInv, AtItems, AtLogs, AtSource, AtNotices, AtFindings
<1>8. SpentInv'
  <2>1. "source_content" \notin ToSet(ItemClasses)
    BY ClassFacts
  <2>2. \A i \in projection.items : i.class \in ToSet(ItemClasses)
    BY ClassFacts DEF IInv, SpentInv
  <2>3. OfClass("source_content")' = shown
    BY <1>1, <1>3, <1>4, <2>1, <2>2 DEF OfClass
  <2>4. ASSUME NEW x \in projection.items \cup projection.artifacts PROVE OfClass(x.class)' = OfClass(x.class)
    <3>1. x.class # "source_content"
      BY <1>4, <2>1, <2>2
    <3>2. QED
      BY <1>1, <1>3, <3>1 DEF OfClass
  <2>5. approved' = approved /\ profile' = profile /\ approved \subseteq DOMAIN profile
    BY DEF inputs, IInv, TypeOK
  <2>6. ASSUME NEW x \in projection.items \cup projection.artifacts
        PROVE (Allowed(x.class) /\ Within(OfClass(x.class), profile[x.class]))'
    BY <2>4, <2>5 DEF IInv, SpentInv, Allowed, Within
  <2>7. ASSUME NEW x \in shown PROVE (Allowed(x.class) /\ Within(OfClass(x.class), profile[x.class]))'
    BY <1>3, <2>3, <2>5 DEF Allowed, Within
  <2>8. \A i \in projection.items : \E k \in 1 .. class - 1 : k <= 4 /\ i.class = ItemClasses[k]
    BY DEF IInv, SpentInv
  <2>9. QED
    BY <1>1, <1>3, <1>4, <2>6, <2>7, <2>8 DEF SpentInv
<1>9. ListInv'
  <2>1. /\ manifest.items = Ids(projection.items) /\ manifest.artifacts = Ids(projection.artifacts)
        /\ manifest.enrichment = Ids(projection.enrichment)
        /\ \A r \in projection.enrichment : \E a \in projection.artifacts : a.id = r.log /\ a.class = "log_content"
    BY DEF IInv, ListInv
  <2>2. Ids(projection.artifacts \cup shown) = Ids(projection.artifacts) \cup Ids(shown)
    BY DEF Ids
  <2>3. \A r \in projection.enrichment : \E a \in projection.artifacts \cup shown : a.id = r.log /\ a.class = "log_content"
    BY <2>1
  <2>4. /\ manifest'.items = Ids(projection'.items) /\ manifest'.artifacts = Ids(projection'.artifacts)
        /\ manifest'.enrichment = Ids(projection'.enrichment)
    BY <1>1, <1>2, <2>1, <2>2
  <2>5. projection'.enrichment = projection.enrichment /\ projection'.notices = {} /\ candidates' = {}
        /\ projection'.artifacts = projection.artifacts \cup shown
    BY <1>1
  <2>6. QED
    BY <2>3, <2>4, <2>5 DEF ListInv, Ids
<1>10. QED
  BY <1>5, <1>6, <1>7, <1>8, <1>9 DEF IInv

LEMMA ProjectSourceKeeps == ASSUME IInv, ProjectSource PROVE IInv'
<1> DEFINE picked == {s \in evidence.sources : ~ s.mismatch}
           shown  == {[id |-> s.id, class |-> "source_content", size |-> s.size] : s \in picked}
<1>1. CASE "source_content" \notin approved \/ evidence.sources = {}
  BY <1>1, MoveKeeps DEF ProjectSource, Goto, inputs, IInv, TypeOK
<1>2. CASE Fail("approval") \/ Fail("limit")
  BY <1>2, FailKeeps DEF ProjectSource
<1>3. CASE ~ ("source_content" \notin approved \/ evidence.sources = {}) /\ "source_content" \in DOMAIN profile
           /\ Within(shown, profile["source_content"])
  BY <1>3, ShowSourceKeeps DEF ProjectSource
<1>4. QED
  BY <1>1, <1>2, <1>3 DEF ProjectSource

(* Notices and findings are cut down to what is listed.                    *)
LEMMA ProjectNoticesKeeps == ASSUME IInv, ProjectNotices PROVE IInv'
<1>1. /\ projection' = [items |-> projection.items, artifacts |-> projection.artifacts,
                        enrichment |-> projection.enrichment, notices |-> Notices]
      /\ UNCHANGED <<evidence, profile, approved, class, manifest, candidates, outcome>>
      /\ pc = "notices" /\ pc' = "findings"
  BY DEF ProjectNotices, IInv, ShapeInv, Goto, inputs
<1>2. TypeOK'
  BY <1>1 DEF IInv, TypeOK
<1>3. ShapeInv'
  BY <1>1 DEF IInv, ShapeInv
<1>4. OrderInv'
  BY <1>1 DEF IInv, OrderInv, AtItems, AtLogs, AtSource, AtNotices, AtFindings
<1>5. SpentInv'
  BY <1>1 DEF IInv, SpentInv, Allowed, OfClass
<1>6. Listed' = Listed /\ \A n \in Notices : n.affects \subseteq Listed
  BY <1>1 DEF Listed, Notices
<1>7. ListInv'
  BY <1>1, <1>6 DEF IInv, ListInv, Ids
<1>8. QED
  BY <1>2, <1>3, <1>4, <1>5, <1>7 DEF IInv

LEMMA ProjectDeterministicKeeps == ASSUME IInv, ProjectDeterministic PROVE IInv'
<1>1. CASE Fail("no_candidate")
  BY <1>1, FailKeeps DEF ProjectDeterministic
<1>2. CASE candidates' = Candidates /\ Goto("seal") /\ UNCHANGED <<class, projection, manifest>>
  <2>1. UNCHANGED <<evidence, profile, approved, class, projection, manifest, outcome>> /\ pc = "findings" /\ pc' = "seal"
    BY <1>2 DEF ProjectDeterministic, Goto, inputs
  <2>2. TypeOK'
    BY <2>1 DEF IInv, TypeOK
  <2>3. ShapeInv' /\ OrderInv'
    BY <2>1 DEF IInv, ShapeInv, OrderInv, AtItems, AtLogs, AtSource, AtNotices, AtFindings
  <2>4. SpentInv'
    BY <2>1 DEF IInv, SpentInv, Allowed, OfClass
  <2>5. \A f \in Candidates : f.support \cup f.against \subseteq Listed
    BY DEF Candidates
  <2>6. ListInv'
    BY <1>2, <2>1, <2>5 DEF IInv, ListInv, Ids, Listed
  <2>7. QED
    BY <2>2, <2>3, <2>4, <2>6 DEF IInv
<1>3. QED
  BY <1>1, <1>2 DEF ProjectDeterministic

LEMMA SealRequestKeeps == ASSUME IInv, SealRequest PROVE IInv'
<1>1. CASE Goto("encode") /\ UNCHANGED <<class, projection, manifest, candidates>>
  BY <1>1, MoveKeeps DEF SealRequest, Goto, inputs, IInv, TypeOK
<1>2. CASE Fail("seal")
  BY <1>2, FailKeeps DEF SealRequest
<1>3. QED
  BY <1>1, <1>2 DEF SealRequest

LEMMA EncodeKeeps == ASSUME IInv, Encode PROVE IInv'
BY FailKeeps DEF Encode

LEMMA NextKeeps == IInv /\ [Next]_vars => IInv'
<1> SUFFICES ASSUME IInv, [Next]_vars PROVE IInv'
  OBVIOUS
<1>1. CASE Begin \/ ProjectItems \/ ItemsEnd
  BY <1>1, BeginKeeps, ProjectItemsKeeps, ItemsEndKeeps
<1>2. CASE ProjectLogs \/ ProjectSource \/ ProjectNotices
  BY <1>2, ProjectLogsKeeps, ProjectSourceKeeps, ProjectNoticesKeeps
<1>3. CASE ProjectDeterministic \/ SealRequest \/ Encode
  BY <1>3, ProjectDeterministicKeeps, SealRequestKeeps, EncodeKeeps
<1>4. CASE UNCHANGED vars
  <2>1. UNCHANGED <<evidence, profile, approved, pc, class, projection, manifest, candidates, outcome>>
    BY <1>4 DEF vars
  <2>2. TypeOK' /\ ShapeInv'
    BY <2>1 DEF IInv, TypeOK, ShapeInv
  <2>3. OrderInv'
    BY <2>1 DEF IInv, OrderInv
  <2>4. SpentInv'
    BY <2>1 DEF IInv, SpentInv, Allowed, OfClass
  <2>5. ListInv'
    BY <2>1 DEF IInv, ListInv, Listed
  <2>6. QED
    BY <2>2, <2>3, <2>4, <2>5 DEF IInv
<1>5. QED
  BY <1>1, <1>2, <1>3, <1>4 DEF Next, Prepare, Done

LEMMA InvHolds == Spec => []IInv
BY InitHolds, NextKeeps, PTL DEF Spec

-----------------------------------------------------------------------------
(* Every variable of a preparation keeps its type.                         *)
THEOREM TypeCorrect == Spec => []TypeOK
<1>1. IInv => TypeOK
  BY DEF IInv
<1>2. QED
  BY <1>1, InvHolds, PTL

(* Whatever the evidence, the profile and the approval, a provider is      *)
(* shown only items, contexts and snapshots of approved classes, within    *)
(* the limits of each class, and nothing shown names anything else         *)
(* (projection.go:152-315, 495-529).                                       *)
THEOREM ApprovedOnly == Spec => []DisclosesOnlyApproved
<1>1. IInv => DisclosesOnlyApproved
  <2> SUFFICES ASSUME IInv PROVE DisclosesOnlyApproved
    OBVIOUS
  <2>1. Listed = Shown
    BY ListedIsShown DEF IInv
  <2>2. \A x \in projection.items \cup projection.artifacts : x.class # "local_only"
    <3>1. profile \in Profiles /\ DOMAIN profile \subseteq Classes
      BY ProjectionAssumption DEF IInv, TypeOK
    <3>2. "local_only" \notin Classes
      BY ClassFacts DEF Classes
    <3>3. QED
      BY <3>1, <3>2 DEF IInv, SpentInv, Allowed
  <2>3. \A x \in projection.items \cup projection.artifacts : Allowed(x.class) /\ Within(OfClass(x.class), profile[x.class])
    BY DEF IInv, SpentInv
  <2>4. \A r \in projection.enrichment : \E a \in projection.artifacts : a.id = r.log /\ a.class = "log_content"
    BY DEF IInv, ListInv
  <2>5. /\ \A n \in projection.notices : n.affects \subseteq Shown
        /\ \A f \in candidates : f.support \cup f.against \subseteq Shown
    BY <2>1 DEF IInv, ListInv
  <2>6. QED
    BY <2>2, <2>3, <2>4, <2>5 DEF DisclosesOnlyApproved
<1>2. QED
  BY <1>1, InvHolds, PTL

-----------------------------------------------------------------------------
(* What has been taken is complete, as long as the preparation goes on.    *)
ItemsTaken ==
  \A i \in evidence.items :
    i.useful /\ Allowed(i.class) /\ (\E k \in 1 .. class - 1 : k <= 4 /\ i.class = ItemClasses[k])
      => i.id \in Ids(projection.items)

LogTaken == Allowed("log_content") /\ Eligible # {} => \E a \in projection.artifacts : a.class = "log_content"

SourceTaken ==
  Allowed("source_content") => \A s \in evidence.sources : s.mismatch \/ s.id \in Ids(projection.artifacts)

CompleteInv ==
  pc # "done" \/ outcome = "prepared" =>
    /\ ItemsTaken
    /\ pc \notin AtItems => class > 4
    /\ pc \notin AtLogs => LogTaken
    /\ pc \notin AtSource => SourceTaken
    /\ pc \notin AtNotices => projection.notices = Notices

(* An error leaves nothing to be complete.                                 *)
LEMMA FailCompletes == ASSUME NEW why, why # "prepared", Fail(why) PROVE CompleteInv'
BY DEF Fail, CompleteInv

LEMMA BeginCompletes == ASSUME IInv, CompleteInv, Begin PROVE CompleteInv'
<1>1. CASE Fail("evidence") \/ Fail("approval")
  BY <1>1, FailCompletes
<1>2. CASE Goto("items") /\ UNCHANGED <<class, projection, manifest, candidates>>
  <2>1. pc' = "items" /\ pc = "begin" /\ UNCHANGED <<evidence, profile, approved, class, projection>>
    BY <1>2 DEF Begin, Goto, inputs
  <2>2. ItemsTaken'
    BY <2>1 DEF CompleteInv, ItemsTaken, Allowed
  <2>3. QED
    BY <2>1, <2>2 DEF CompleteInv, AtItems, AtLogs, AtSource, AtNotices
<1>3. QED
  BY <1>1, <1>2 DEF Begin

LEMMA ProjectItemsCompletes == ASSUME IInv, CompleteInv, ProjectItems PROVE CompleteInv'
<1>0. PICK c : c = ItemClasses[class]
  OBVIOUS
<1>1. PICK picked : picked = {i \in evidence.items : i.class = c /\ i.useful}
  OBVIOUS
<1>2. CASE Fail("limit")
  BY <1>2, FailCompletes
<1>3. CASE class' = class + 1 /\ pc' = pc /\ (Allowed(c) => projection'.items = projection.items \cup picked)
           /\ (~ Allowed(c) => projection'.items = projection.items)
  <2>1. pc' = "items" /\ evidence' = evidence /\ profile' = profile /\ approved' = approved
    BY <1>3 DEF ProjectItems, inputs
  <2>2. class \in 1 .. 4
    BY ClassFacts DEF ProjectItems, IInv, TypeOK
  <2>3. ASSUME NEW i \in evidence.items, i.useful, Allowed(i.class),
               NEW k \in 1 .. class' - 1, k <= 4, i.class = ItemClasses[k]
        PROVE  i.id \in Ids(projection.items)'
    <3>1. k \in 1 .. class - 1 \/ k = class
      BY <1>3, <2>2
    <3>2. CASE k = class
      <4>1. i \in projection'.items
        BY <1>0, <1>1, <1>3, <2>3, <3>2
      <4>2. QED
        BY <4>1 DEF Ids
    <3>3. CASE k \in 1 .. class - 1
      <4>1. i.id \in Ids(projection.items)
        BY <2>3, <3>3 DEF CompleteInv, ItemsTaken, ProjectItems
      <4>2. projection.items \subseteq projection'.items
        BY <1>3
      <4>3. QED
        BY <4>1, <4>2 DEF Ids
    <3>4. QED
      BY <3>1, <3>2, <3>3
  <2>4. ItemsTaken'
    BY <2>1, <2>3 DEF ItemsTaken, Allowed
  <2>5. QED
    BY <2>1, <2>4 DEF CompleteInv, AtItems, AtLogs, AtSource, AtNotices
<1>4. Fail("limit") \/ (class' = class + 1 /\ pc' = pc /\ (Allowed(c) => ShowItems(c, picked)) /\ (~ Allowed(c) => projection' = projection))
  BY <1>0, <1>1 DEF ProjectItems
<1>5. ShowItems(c, picked) => projection'.items = projection.items \cup picked
  BY DEF ShowItems, IInv, ShapeInv
<1>6. QED
  BY <1>2, <1>3, <1>4, <1>5

LEMMA ItemsEndCompletes == ASSUME IInv, CompleteInv, ItemsEnd PROVE CompleteInv'
<1>1. CASE Fail("no_metadata")
  BY <1>1, FailCompletes
<1>2. CASE Goto("logs") /\ UNCHANGED <<class, projection, manifest, candidates>>
  <2>1. pc' = "logs" /\ pc = "items" /\ UNCHANGED <<evidence, profile, approved, class, projection>>
    BY <1>2 DEF ItemsEnd, Goto, inputs
  <2>2. class > 4
    BY ClassFacts DEF ItemsEnd
  <2>3. ItemsTaken'
    BY <2>1 DEF CompleteInv, ItemsTaken, Allowed
  <2>4. QED
    BY <2>1, <2>2, <2>3 DEF CompleteInv, AtItems, AtLogs, AtSource, AtNotices
<1>3. QED
  BY <1>1, <1>2 DEF ItemsEnd

LEMMA ProjectLogsCompletes == ASSUME IInv, CompleteInv, ProjectLogs PROVE CompleteInv'
<1>1. CASE Fail("no_redaction") \/ Fail("limit")
  BY <1>1, FailCompletes
<1>2. CASE Goto("source") /\ LogTaken' /\ class' = class /\ projection'.items = projection.items
  <2>1. pc' = "source" /\ pc = "logs" /\ UNCHANGED <<evidence, profile, approved, class>>
    BY <1>2 DEF ProjectLogs, Goto, inputs
  <2>2. class > 4 /\ ItemsTaken
    BY <2>1 DEF CompleteInv, AtItems
  <2>3. ItemsTaken'
    BY <1>2, <2>1, <2>2 DEF ItemsTaken, Allowed
  <2>4. QED
    BY <1>2, <2>1, <2>2, <2>3 DEF CompleteInv, AtItems, AtLogs, AtSource, AtNotices
<1>3. CASE "log_content" \notin approved \/ evidence.logs = {}
  <2>1. projection' = projection /\ class' = class /\ Goto("source") /\ UNCHANGED inputs
    BY <1>3 DEF ProjectLogs
  <2>2. LogTaken'
    BY <1>3, <2>1 DEF LogTaken, Allowed, Eligible, inputs
  <2>3. QED
    BY <1>2, <2>1, <2>2
<1>4. CASE ShowLogs(Limits("log_content")) /\ UNCHANGED inputs
  <2> DEFINE contexts(logs, size) == {[id |-> l.id, class |-> "log_content", size |-> size[l]] : l \in logs}
  <2>1. PICK logs \in SUBSET Eligible :
          \E size \in [logs -> 1 .. Limits("log_content").bytes], ranges \in SUBSET {r \in evidence.ranges : r.log \in Ids(logs)} :
            IF logs = {} /\ Eligible # {} THEN Fail("limit")
            ELSE ShowContexts(contexts(logs, size), ranges) /\ Goto("source") /\ UNCHANGED <<class, candidates>>
    BY <1>4 DEF ShowLogs
  <2>2. PICK size, ranges :
          IF logs = {} /\ Eligible # {} THEN Fail("limit")
          ELSE ShowContexts(contexts(logs, size), ranges) /\ Goto("source") /\ UNCHANGED <<class, candidates>>
    BY <2>1
  <2>3. CASE ~ (logs = {} /\ Eligible # {})
    <3>1. ShowContexts(contexts(logs, size), ranges) /\ Goto("source") /\ class' = class
      BY <2>2, <2>3
    <3>2. projection'.items = projection.items /\ projection'.artifacts = contexts(logs, size)
      BY <3>1 DEF ShowContexts, IInv, ShapeInv
    <3>3. \A l \in logs : \E a \in projection'.artifacts : a.class = "log_content"
      <4>1. ASSUME NEW l \in logs PROVE \E a \in projection'.artifacts : a.class = "log_content"
        <5>1. [id |-> l.id, class |-> "log_content", size |-> size[l]] \in projection'.artifacts
          BY <3>2
        <5>2. QED
          BY <5>1
      <4>2. QED
        BY <4>1
    <3>4. Eligible' = Eligible
      BY <1>4 DEF Eligible, inputs
    <3>5. LogTaken'
      BY <2>3, <3>3, <3>4 DEF LogTaken
    <3>6. QED
      BY <1>2, <3>1, <3>2, <3>5
  <2>4. QED
    BY <1>1, <2>2, <2>3
<1>5. QED
  BY <1>1, <1>3, <1>4 DEF ProjectLogs

LEMMA ProjectSourceCompletes == ASSUME IInv, CompleteInv, ProjectSource PROVE CompleteInv'
<1>1. CASE Fail("approval") \/ Fail("limit")
  BY <1>1, FailCompletes
<1>2. CASE /\ Goto("notices") /\ SourceTaken' /\ class' = class /\ projection'.items = projection.items
           /\ projection.artifacts \subseteq projection'.artifacts
  <2>1. pc' = "notices" /\ pc = "source" /\ UNCHANGED <<evidence, profile, approved, class>>
    BY <1>2 DEF ProjectSource, Goto, inputs
  <2>2. class > 4 /\ ItemsTaken /\ LogTaken
    BY <2>1 DEF CompleteInv, AtItems, AtLogs
  <2>3. ItemsTaken'
    BY <1>2, <2>1, <2>2 DEF ItemsTaken, Allowed
  <2>4. LogTaken'
    BY <1>2, <2>1, <2>2 DEF LogTaken, Allowed, Eligible
  <2>5. QED
    BY <1>2, <2>1, <2>2, <2>3, <2>4 DEF CompleteInv, AtItems, AtLogs, AtSource, AtNotices
<1>3. CASE "source_content" \notin approved \/ evidence.sources = {}
  <2>1. projection' = projection /\ class' = class /\ Goto("notices") /\ UNCHANGED inputs
    BY <1>3 DEF ProjectSource
  <2>2. SourceTaken'
    BY <1>3, <2>1 DEF SourceTaken, Allowed, inputs
  <2>3. QED
    BY <1>2, <2>1, <2>2
<1>4. CASE ~ ("source_content" \notin approved \/ evidence.sources = {}) /\ pc' # "done"
  <2>1. PICK picked : picked = {s \in evidence.sources : ~ s.mismatch}
    OBVIOUS
  <2>2. PICK shown : shown = {[id |-> s.id, class |-> "source_content", size |-> s.size] : s \in picked}
    OBVIOUS
  <2>3. projection' = [projection EXCEPT !.artifacts = @ \cup shown] /\ Goto("notices") /\ class' = class /\ evidence' = evidence
    BY <1>4, <2>1, <2>2 DEF ProjectSource, Fail, inputs
  <2>4. projection'.items = projection.items /\ projection'.artifacts = projection.artifacts \cup shown
    BY <2>3 DEF IInv, ShapeInv
  <2>5. ASSUME NEW s \in evidence.sources, ~ s.mismatch PROVE s.id \in Ids(projection'.artifacts)
    <3>1. [id |-> s.id, class |-> "source_content", size |-> s.size] \in projection'.artifacts
      BY <2>1, <2>2, <2>4, <2>5
    <3>2. QED
      BY <3>1 DEF Ids
  <2>6. SourceTaken'
    BY <2>3, <2>5 DEF SourceTaken
  <2>7. QED
    BY <1>2, <2>3, <2>4, <2>6
<1>5. QED
  BY <1>1, <1>3, <1>4 DEF ProjectSource, Fail, Goto

(* The steps after the notices change nothing of what is shown.            *)
LEMMA LateCompletes ==
  ASSUME IInv, CompleteInv, pc \in {"findings", "seal", "encode"}, UNCHANGED inputs,
         UNCHANGED <<class, projection, manifest>>
  PROVE  CompleteInv'
<1>1. /\ ItemsTaken /\ class > 4 /\ LogTaken /\ SourceTaken /\ projection.notices = Notices
  BY DEF CompleteInv, AtItems, AtLogs, AtSource, AtNotices
<1>2. UNCHANGED <<evidence, profile, approved, class, projection, manifest>>
  BY DEF inputs
<1>3. ItemsTaken' /\ LogTaken' /\ SourceTaken'
  BY <1>1, <1>2 DEF ItemsTaken, LogTaken, SourceTaken, Allowed, Eligible
<1>4. projection'.notices = Notices'
  BY <1>1, <1>2 DEF Notices, Listed
<1>5. QED
  BY <1>1, <1>2, <1>3, <1>4 DEF CompleteInv

LEMMA ProjectNoticesCompletes == ASSUME IInv, CompleteInv, ProjectNotices PROVE CompleteInv'
<1>1. /\ projection'.items = projection.items /\ projection'.artifacts = projection.artifacts
      /\ projection'.notices = Notices
      /\ UNCHANGED <<evidence, profile, approved, class, manifest, outcome>> /\ pc = "notices" /\ pc' = "findings"
  BY DEF ProjectNotices, IInv, ShapeInv, Goto, inputs
<1>2. ItemsTaken /\ class > 4 /\ LogTaken /\ SourceTaken
  BY <1>1 DEF CompleteInv, AtItems, AtLogs, AtSource
<1>3. ItemsTaken' /\ LogTaken' /\ SourceTaken'
  BY <1>1, <1>2 DEF ItemsTaken, LogTaken, SourceTaken, Allowed, Eligible
<1>4. Notices' = Notices
  BY <1>1 DEF Notices, Listed
<1>5. QED
  BY <1>1, <1>2, <1>3, <1>4 DEF CompleteInv

LEMMA NextCompletes == IInv /\ CompleteInv /\ [Next]_vars => CompleteInv'
<1> SUFFICES ASSUME IInv, CompleteInv, [Next]_vars PROVE CompleteInv'
  OBVIOUS
<1>1. CASE Begin \/ ProjectItems \/ ItemsEnd
  BY <1>1, BeginCompletes, ProjectItemsCompletes, ItemsEndCompletes
<1>2. CASE ProjectLogs \/ ProjectSource \/ ProjectNotices
  BY <1>2, ProjectLogsCompletes, ProjectSourceCompletes, ProjectNoticesCompletes
<1>3. CASE ProjectDeterministic \/ SealRequest \/ Encode
  BY <1>3, LateCompletes DEF ProjectDeterministic, SealRequest, Encode, Fail
<1>4. CASE UNCHANGED vars
  <2>1. UNCHANGED <<evidence, profile, approved, pc, class, projection, manifest, candidates, outcome>>
    BY <1>4 DEF vars
  <2>2. /\ ItemsTaken' = ItemsTaken /\ LogTaken' = LogTaken /\ SourceTaken' = SourceTaken
        /\ Notices' = Notices
    BY <2>1 DEF ItemsTaken, LogTaken, SourceTaken, Allowed, Eligible, Notices, Listed
  <2>3. QED
    BY <2>1, <2>2 DEF CompleteInv
<1>5. QED
  BY <1>1, <1>2, <1>3, <1>4 DEF Next, Prepare, Done

LEMMA CompleteHolds == Spec => []CompleteInv
<1>1. Init => CompleteInv
  <2> SUFFICES ASSUME Init PROVE CompleteInv
    OBVIOUS
  <2>1. ItemsTaken
    BY DEF Init, ItemsTaken
  <2>2. QED
    BY <2>1 DEF Init, CompleteInv, AtItems, AtLogs, AtSource, AtNotices
<1>2. QED
  BY <1>1, NextCompletes, InvHolds, PTL DEF Spec

(* A prepared request holds everything its approvals stand for and every   *)
(* notice about what it holds: it is complete, or Prepare failed           *)
(* (projection.go:166-315).                                                *)
THEOREM CompleteOrRefused == Spec => []NothingIsWithheld
<1>1. IInv /\ CompleteInv => NothingIsWithheld
  <2> SUFFICES ASSUME IInv, CompleteInv, outcome = "prepared" PROVE NothingIsWithheld
    BY DEF NothingIsWithheld
  <2>1. pc = "done" /\ pc \notin AtNotices /\ pc \notin AtSource /\ pc \notin AtLogs /\ pc \notin AtItems
    BY DEF IInv, OrderInv, AtNotices, AtSource, AtLogs, AtItems
  <2>2. ItemsTaken /\ class > 4 /\ LogTaken /\ SourceTaken /\ projection.notices = Notices
    BY <2>1 DEF CompleteInv
  <2>3. Listed = Shown
    BY ListedIsShown DEF IInv
  <2>4. ASSUME NEW i \in evidence.items, i.useful, Allowed(i.class), i.class # "log_content" PROVE i.id \in Shown
    <3>1. evidence \in Evidence /\ profile \in Profiles
      BY DEF IInv, TypeOK
    <3>2. i.class \in ToSet(ItemClasses) \cup {"log_content", "local_only"} /\ DOMAIN profile \subseteq Classes
      BY <3>1, ProjectionAssumption
    <3>3. i.class # "local_only"
      BY <2>4, <3>2, ClassFacts DEF Allowed, Classes
    <3>4. PICK k \in 1 .. 4 : i.class = ItemClasses[k]
      BY <2>4, <3>2, <3>3, ClassFacts
    <3>5. k \in 1 .. class - 1 /\ k <= 4
      BY <2>2, ClassFacts DEF IInv, TypeOK
    <3>6. QED
      BY <2>2, <2>4, <3>4, <3>5 DEF ItemsTaken, Shown
  <2>5. Allowed("source_content") => \A s \in evidence.sources : s.mismatch \/ s.id \in Shown
    BY <2>2 DEF SourceTaken, Shown
  <2>6. Allowed("log_content") => \A l \in evidence.logs : l.eligible => OfClass("log_content") # {}
    BY <2>2 DEF LogTaken, OfClass, Eligible
  <2>7. ASSUME NEW n \in evidence.notices, NEW id \in n.affects \cap Shown
        PROVE  \E m \in projection.notices : m.code = n.code /\ id \in m.affects
    <3>1. [code |-> n.code, affects |-> n.affects \cap Listed] \in Notices
      BY <2>3 DEF Notices
    <3>2. QED
      BY <2>2, <2>3, <3>1
  <2>8. QED
    BY <2>4, <2>5, <2>6, <2>7 DEF NothingIsWithheld
<1>2. QED
  BY <1>1, InvHolds, CompleteHolds, PTL

(* The lines that have text.                                               *)
Written(lines) == {i \in DOMAIN lines : lines[i].part # "blank"}

LEMMA FirstIsWritten ==
  ASSUME NEW T \in SUBSET Nat, NEW S \in SUBSET T
  PROVE  First(S) \in Seq(T) /\ (S # {} => Min(S) \in S)
<1>1. S # {} => Min(S) \in S
  BY LeastElement DEF Min
<1>2. CASE S = {}
  BY <1>2 DEF First
<1>3. CASE S # {}
  <2>1. Min(S) \in T /\ First(S) = <<Min(S)>>
    BY <1>1, <1>3 DEF First
  <2>2. QED
    BY <1>1, <2>1
<1>4. QED
  BY <1>2, <1>3

LEMMA FrameIsWritten ==
  ASSUME NEW lines \in Seq(Line), NEW i \in Written(lines)
  PROVE  WithFrame(lines, i) \in Seq(Written(lines))
<1> DEFINE T == Written(lines)
           after == {j \in Where(lines, "frame") : j > i}
<1>1. after \subseteq T /\ T \subseteq Nat
  BY DEF Where, Written
<1> HIDE DEF T, after
<1>2. First(after) \in Seq(T)
  BY <1>1, FirstIsWritten
<1>3. <<i>> \in Seq(T)
  BY DEF T
<1>4. QED
  BY <1>2, <1>3, ConcatProperties DEF WithFrame, T, after

(* A loop that appends to a list keeps it one of what it appends.          *)
LEMMA JvmIsWritten ==
  ASSUME NEW lines \in Seq(Line)
  PROVE  JvmLines(lines) \in Seq(Written(lines))
<1> DEFINE T == Written(lines)
           heads == Where(lines, "head")
           causes == Ascending(Where(lines, "cause"))
           N == Len(causes)
           base == IF heads = {} THEN <<>> ELSE WithFrame(lines, Min(heads))
           extend == [u \in Seq(T) \X (1 .. N) |-> u[1] \o WithFrame(lines, causes[u[2]])]
           body(g) == [n \in 0 .. N |->
                         IF n # 0 THEN g[n - 1] \o WithFrame(lines, causes[n])
                         ELSE IF heads = {} THEN <<>> ELSE WithFrame(lines, Min(heads))]
           upto == CHOOSE g : g = body(g)
<1>0. JvmLines(lines) = upto[N]
  BY DEF JvmLines
<1>1. /\ Where(lines, "cause") \subseteq 1 .. Len(lines) /\ Len(lines) \in Nat
      /\ Where(lines, "cause") \subseteq T /\ heads \subseteq T /\ T \subseteq Nat
  BY DEF Where, Written
<1>2. causes \in Seq(T)
  <2>1. causes \in Seq(Where(lines, "cause"))
    BY <1>1, AscendingOrder
  <2>2. QED
    BY <1>1, <2>1
<1>3. N \in Nat /\ \A n \in 1 .. N : causes[n] \in T
  BY <1>2
<1>4. base \in Seq(T)
  <2>1. CASE heads = {}
    BY <2>1
  <2>2. CASE heads # {}
    <3>1. Min(heads) \in T
      BY <1>1, <2>2, FirstIsWritten
    <3>2. WithFrame(lines, Min(heads)) \in Seq(T)
      BY <3>1, FrameIsWritten
    <3>3. QED
      BY <2>2, <3>2
  <2>3. QED
    BY <2>1, <2>2
<1>5. \A n \in 1 .. N : WithFrame(lines, causes[n]) \in Seq(T)
  BY <1>3, FrameIsWritten
<1>6. \A s \in Seq(T), n \in 1 .. N : s \o WithFrame(lines, causes[n]) \in Seq(T)
  BY <1>5, ConcatProperties
<1>7. extend \in [Seq(T) \X (1 .. N) -> Seq(T)]
  BY <1>6
<1>8. PICK f \in [0 .. N -> Seq(T)] : Iterates(f, N, base, extend)
  <2> DEFINE D == Seq(T)
  <2>1. N \in Nat /\ base \in D /\ extend \in [D \X (1 .. N) -> D]
    BY <1>3, <1>4, <1>7
  <2> HIDE DEF T, N, base, extend, D
  <2>2. \E f \in [0 .. N -> D] : Iterates(f, N, base, extend)
    BY <2>1, Recursion
  <2>3. QED
    BY <2>2 DEF D
<1>9. f = body(f)
  <2>1. \A n \in 1 .. N : f[n - 1] \in Seq(T)
    BY <1>3
  <2>2. \A n \in 1 .. N : extend[<<f[n - 1], n>>] = f[n - 1] \o WithFrame(lines, causes[n])
    BY <2>1
  <2> HIDE DEF T, N, extend, causes, heads
  <2>3. \A n \in 0 .. N : n # 0 => n \in 1 .. N
    BY <1>3
  <2>4. \A n \in 0 .. N : f[n] = IF n # 0 THEN f[n - 1] \o WithFrame(lines, causes[n]) ELSE base
    BY <1>8, <2>2, <2>3 DEF Iterates
  <2>5. QED
    BY <2>4
<1>10. upto = body(upto)
  <2> HIDE DEF body
  <2>1. QED
    BY <1>9
<1>11. \A n \in 0 .. N : n \in {k \in 0 .. N : upto[k] \in Seq(T)}
  <2> DEFINE P == {k \in 0 .. N : upto[k] \in Seq(T)}
  <2> HIDE DEF upto
  <2>1. 0 \in P
    BY <1>3, <1>4, <1>10
  <2>2. ASSUME NEW n \in 1 .. N, n - 1 \in P
        PROVE  n \in P
    <3>1. upto[n] = upto[n - 1] \o WithFrame(lines, causes[n])
      <4>1. n \in 0 .. N /\ n # 0
        BY <1>3
      <4> HIDE DEF N, causes, heads
      <4>2. QED
        BY <1>10, <4>1
    <3>2. upto[n - 1] \in Seq(T) /\ n \in 0 .. N
      BY <1>3, <2>2
    <3> HIDE DEF T, N, causes, heads
    <3>3. QED
      BY <1>6, <3>1, <3>2
  <2> HIDE DEF P
  <2>3. QED
    BY <1>3, <2>1, <2>2, Induction DEF P
<1>12. upto[N] \in Seq(T)
  <2>1. N \in 0 .. N
    BY <1>3
  <2> HIDE DEF upto, N, T
  <2>2. QED
    BY <1>11, <2>1
<1>13. QED
  BY <1>0, <1>12

LEMMA SelectedIsWritten ==
  ASSUME NEW lines \in Seq(Line), NEW format
  PROVE  Selected(format, lines) \in Seq(Written(lines))
<1> DEFINE T == Written(lines)
           heads == Where(lines, "head")
           text == DOMAIN lines \ Where(lines, "blank")
<1>1. Len(lines) \in Nat /\ DOMAIN lines = 1 .. Len(lines)
  OBVIOUS
<1>2. heads \subseteq T /\ text \subseteq T /\ T \subseteq 1 .. Len(lines) /\ T \subseteq Nat
  BY <1>1 DEF Where, Written
<1>3. \A K \in SUBSET T : Ascending(K) \in Seq(T)
  <2>1. ASSUME NEW K \in SUBSET T
        PROVE  Ascending(K) \in Seq(T)
    <3>1. K \in SUBSET (1 .. Len(lines))
      BY <1>2
    <3>2. Ascending(K) \in Seq(K)
      BY <1>1, <3>1, AscendingOrder
    <3>3. QED
      BY <2>1, <3>2
  <2>2. QED
    BY <2>1
<1>4. \A K \in SUBSET T : First(K) \in Seq(T)
  BY <1>2, FirstIsWritten
<1>5. JvmLines(lines) \in Seq(T)
  BY JvmIsWritten
<1>6. PythonLines(lines) \in Seq(T)
  <2>1. heads \cup {i \in Where(lines, "detail") : \E h \in heads : h < i} \subseteq T
    BY <1>2 DEF Where, Written
  <2>2. QED
    BY <1>3, <2>1 DEF PythonLines
<1>7. Ascending(heads) \in Seq(T) /\ First(heads) \in Seq(T) /\ First(text) \in Seq(T)
  BY <1>2, <1>3, <1>4
<1>8. <<>> \in Seq(T)
  OBVIOUS
<1> HIDE DEF T
<1>9. QED
  BY <1>5, <1>6, <1>7, <1>8 DEF Selected, T

(* Lines within the bounds of a range.                                     *)
Bounded(S) ==
  {s \in Seq(S) : /\ Len(s) <= MaximumLines /\ TotalSize(s) <= MaximumTotal
                  /\ \A k \in DOMAIN s : s[k].size <= MaximumLine}

LEMMA AppendIsBounded ==
  ASSUME NEW S \in SUBSET Line, NEW s \in Bounded(S), NEW l \in S
  PROVE  AppendBounded(s, l) \in Bounded(S)
<1>1. /\ s \in Seq(S) /\ Len(s) <= MaximumLines /\ TotalSize(s) <= MaximumTotal /\ Len(s) \in Nat
      /\ \A k \in DOMAIN s : s[k].size <= MaximumLine
  BY DEF Bounded
<1>2. CASE l.size > MaximumLine \/ Len(s) >= MaximumLines \/ TotalSize(s) + l.size > MaximumTotal
  BY <1>2 DEF AppendBounded
<1>3. CASE ~ (l.size > MaximumLine \/ Len(s) >= MaximumLines \/ TotalSize(s) + l.size > MaximumTotal)
  <2> DEFINE t == Append(s, l)
             sizes == [k \in DOMAIN s |-> s[k].size]
  <2>1. l.size \in Nat /\ \A k \in DOMAIN s : s[k].size \in Nat
    BY <1>1 DEF Line
  <2>2. t \in Seq(S) /\ Len(t) = Len(s) + 1 /\ DOMAIN t = 1 .. Len(s) + 1 /\ t[Len(s) + 1] = l
        /\ \A k \in 1 .. Len(s) : t[k] = s[k]
    BY <1>1
  <2>3. sizes \in Seq(Nat) /\ Len(sizes) = Len(s) /\ \A k \in 1 .. Len(s) : sizes[k] = s[k].size
    BY <1>1, <2>1
  <2>4. [k \in DOMAIN t |-> t[k].size] = Append(sizes, l.size)
    <3> HIDE DEF t, sizes
    <3>1. \A k \in 1 .. Len(s) + 1 : k \in 1 .. Len(s) \/ k = Len(s) + 1
      BY <1>1
    <3>2. /\ Append(sizes, l.size) \in Seq(Nat) /\ Len(Append(sizes, l.size)) = Len(s) + 1
          /\ (\A k \in 1 .. Len(s) : Append(sizes, l.size)[k] = s[k].size)
          /\ Append(sizes, l.size)[Len(s) + 1] = l.size
      BY <1>1, <2>1, <2>3, AppendProperties
    <3>3. \A k \in 1 .. Len(s) + 1 : t[k].size = Append(sizes, l.size)[k]
      BY <2>2, <3>1, <3>2
    <3> DEFINE u == Append(sizes, l.size)
    <3>4. u = [k \in 1 .. Len(s) + 1 |-> u[k]]
      BY <3>2
    <3> HIDE DEF u
    <3>5. QED
      BY <2>2, <3>3, <3>4 DEF u
  <2> HIDE DEF t, sizes
  <2>5. Total(sizes) \in Nat /\ Total(Append(sizes, l.size)) = Total(sizes) + l.size
    BY <2>1, <2>3, TotalAppend
  <2>6. TotalSize(t) = TotalSize(s) + l.size
    BY <2>4, <2>5 DEF TotalSize, sizes
  <2>7. TotalSize(t) <= MaximumTotal
    BY <1>3, <2>1, <2>5, <2>6, ProjectionAssumption DEF TotalSize, sizes
  <2>8. Len(t) <= MaximumLines
    BY <1>1, <1>3, <2>2, ProjectionAssumption
  <2>9. \A k \in DOMAIN t : t[k].size <= MaximumLine
    <3>1. \A k \in 1 .. Len(s) + 1 : k \in 1 .. Len(s) \/ k = Len(s) + 1
      BY <1>1
    <3>2. l.size <= MaximumLine
      BY <1>3, <2>1, ProjectionAssumption
    <3>3. QED
      BY <1>1, <2>2, <3>1, <3>2
  <2>10. t \in Bounded(S)
    BY <2>2, <2>7, <2>8, <2>9 DEF Bounded
  <2>11. QED
    BY <1>3, <2>10 DEF AppendBounded, t
<1>4. QED
  BY <1>2, <1>3

(* The diagnostic lines of a range have text and keep to its bounds.       *)
LEMMA LinesAreBounded ==
  ASSUME NEW r, r.lines \in Seq(Line)
  PROVE  DiagnosticLines(r) \in Bounded({r.lines[i] : i \in Written(r.lines)})
<1> DEFINE S == {r.lines[i] : i \in Written(r.lines)}
           at == Selected(r.format, r.lines)
           N == Len(at)
           extend == [u \in Bounded(S) \X (1 .. N) |-> AppendBounded(u[1], r.lines[at[u[2]]])]
           body(g) == [n \in 0 .. N |-> IF n = 0 THEN <<>> ELSE AppendBounded(g[n - 1], r.lines[at[n]])]
           kept == CHOOSE g : g = body(g)
<1>1. DiagnosticLines(r) = kept[N]
  BY DEF DiagnosticLines
<1>2. at \in Seq(Written(r.lines))
  BY SelectedIsWritten
<1>3. N \in Nat /\ \A n \in 1 .. N : r.lines[at[n]] \in S
  BY <1>2
<1>4. S \subseteq Line
  BY DEF Written
<1>5. <<>> \in Bounded(S)
  <2>1. TotalSize(<<>>) = 0
    <3>1. [k \in DOMAIN <<>> |-> <<>>[k].size] = <<>>
      OBVIOUS
    <3>2. QED
      BY <3>1, TotalOfNone DEF TotalSize
  <2>2. QED
    BY <2>1, ProjectionAssumption DEF Bounded
<1>6. \A s \in Bounded(S), n \in 1 .. N : AppendBounded(s, r.lines[at[n]]) \in Bounded(S)
  <2> HIDE DEF S, N, at
  <2>1. QED
    BY <1>3, <1>4, AppendIsBounded
<1>7. extend \in [Bounded(S) \X (1 .. N) -> Bounded(S)]
  <2> HIDE DEF S, N, at
  <2>1. QED
    BY <1>6
<1>8. PICK f \in [0 .. N -> Bounded(S)] : Iterates(f, N, <<>>, extend)
  <2> DEFINE D == Bounded(S)
             base == <<>>
  <2>1. N \in Nat /\ base \in D /\ extend \in [D \X (1 .. N) -> D]
    BY <1>3, <1>5, <1>7
  <2> HIDE DEF S, N, base, extend, D
  <2>2. \E f \in [0 .. N -> D] : Iterates(f, N, base, extend)
    BY <2>1, Recursion
  <2>3. QED
    BY <2>2 DEF D, base
<1>9. f = body(f)
  <2>1. \A n \in 1 .. N : f[n - 1] \in Bounded(S)
    BY <1>3
  <2>2. \A n \in 1 .. N : extend[<<f[n - 1], n>>] = AppendBounded(f[n - 1], r.lines[at[n]])
    BY <2>1
  <2> HIDE DEF S, N, extend, at
  <2>3. \A n \in 0 .. N : n # 0 => n \in 1 .. N
    BY <1>3
  <2>4. \A n \in 0 .. N : f[n] = IF n = 0 THEN <<>> ELSE AppendBounded(f[n - 1], r.lines[at[n]])
    BY <1>8, <2>2, <2>3 DEF Iterates
  <2>5. QED
    BY <2>4
<1>10. kept = body(kept)
  <2> HIDE DEF body
  <2>1. QED
    BY <1>9
<1>11. \A n \in 0 .. N : n \in {k \in 0 .. N : kept[k] \in Bounded(S)}
  <2> DEFINE P == {k \in 0 .. N : kept[k] \in Bounded(S)}
  <2> HIDE DEF kept, S, at, N
  <2>1. 0 \in P
    BY <1>3, <1>5, <1>10
  <2>2. ASSUME NEW n \in 1 .. N, n - 1 \in P
        PROVE  n \in P
    <3>1. kept[n] = AppendBounded(kept[n - 1], r.lines[at[n]])
      <4>1. n \in 0 .. N /\ n # 0
        BY <1>3
      <4>2. QED
        BY <1>10, <4>1
    <3>2. kept[n - 1] \in Bounded(S) /\ n \in 0 .. N
      BY <1>3, <2>2
    <3>3. QED
      BY <1>6, <3>1, <3>2
  <2> HIDE DEF P
  <2>3. QED
    BY <1>3, <2>1, <2>2, Induction DEF P
<1>12. kept[N] \in Bounded(S)
  <2>1. N \in 0 .. N
    BY <1>3
  <2> HIDE DEF kept, N, S
  <2>2. QED
    BY <1>11, <2>1
<1>13. QED
  BY <1>1, <1>12

(* Validation accepts the lines of every range that can be printed.        *)
LEMMA LinesAreValid ==
  ASSUME NEW r, r.lines \in Seq(Line), \A k \in DOMAIN r.lines : ~ r.lines[k].control
  PROVE  ValidLines(DiagnosticLines(r))
<1> DEFINE S == {r.lines[i] : i \in Written(r.lines)}
           s == DiagnosticLines(r)
<1>1. s \in Bounded(S)
  BY LinesAreBounded
<1>2. \A l \in S : l.part # "blank" /\ ~ l.control
  BY DEF Written
<1> HIDE DEF S, s
<1>3. \A k \in DOMAIN s : s[k] \in S
  BY <1>1 DEF Bounded
<1>4. ValidLines(s)
  BY <1>1, <1>2, <1>3 DEF Bounded, ValidLines
<1>5. QED
  BY <1>4 DEF s

-----------------------------------------------------------------------------
(* What the validation of the request compares, as it is collected.        *)
ContentInv ==
  /\ projection.items \subseteq evidence.items
  /\ \A x \in projection.items \cup projection.artifacts : x.class \in manifest.classes
  /\ \A a \in projection.artifacts :
       a.size \in Nat \ {0} /\ a.id \in Ids(IF a.class = "log_content" THEN evidence.logs ELSE evidence.sources)
  /\ IsFiniteSet(projection.artifacts)
  /\ \A r \in projection.enrichment : \E s \in evidence.ranges : r.id = s.id /\ r.lines = DiagnosticLines(s)
  /\ manifest.bytes = Bytes(projection.artifacts)
  /\ pc \notin {"begin", "items", "done"} => "metadata" \in manifest.classes
  /\ pc = "seal" => candidates = Candidates /\ candidates # {}

SealInv == ContentInv /\ SealAccepts

(* What a finite set is turned into is finite.                             *)
LEMMA ImageIsFinite ==
  ASSUME NEW S, IsFiniteSet(S), NEW f, DOMAIN f = S
  PROVE  IsFiniteSet({f[x] : x \in S})
<1> DEFINE T == {f[x] : x \in S}
           g == [x \in S |-> f[x]]
<1>1. g \in Surjection(S, T)
  BY Fun_IsSurj
<1>2. QED
  BY <1>1, FS_Surjection

LEMMA IdsAreFinite ==
  ASSUME NEW S, IsFiniteSet(S)
  PROVE  IsFiniteSet(Ids(S))
<1> DEFINE f == [x \in S |-> x.id]
<1>1. DOMAIN f = S /\ {f[x] : x \in S} = Ids(S)
  BY DEF Ids
<1> HIDE DEF f
<1>2. QED
  BY <1>1, ImageIsFinite

(* The bytes of two sets that share nothing.                               *)
LEMMA BytesSplit ==
  ASSUME NEW S, NEW T, IsFiniteSet(S), IsFiniteSet(T), S \cap T = {}, \A x \in S \cup T : x.size \in Nat
  PROVE  Bytes(S \cup T) = Bytes(S) + Bytes(T)
<1> DEFINE f == [x \in S |-> x.size]
           g == [x \in T |-> x.size]
           h == [x \in S \cup T |-> x.size]
<1>1. Splits(h, f, g, S, T)
  BY DEF Splits
<1> HIDE DEF f, g, h
<1>2. Total(h) = Total(f) + Total(g)
  BY <1>1, TotalSplits
<1>3. QED
  BY <1>2 DEF Bytes, f, g, h

LEMMA BytesOfNone == Bytes({}) = 0
<1>1. [x \in {} |-> x.size] = <<>>
  OBVIOUS
<1>2. QED
  BY <1>1, TotalOfNone DEF Bytes

(* Nothing else is shown or listed.                                        *)
LEMMA ContentStays ==
  ASSUME ContentInv, UNCHANGED <<evidence, projection, manifest>>,
         pc' \notin {"begin", "items", "done"} => "metadata" \in manifest.classes, pc' # "seal"
  PROVE  ContentInv'
BY DEF ContentInv

LEMMA FailSeals ==
  ASSUME IInv, SealInv, NEW why, Fail(why), UNCHANGED inputs, why = "seal" => ~ Printable
  PROVE  SealInv'
<1>1. ContentInv'
  BY ContentStays DEF SealInv, Fail, inputs
<1>2. SealAccepts'
  BY DEF SealAccepts, Fail, Printable, inputs
<1>3. QED
  BY <1>1, <1>2 DEF SealInv

(* No step but a failure ends the preparation.                             *)
LEMMA GoOn ==
  ASSUME IInv, outcome' = outcome, pc # "done"
  PROVE  SealAccepts'
BY DEF IInv, OrderInv, SealAccepts

LEMMA InitSeals == Init => SealInv
<1> SUFFICES ASSUME Init PROVE SealInv
  OBVIOUS
<1>1. IsFiniteSet({}) /\ Bytes({}) = 0
  BY FS_EmptySet, BytesOfNone
<1>2. ContentInv
  BY <1>1 DEF Init, ContentInv
<1>3. QED
  BY <1>2 DEF Init, SealInv, SealAccepts

LEMMA BeginSeals == ASSUME IInv, SealInv, Begin PROVE SealInv'
<1>1. CASE Fail("evidence") \/ Fail("approval")
  BY <1>1, FailSeals DEF Begin
<1>2. CASE Goto("items") /\ UNCHANGED <<class, projection, manifest, candidates>>
  <2>1. ContentInv'
    BY <1>2, ContentStays DEF SealInv, Begin, Goto, inputs
  <2>2. QED
    BY <1>2, <2>1, GoOn DEF SealInv, Begin, Goto
<1>3. QED
  BY <1>1, <1>2 DEF Begin

LEMMA ShowItemsSeals ==
  ASSUME IInv, SealInv, pc = "items", NEW c, NEW picked \in SUBSET evidence.items, \A i \in picked : i.class = c,
         ShowItems(c, picked), UNCHANGED <<evidence, pc, outcome>>
  PROVE  SealInv'
<1>1. /\ projection'.items = projection.items \cup picked
      /\ UNCHANGED <<projection.artifacts, projection.enrichment>>
  BY DEF ShowItems, IInv, ShapeInv
<1>2. /\ manifest'.classes = manifest.classes \cup (IF picked = {} THEN {} ELSE {c})
      /\ UNCHANGED manifest.bytes
  BY DEF ShowItems, IInv, ShapeInv
<1>3. \A x \in projection'.items \cup projection'.artifacts : x.class \in manifest'.classes
  BY <1>1, <1>2 DEF SealInv, ContentInv
<1>4. ContentInv'
  BY <1>1, <1>2, <1>3 DEF SealInv, ContentInv
<1>5. QED
  BY <1>4, GoOn DEF SealInv

LEMMA ProjectItemsSeals == ASSUME IInv, SealInv, ProjectItems PROVE SealInv'
<1>0. PICK c : c = ItemClasses[class]
  OBVIOUS
<1>1. PICK picked : picked = {i \in evidence.items : i.class = c /\ i.useful}
  OBVIOUS
<1>2. /\ pc = "items" /\ UNCHANGED inputs
      /\ IF ~ Allowed(c) THEN UNCHANGED <<pc, outcome, projection, manifest>>
         ELSE IF ~ Within(picked, profile[c]) THEN Fail("limit")
         ELSE ShowItems(c, picked) /\ UNCHANGED <<pc, outcome>>
  BY <1>0, <1>1 DEF ProjectItems
<1>3. CASE Fail("limit")
  BY <1>2, <1>3, FailSeals
<1>4. CASE UNCHANGED <<pc, outcome, projection, manifest>>
  <2>1. ContentInv'
    BY <1>2, <1>4, ContentStays DEF SealInv, ContentInv, inputs
  <2>2. QED
    BY <1>2, <1>4, <2>1, GoOn DEF SealInv
<1>5. CASE ShowItems(c, picked) /\ UNCHANGED <<pc, outcome>>
  BY <1>1, <1>2, <1>5, ShowItemsSeals DEF inputs
<1>6. QED
  BY <1>2, <1>3, <1>4, <1>5

LEMMA ItemsEndSeals == ASSUME IInv, SealInv, ItemsEnd PROVE SealInv'
<1>1. CASE Fail("no_metadata")
  BY <1>1, FailSeals DEF ItemsEnd
<1>2. CASE "metadata" \in manifest.classes /\ Goto("logs") /\ UNCHANGED <<class, projection, manifest, candidates>>
  <2>1. ContentInv'
    BY <1>2, ContentStays DEF SealInv, ItemsEnd, Goto, inputs
  <2>2. QED
    BY <1>2, <2>1, GoOn DEF SealInv, ItemsEnd, Goto
<1>3. QED
  BY <1>1, <1>2 DEF ItemsEnd

LEMMA ProjectLogsSeals == ASSUME IInv, SealInv, ProjectLogs PROVE SealInv'
<1>0. pc = "logs" /\ UNCHANGED inputs /\ "metadata" \in manifest.classes
  BY DEF ProjectLogs, SealInv, ContentInv
<1>1. CASE Goto("source") /\ UNCHANGED <<class, projection, manifest, candidates>>
  <2>1. ContentInv'
    BY <1>0, <1>1, ContentStays DEF SealInv, Goto, inputs
  <2>2. QED
    BY <1>0, <1>1, <2>1, GoOn DEF SealInv, Goto
<1>2. CASE Fail("no_redaction") \/ Fail("limit")
  BY <1>0, <1>2, FailSeals
<1>3. CASE "log_content" \in approved /\ ShowLogs(Limits("log_content")) /\ ~ Fail("limit")
  <2>1. PICK bounds : bounds = Limits("log_content")
    OBVIOUS
  <2>2. PICK logs \in SUBSET Eligible :
          \E size \in [logs -> 1 .. bounds.bytes], ranges \in SUBSET {r \in evidence.ranges : r.log \in Ids(logs)} :
            LET contexts == {[id |-> l.id, class |-> "log_content", size |-> size[l]] : l \in logs} IN
            ShowContexts(contexts, ranges) /\ Goto("source")
    BY <1>3, <2>1 DEF ShowLogs
  <2>3. PICK size \in [logs -> 1 .. bounds.bytes], ranges \in SUBSET {r \in evidence.ranges : r.log \in Ids(logs)} :
          ShowContexts({[id |-> l.id, class |-> "log_content", size |-> size[l]] : l \in logs}, ranges) /\ Goto("source")
    BY <2>2
  <2>4. PICK contexts : contexts = {[id |-> l.id, class |-> "log_content", size |-> size[l]] : l \in logs}
    OBVIOUS
  <2>5. PICK shown : shown = {[id |-> r.id, log |-> r.log, lines |-> DiagnosticLines(r)] : r \in ranges}
    OBVIOUS
  <2>6. /\ projection'.items = projection.items /\ projection'.artifacts = contexts /\ projection'.enrichment = shown
        /\ manifest'.bytes = Bytes(contexts)
        /\ manifest'.classes = manifest.classes \cup (IF contexts = {} THEN {} ELSE {"log_content"})
        /\ evidence' = evidence /\ pc' = "source" /\ outcome' = outcome
    BY <1>0, <2>3, <2>4, <2>5 DEF ShowContexts, IInv, ShapeInv, Goto, inputs
  <2>7. logs \subseteq evidence.logs /\ IsFiniteSet(logs)
    <3>1. logs \subseteq evidence.logs
      BY DEF Eligible
    <3>2. IsFiniteSet(evidence.logs)
      BY ProjectionAssumption DEF IInv, TypeOK
    <3>3. QED
      BY <3>1, <3>2, FS_Subset
  <2>8. IsFiniteSet(contexts)
    <3> DEFINE f == [l \in logs |-> [id |-> l.id, class |-> "log_content", size |-> size[l]]]
    <3>1. DOMAIN f = logs /\ contexts = {f[l] : l \in logs}
      BY <2>4
    <3> HIDE DEF f
    <3>2. QED
      BY <2>7, <3>1, ImageIsFinite
  <2>9. bounds.bytes \in Nat
    <3>1. profile \in Profiles
      BY DEF IInv, TypeOK
    <3>2. \A c \in DOMAIN profile : profile[c] \in [count : Nat, bytes : Nat]
      BY <3>1, ProjectionAssumption
    <3>3. QED
      BY <2>1, <3>2 DEF Limits
  <2>10. \A a \in contexts : a.class = "log_content" /\ a.size \in Nat \ {0} /\ a.id \in Ids(evidence.logs)
    <3>1. \A l \in logs : size[l] \in Nat \ {0} /\ l.id \in Ids(evidence.logs)
      BY <2>7, <2>9 DEF Ids
    <3>2. QED
      BY <2>4, <3>1
  <2>11. \A r \in shown : \E s \in evidence.ranges : r.id = s.id /\ r.lines = DiagnosticLines(s)
    BY <2>5
  <2>12. ContentInv'
    <3>1. projection.artifacts = {} /\ projection.items \subseteq evidence.items
          /\ \A x \in projection.items : x.class \in manifest.classes
      BY <1>0 DEF IInv, OrderInv, AtLogs, SealInv, ContentInv
    <3>2. \A x \in projection.items \cup contexts : x.class \in manifest'.classes
      BY <2>6, <2>10, <3>1
    <3>3. Ids(evidence.logs)' = Ids(evidence.logs)
      BY <2>6
    <3>4. \A a \in contexts : a.size \in Nat \ {0}
             /\ a.id \in Ids(IF a.class = "log_content" THEN evidence.logs ELSE evidence.sources)
      BY <2>10
    <3>5. QED
      BY <1>0, <2>6, <2>8, <2>11, <3>1, <3>2, <3>4 DEF ContentInv
  <2>13. QED
    BY <1>0, <2>6, <2>12, GoOn DEF SealInv
<1>4. QED
  BY <1>1, <1>2, <1>3 DEF ProjectLogs

LEMMA ShowSourceSeals ==
  ASSUME IInv, SealInv, pc = "source", NEW picked \in SUBSET evidence.sources, NEW shown, UNCHANGED inputs,
         shown = {[id |-> s.id, class |-> "source_content", size |-> s.size] : s \in picked},
         projection' = [projection EXCEPT !.artifacts = @ \cup shown],
         manifest' = [manifest EXCEPT
                   !.artifacts = @ \cup Ids(shown), !.bytes = @ + Bytes(shown),
                   !.classes = @ \cup (IF shown = {} THEN {} ELSE {"source_content"})],
         Goto("notices")
  PROVE  SealInv'
<1>1. /\ projection'.items = projection.items /\ projection'.artifacts = projection.artifacts \cup shown
      /\ projection'.enrichment = projection.enrichment
      /\ manifest'.bytes = manifest.bytes + Bytes(shown)
      /\ manifest'.classes = manifest.classes \cup (IF shown = {} THEN {} ELSE {"source_content"})
      /\ evidence' = evidence /\ pc' = "notices" /\ outcome' = outcome
  BY DEF IInv, ShapeInv, Goto, inputs
<1>2. evidence \in Evidence
  BY DEF IInv, TypeOK
<1>3. IsFiniteSet(shown)
  <2> DEFINE f == [s \in picked |-> [id |-> s.id, class |-> "source_content", size |-> s.size]]
  <2>1. DOMAIN f = picked /\ shown = {f[s] : s \in picked}
    OBVIOUS
  <2>2. IsFiniteSet(picked)
    BY <1>2, ProjectionAssumption, FS_Subset
  <2> HIDE DEF f
  <2>3. QED
    BY <2>1, <2>2, ImageIsFinite
<1>4. \A a \in shown : a.class = "source_content" /\ a.size \in Nat \ {0} /\ a.id \in Ids(evidence.sources)
  <2>1. \A s \in picked : s.size \in Nat \ {0} /\ s.id \in Ids(evidence.sources)
    BY <1>2, ProjectionAssumption DEF Ids
  <2>2. QED
    BY <2>1
<1>5. /\ \A a \in projection.artifacts : a.class = "log_content" /\ a.size \in Nat
      /\ IsFiniteSet(projection.artifacts) /\ manifest.bytes = Bytes(projection.artifacts)
      /\ "metadata" \in manifest.classes
  BY DEF IInv, OrderInv, SealInv, ContentInv
<1>6. IsFiniteSet(projection'.artifacts)
  <2>1. IsFiniteSet(projection.artifacts \cup shown)
    BY <1>3, <1>5, FS_Union
  <2>2. QED
    BY <1>1, <2>1
<1>7. manifest'.bytes = Bytes(projection'.artifacts)
  <2>1. projection.artifacts \cap shown = {} /\ \A x \in projection.artifacts \cup shown : x.size \in Nat
    BY <1>4, <1>5
  <2>2. Bytes(projection.artifacts \cup shown) = Bytes(projection.artifacts) + Bytes(shown)
    BY <1>3, <1>5, <2>1, BytesSplit
  <2>3. QED
    BY <1>1, <1>5, <2>2
<1>8. \A x \in projection'.items \cup projection'.artifacts : x.class \in manifest'.classes
  BY <1>1, <1>4 DEF SealInv, ContentInv
<1>9. ContentInv'
  <2>1. \A a \in projection'.artifacts : a.size \in Nat \ {0}
           /\ a.id \in Ids(IF a.class = "log_content" THEN evidence.logs ELSE evidence.sources)
    BY <1>1, <1>4 DEF SealInv, ContentInv
  <2>2. projection.items \subseteq evidence.items
        /\ \A r \in projection.enrichment : \E s \in evidence.ranges : r.id = s.id /\ r.lines = DiagnosticLines(s)
    BY DEF SealInv, ContentInv
  <2>3. QED
    BY <1>1, <1>5, <1>6, <1>7, <1>8, <2>1, <2>2 DEF ContentInv
<1>10. QED
  BY <1>1, <1>9, GoOn DEF SealInv

LEMMA ProjectSourceSeals == ASSUME IInv, SealInv, ProjectSource PROVE SealInv'
<1>0. pc = "source" /\ UNCHANGED inputs /\ "metadata" \in manifest.classes
  BY DEF ProjectSource, SealInv, ContentInv
<1>1. CASE Goto("notices") /\ UNCHANGED <<class, projection, manifest, candidates>>
  <2>1. ContentInv'
    BY <1>0, <1>1, ContentStays DEF SealInv, Goto, inputs
  <2>2. QED
    BY <1>0, <1>1, <2>1, GoOn DEF SealInv, Goto
<1>2. CASE Fail("approval") \/ Fail("limit")
  BY <1>0, <1>2, FailSeals
<1>3. CASE ~ (Fail("approval") \/ Fail("limit")) /\ ~ ("source_content" \notin approved \/ evidence.sources = {})
  <2>1. PICK picked : picked = {s \in evidence.sources : ~ s.mismatch}
    OBVIOUS
  <2>2. PICK shown : shown = {[id |-> s.id, class |-> "source_content", size |-> s.size] : s \in picked}
    OBVIOUS
  <2>3. /\ projection' = [projection EXCEPT !.artifacts = @ \cup shown]
        /\ manifest' = [manifest EXCEPT
                   !.artifacts = @ \cup Ids(shown), !.bytes = @ + Bytes(shown),
                   !.classes = @ \cup (IF shown = {} THEN {} ELSE {"source_content"})]
        /\ Goto("notices")
    BY <1>3, <2>1, <2>2 DEF ProjectSource
  <2>4. QED
    BY <1>0, <2>1, <2>2, <2>3, ShowSourceSeals
<1>4. QED
  BY <1>1, <1>2, <1>3 DEF ProjectSource

LEMMA ProjectNoticesSeals == ASSUME IInv, SealInv, ProjectNotices PROVE SealInv'
<1>1. /\ projection'.items = projection.items /\ projection'.artifacts = projection.artifacts
      /\ projection'.enrichment = projection.enrichment
      /\ UNCHANGED <<evidence, manifest, outcome>> /\ pc = "notices" /\ pc' = "findings"
  BY DEF ProjectNotices, IInv, ShapeInv, Goto, inputs
<1>2. ContentInv'
  BY <1>1 DEF SealInv, ContentInv
<1>3. QED
  BY <1>1, <1>2, GoOn DEF SealInv

LEMMA ProjectDeterministicSeals == ASSUME IInv, SealInv, ProjectDeterministic PROVE SealInv'
<1>1. CASE Fail("no_candidate")
  BY <1>1, FailSeals DEF ProjectDeterministic
<1>2. CASE Candidates # {} /\ candidates' = Candidates /\ Goto("seal") /\ UNCHANGED <<class, projection, manifest>>
  <2>1. UNCHANGED <<evidence, projection, manifest, outcome>> /\ pc = "findings" /\ pc' = "seal"
    BY <1>2 DEF ProjectDeterministic, Goto, inputs
  <2>2. Candidates' = Candidates
    BY <2>1 DEF Candidates, Listed
  <2>3. ContentInv'
    BY <1>2, <2>1, <2>2 DEF SealInv, ContentInv
  <2>4. QED
    BY <2>1, <2>3, GoOn DEF SealInv
<1>3. QED
  BY <1>1, <1>2 DEF ProjectDeterministic

(* Identifiers of different evidence differ.                               *)
LEMMA ListedOnce ==
  ASSUME IInv, SealInv
  PROVE  Cardinality(Listed) = Cardinality(manifest.items) + Cardinality(manifest.artifacts) + Cardinality(manifest.enrichment)
<1> DEFINE I == manifest.items
           A == manifest.artifacts
           R == manifest.enrichment
<1>1. evidence \in Evidence
  BY DEF IInv, TypeOK
<1>2. /\ IsFiniteSet(evidence.items) /\ IsFiniteSet(evidence.logs) /\ IsFiniteSet(evidence.ranges)
      /\ IsFiniteSet(evidence.sources)
      /\ evidence.items \cap (evidence.logs \cup evidence.ranges \cup evidence.sources) = {}
      /\ evidence.ranges \cap (evidence.logs \cup evidence.sources) = {}
      /\ \A x, y \in evidence.items \cup evidence.logs \cup evidence.ranges \cup evidence.sources : x.id = y.id => x = y
  BY <1>1, ProjectionAssumption
<1>3. I \subseteq Ids(evidence.items)
  BY DEF IInv, ListInv, SealInv, ContentInv, Ids
<1>4. A \subseteq Ids(evidence.logs) \cup Ids(evidence.sources)
  <2>1. \A a \in projection.artifacts : a.id \in Ids(evidence.logs) \cup Ids(evidence.sources)
    BY DEF SealInv, ContentInv
  <2>2. A = {a.id : a \in projection.artifacts}
    BY DEF IInv, ListInv, Ids
  <2>3. QED
    BY <2>1, <2>2
<1>5. R \subseteq Ids(evidence.ranges)
  BY DEF IInv, ListInv, SealInv, ContentInv, Ids
<1>6. IsFiniteSet(I) /\ IsFiniteSet(A) /\ IsFiniteSet(R)
  <2>1. IsFiniteSet(Ids(evidence.items)) /\ IsFiniteSet(Ids(evidence.logs)) /\ IsFiniteSet(Ids(evidence.ranges))
        /\ IsFiniteSet(Ids(evidence.sources))
    BY <1>2, IdsAreFinite
  <2>2. IsFiniteSet(Ids(evidence.logs) \cup Ids(evidence.sources))
    BY <2>1, FS_Union
  <2>3. QED
    BY <1>3, <1>4, <1>5, <2>1, <2>2, FS_Subset
<1>7. I \cap A = {}
  <2>1. ASSUME NEW x \in I, x \in A PROVE FALSE
    <3>1. PICK i \in evidence.items : x = i.id
      BY <1>3 DEF Ids
    <3>2. PICK a \in evidence.logs \cup evidence.sources : x = a.id
      BY <1>4, <2>1 DEF Ids
    <3>3. QED
      BY <1>2, <3>1, <3>2
  <2>2. QED
    BY <2>1
<1>8. (I \cup A) \cap R = {}
  <2>1. ASSUME NEW x \in I \cup A, x \in R PROVE FALSE
    <3>1. PICK i \in evidence.items \cup evidence.logs \cup evidence.sources : x = i.id
      BY <1>3, <1>4, <2>1 DEF Ids
    <3>2. PICK r \in evidence.ranges : x = r.id
      BY <1>5, <2>1 DEF Ids
    <3>3. QED
      BY <1>2, <3>1, <3>2
  <2>2. QED
    BY <2>1
<1> HIDE DEF I, A, R
<1>9. /\ Cardinality(I) \in Nat /\ Cardinality(A) \in Nat /\ Cardinality(R) \in Nat
      /\ Cardinality({}) = 0
  BY <1>6, FS_CardinalityType, FS_EmptySet
<1>10. IsFiniteSet(I \cup A) /\ Cardinality(I \cup A) = Cardinality(I) + Cardinality(A)
  <2>1. IsFiniteSet(I \cup A) /\ Cardinality(I \cup A) = Cardinality(I) + Cardinality(A) - Cardinality(I \cap A)
    BY <1>6, FS_Union
  <2>2. Cardinality(I \cap A) = 0
    BY <1>7, <1>9
  <2>3. QED
    BY <1>9, <2>1, <2>2
<1>11. Cardinality((I \cup A) \cup R) = Cardinality(I \cup A) + Cardinality(R)
  <2>1. Cardinality((I \cup A) \cup R) = Cardinality(I \cup A) + Cardinality(R) - Cardinality((I \cup A) \cap R)
    BY <1>6, <1>10, FS_Union
  <2>2. Cardinality((I \cup A) \cap R) = 0
    BY <1>8, <1>9
  <2>3. QED
    BY <1>9, <1>10, <2>1, <2>2
<1>12. QED
  BY <1>9, <1>10, <1>11 DEF Listed, I, A, R

LEMMA ProjectionIsValid ==
  ASSUME IInv, CompleteInv, SealInv, Printable, pc = "seal"
  PROVE  ValidProjection
<1> DEFINE p == projection
           m == manifest
<1>1. evidence \in Evidence
  BY DEF IInv, TypeOK
<1>2. m.classes # {} /\ m.classes \subseteq Classes
  BY DEF SealInv, ContentInv, IInv, TypeOK
<1>3. \A i \in p.items : i.class \in ToSet(ItemClasses) \cap m.classes
  BY ClassFacts DEF IInv, SpentInv, SealInv, ContentInv
<1>4. \A a \in p.artifacts : a.class \in {"log_content", "source_content"} \cap m.classes /\ a.size > 0
  BY DEF IInv, SpentInv, SealInv, ContentInv
<1>5. \A r \in p.enrichment : r.log \in Ids(p.artifacts) /\ "log_content" \in m.classes /\ ValidLines(r.lines)
  <2> SUFFICES ASSUME NEW r \in p.enrichment
               PROVE  r.log \in Ids(p.artifacts) /\ "log_content" \in m.classes /\ ValidLines(r.lines)
    OBVIOUS
  <2>1. PICK a \in p.artifacts : a.id = r.log /\ a.class = "log_content"
    BY DEF IInv, ListInv
  <2>2. r.log \in Ids(p.artifacts) /\ "log_content" \in m.classes
    BY <2>1 DEF Ids, SealInv, ContentInv
  <2>3. PICK s \in evidence.ranges : r.lines = DiagnosticLines(s)
    BY DEF SealInv, ContentInv
  <2>4. s.lines \in Seq(Line) /\ \A k \in DOMAIN s.lines : ~ s.lines[k].control
    BY <1>1, ProjectionAssumption DEF Printable
  <2>5. QED
    BY <2>2, <2>3, <2>4, LinesAreValid
<1>6. Ids(p.items) = m.items /\ Ids(p.artifacts) = m.artifacts /\ Ids(p.enrichment) = m.enrichment
  BY DEF IInv, ListInv
<1>7. Cardinality(Listed) = Cardinality(m.items) + Cardinality(m.artifacts) + Cardinality(m.enrichment)
  BY ListedOnce
<1>8. Bytes(p.artifacts) = m.bytes
  BY DEF SealInv, ContentInv
<1>9. p.notices = Notices
  BY DEF CompleteInv, AtNotices, AtSource, AtLogs, AtItems
<1>10. \A n \in p.notices : n.affects # {} /\ n.affects \subseteq Listed
  BY <1>9 DEF Notices
<1>11. \A n, o \in p.notices : n.code = o.code => n = o
  <2>1. \A k, l \in evidence.notices : k.code = l.code => k = l
    BY <1>1, ProjectionAssumption
  <2>2. ASSUME NEW n \in p.notices, NEW o \in p.notices, n.code = o.code
        PROVE  n = o
    <3>1. PICK k \in evidence.notices : n = [code |-> k.code, affects |-> k.affects \cap Listed]
      BY <1>9 DEF Notices
    <3>2. PICK l \in evidence.notices : o = [code |-> l.code, affects |-> l.affects \cap Listed]
      BY <1>9 DEF Notices
    <3>3. k = l
      BY <2>1, <2>2, <3>1, <3>2
    <3>4. QED
      BY <3>1, <3>2, <3>3
  <2>3. QED
    BY <2>2
<1>12. QED
  BY <1>2, <1>3, <1>4, <1>5, <1>6, <1>7, <1>8, <1>10, <1>11 DEF ValidProjection

LEMMA ContextIsValid ==
  ASSUME IInv, SealInv, pc = "seal"
  PROVE  ValidContext
<1>1. evidence \in Evidence
  BY DEF IInv, TypeOK
<1>2. candidates # {} /\ candidates = Candidates
  BY DEF SealInv, ContentInv
<1>3. \A f, g \in evidence.findings : f.id = g.id => f = g
  BY <1>1, ProjectionAssumption
<1>4. \A f, g \in candidates : f.id = g.id => f = g
  <2> DEFINE cut(h) == [id |-> h.id, support |-> h.support \cap Listed, against |-> h.against \cap Listed]
  <2>1. ASSUME NEW f \in candidates, NEW g \in candidates, f.id = g.id
        PROVE  f = g
    <3>1. PICK h \in evidence.findings : f = cut(h)
      BY <1>2 DEF Candidates
    <3>2. PICK k \in evidence.findings : g = cut(k)
      BY <1>2 DEF Candidates
    <3>3. h = k
      BY <1>3, <2>1, <3>1, <3>2
    <3>4. QED
      BY <3>1, <3>2, <3>3
  <2>2. QED
    BY <2>1
<1>5. \A f \in candidates : f.support \cup f.against \subseteq Listed
  BY DEF IInv, ListInv
<1>6. QED
  BY <1>2, <1>4, <1>5 DEF ValidContext

LEMMA SealRequestSeals == ASSUME IInv, CompleteInv, SealInv, SealRequest PROVE SealInv'
<1>1. CASE ValidProjection /\ ValidContext
  <2>1. /\ pc = "seal" /\ pc' = "encode" /\ UNCHANGED <<evidence, projection, manifest, outcome>>
        /\ "metadata" \in manifest.classes
    BY <1>1 DEF SealRequest, Goto, inputs, SealInv, ContentInv
  <2>2. ContentInv'
    BY <2>1, ContentStays DEF SealInv
  <2>3. QED
    BY <2>1, <2>2, GoOn DEF SealInv
<1>2. CASE ~ (ValidProjection /\ ValidContext)
  <2>1. ~ Printable
    BY <1>2, ProjectionIsValid, ContextIsValid DEF SealRequest
  <2>2. QED
    BY <1>2, <2>1, FailSeals DEF SealRequest
<1>3. QED
  BY <1>1, <1>2

LEMMA EncodeSeals == ASSUME IInv, SealInv, Encode PROVE SealInv'
BY FailSeals DEF Encode

LEMMA NextSeals == IInv /\ CompleteInv /\ SealInv /\ [Next]_vars => SealInv'
<1> SUFFICES ASSUME IInv, CompleteInv, SealInv, [Next]_vars PROVE SealInv'
  OBVIOUS
<1>1. CASE Begin \/ ProjectItems \/ ItemsEnd
  BY <1>1, BeginSeals, ProjectItemsSeals, ItemsEndSeals
<1>2. CASE ProjectLogs \/ ProjectSource \/ ProjectNotices
  BY <1>2, ProjectLogsSeals, ProjectSourceSeals, ProjectNoticesSeals
<1>3. CASE ProjectDeterministic \/ SealRequest \/ Encode
  BY <1>3, ProjectDeterministicSeals, SealRequestSeals, EncodeSeals
<1>4. CASE UNCHANGED vars
  <2>1. UNCHANGED <<evidence, profile, approved, pc, class, projection, manifest, candidates, outcome>>
    BY <1>4 DEF vars
  <2>2. Candidates' = Candidates
    BY <2>1 DEF Candidates, Listed
  <2>3. ContentInv'
    BY <2>1, <2>2 DEF SealInv, ContentInv
  <2>4. SealAccepts'
    BY <2>1 DEF SealInv, SealAccepts, Printable
  <2>5. QED
    BY <2>3, <2>4 DEF SealInv
<1>5. QED
  BY <1>1, <1>2, <1>3, <1>4 DEF Next, Prepare, Done

(* The request that Prepare builds is never refused by the validation that *)
(* seals it, whatever the evidence, the profile and the approval, unless a *)
(* diagnostic holds a control character: the two agree on identifiers,     *)
(* classes, byte counts, notices and lines (projection.go:117-149,         *)
(* codec.go:410-530).                                                      *)
THEOREM PreparedIsValid == Spec => []SealAccepts
<1>1. SealInv => SealAccepts
  BY DEF SealInv
<1>2. QED
  BY <1>1, InitSeals, NextSeals, InvHolds, CompleteHolds, PTL DEF Spec
=============================================================================
