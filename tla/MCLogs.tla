------------------------------- MODULE MCLogs --------------------------------
(***************************************************************************)
(* Every log of up to four bytes, and of up to six that are all valid,     *)
(* with up to two diagnostics of whole lines, or one cut after two bytes,  *)
(* alone; and every pair out of a few logs, in every order of run, stream  *)
(* and score.                                                              *)
(***************************************************************************)
EXTENDS LogArtifacts

BytesUpTo(bytes, n) == UNION {[1 .. k -> bytes] : k \in 1 .. n}

LineRanges(data, scores) ==
  {r \in [start : LineStarts(data), end : LineEnds(data), score : scores] : r.start < r.end}

ALog(id, run, stream, data, items) ==
  [id |-> id, run |-> run, stream |-> stream, data |-> data, disclosed |-> TRUE, items |-> items]

(* A diagnostic of one line, cut after so many bytes.                      *)
CutRanges(data, n) ==
  {[start |-> s, end |-> s + n, score |-> 200] :
     s \in {s \in LineStarts(data) : s + n < Len(data) /\ s .. s + n - 1 \cap Newlines(data) = {}}}

AtMostTwo(S) == {{}} \cup {{s, t} : s, t \in S}

Alone ==
  UNION {{{ALog(1, 1, "stderr", d, i)} : i \in AtMostTwo(LineRanges(d, {200}))} : d \in BytesUpTo(Kinds, 4)}
    \cup UNION {{{ALog(1, 1, "stderr", d, {i})} : i \in LineRanges(d, {200})} : d \in BytesUpTo({"x", "nl"}, 6)}
    \cup UNION {{{ALog(1, 1, "stderr", d, {i})} : i \in CutRanges(d, 2)} : d \in BytesUpTo(Kinds, 4)}

Some(id) ==
  {[ALog(id, run, stream, d, i) EXCEPT !.disclosed = e] :
     <<run, stream, e>> \in {<<1, "stdout", TRUE>>, <<2, "stderr", TRUE>>, <<2, "stdout", FALSE>>},
     <<d, i>> \in {<<<<"x", "nl", "x">>, {}>>,
                   <<<<"cont", "nl", "cont">>, {[start |-> 0, end |-> 2, score |-> 300]}>>,
                   <<<<"x", "nl", "lead", "cont">>, {[start |-> 2, end |-> 4, score |-> 200]}>>,
                   <<<<>>, {}>>}}

(* Valid text only, so that nothing is lost to replacements.               *)
MCPlain ==
  UNION {{{ALog(1, 1, "stderr", d, {i})} : i \in LineRanges(d, {200})} : d \in BytesUpTo({"x", "nl"}, 5)}

MCBundles == {{}} \cup Alone \cup {{a, b} : a \in Some(1), b \in Some(2)}

MCProfileLimits == [artifacts : {1, 2}, bytes : 0 .. 5] \cup {[artifacts |-> 0, bytes |-> 2]}

=============================================================================
