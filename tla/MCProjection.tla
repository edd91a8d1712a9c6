----------------------------- MODULE MCProjection ----------------------------
(***************************************************************************)
(* Bundles with items of three classes and of none, up to two logs with a  *)
(* diagnostic range each, a source snapshot, notices and findings that     *)
(* name some of them; profiles with limits that one item more or one byte  *)
(* more exceeds.  A line takes at most two bytes, and a range shows at     *)
(* most three lines of four bytes together.                                *)
(***************************************************************************)
EXTENDS Projection

L(part, size) == [part |-> part, size |-> size, control |-> FALSE]

Item(id, c, useful, size) == [id |-> id, class |-> c, useful |-> useful, size |-> size]
Meta  == Item("m1", "metadata", TRUE, 1)
ItemSets == {
  {Meta, Item("c1", "command", TRUE, 2), Item("m2", "metadata", FALSE, 9)},
  {Meta, Item("m3", "metadata", TRUE, 2), Item("p1", "path", TRUE, 1), Item("o1", "local_only", TRUE, 1)},
  {Item("m2", "metadata", FALSE, 1), Item("c1", "command", TRUE, 1)}}

Log(id, eligible) == [id |-> id, eligible |-> eligible]
Logs == {{}, {Log("l1", TRUE)}, {Log("l1", TRUE), Log("l2", TRUE)}, {Log("l1", FALSE)}}

(* What the lines of a range may be, by format.                            *)
Formats == {
  <<"jvm_exception", <<L("head", 2), L("frame", 1), L("cause", 1), L("frame", 1)>>>>,
  <<"python_traceback", <<L("detail", 1), L("head", 2), L("detail", 2), L("head", 1)>>>>,
  <<"python_syntax", <<L("head", 3), L("blank", 0), L("head", 1)>>>>,
  <<"causal_message", <<L("blank", 0), L("text", 1)>>>>,
  <<"go_panic", <<L("text", 1), L("head", 2)>>>>}

LogRange(id, log, f) == [id |-> id, log |-> log, format |-> f[1], lines |-> f[2]]

Snapshots == {{}} \cup {{[id |-> "s1", mismatch |-> b, size |-> 2]} : b \in BOOLEAN}

Notice(code, ids)   == [code |-> code, affects |-> ids]
Finding(id, target, support, against) == [id |-> id, target |-> target, support |-> support, against |-> against]

Bundle(matches, redaction, items, logs, f, sources) ==
  [matches |-> matches, redaction |-> redaction, items |-> items, logs |-> logs,
   ranges |-> {LogRange("r" \o l.id, l.id, f) : l \in logs}, sources |-> sources,
   notices |-> {Notice("redacted", {"m1", "l1", "rl1"}), Notice("dropped", {"c1", "o1", "s1"})},
   findings |-> {Finding("f1", FALSE, {"m1", "c1"}, {"o1"}), Finding("f2", TRUE, {"l1"}, {}),
                 Finding("f3", FALSE, {"o1", "s1"}, {"m1"})}]

(* A causal message coloured on a terminal, as the evaluation corpus has   *)
(* one (devel/evaluationfixtures/corpus.go:196-198).                       *)
MCColoured ==
  {[Bundle(TRUE, TRUE, {Meta}, l, <<"causal_message", <<[L("text", 1) EXCEPT !.control = b]>>>>, {})
      EXCEPT !.notices = {}] : b \in BOOLEAN, l \in Logs}

Unmatched == Bundle(FALSE, TRUE, {Meta}, {}, CHOOSE f \in Formats : TRUE, {})

MCEvidence ==
  {Unmatched} \cup {Bundle(TRUE, TRUE, i, l, f, s) : i \in ItemSets, l \in Logs, f \in Formats, s \in Snapshots}
    \cup {Bundle(m, r, i, l, CHOOSE f \in Formats : TRUE, {}) : m, r \in BOOLEAN, i \in ItemSets, l \in Logs}
    \cup {[Bundle(TRUE, TRUE, i, {}, CHOOSE f \in Formats : TRUE, {}) EXCEPT !.findings = {}] : i \in ItemSets}
    \cup MCColoured

Limit(count, bytes) == [count |-> count, bytes |-> bytes]

Narrow == [c \in {"metadata"} |-> Limit(1, 1)]

MCProfiles == {
  Narrow,
  [c \in Classes |-> Limit(2, 3)],
  [c \in Classes |-> Limit(1, 2)],
  [c \in {"metadata", "command"} |-> Limit(2, 2)],
  [c \in {"metadata", "log_content", "source_content"} |-> Limit(1, 1)]}

=============================================================================
