------------------------------ MODULE FileProofs -----------------------------
(***************************************************************************)
(* Theorems about the two components that work on files others reach too:  *)
(* SecureFile, for any number of writers and of power failures, and        *)
(* SourceSnapshot, for every set of files, limit and number of changes by  *)
(* others.                                                                 *)
(*                                                                         *)
(* Publishing a file: what a writer holds is complete and on disk from the *)
(* step that publishes it on (WriterInv), and the destination, in memory   *)
(* or on disk, only ever names the inode of a published writer (NamesInv). *)
(*                                                                         *)
(* Reading one: when every write has a time of its own, a file whose       *)
(* modification time is that of the first inspection has not been written  *)
(* since, so that its content is the one the path named then, and what has *)
(* been read is a prefix of it.                                            *)
(***************************************************************************)
EXTENDS SecureFile, SourceSnapshot, TLAPS

Good(w) == content[w] = "whole" /\ synced[w] /\ ~ failed[w]

WriterInv(w) ==
  /\ pc[w] = "begin" => ~ entry[w]
  /\ pc[w] \in {"begin", "chmod", "write"} => ~ failed[w]
  /\ pc[w] = "sync" => failed[w] \/ content[w] = "whole"
  /\ pc[w] = "close" => failed[w] \/ Good(w)
  /\ pc[w] = "publish" => Good(w)
  /\ w \in published => Good(w) /\ pc[w] \in {"remove", "done", "dead"}
  /\ pc[w] = "remove" => result[w] = (IF w \in published THEN "ok" ELSE "error")
  /\ pc[w] = "done" /\ result[w] = "ok" => w \in published
  /\ pc[w] = "done" => result[w] \in {"ok", "error"}
  /\ outages = 0 /\ pc[w] = "done" /\ result[w] = "ok" => ~ entry[w]
  /\ outages = 0 /\ pc[w] = "done" /\ result[w] = "error" /\ w \in published => entry[w]

NamesInv == Writers \cap {destination, durable} \subseteq published

IInv == TypeOK /\ NamesInv /\ \A w \in Writers : WriterInv(w)

LEMMA InitIInv == Init => IInv
BY ConstantsAssumption DEF Init, IInv, TypeOK, NamesInv, WriterInv, Steps, Good

(* A step of one writer leaves the others' part of the invariant alone.    *)
LEMMA StepKeepsIInv ==
  ASSUME IInv, NEW w \in Writers, Step(w)
  PROVE  IInv'
<1> USE DEF IInv, TypeOK, At, Goto, Return, Leave, Steps
<1>1. TypeOK'
  <2>1. CASE CreateTemp(w)
    BY <2>1 DEF CreateTemp
  <2>2. CASE Chmod(w)
    BY <2>2 DEF Chmod
  <2>3. CASE Write(w)
    BY <2>3 DEF Write
  <2>4. CASE Sync(w)
    BY <2>4 DEF Sync
  <2>5. CASE Close(w)
    BY <2>5 DEF Close
  <2>6. CASE Publish(w)
    BY <2>6 DEF Publish, Rename, Link, Name
  <2>7. CASE Remove(w)
    BY <2>7 DEF Remove
  <2>8. QED
    BY <2>1, <2>2, <2>3, <2>4, <2>5, <2>6, <2>7 DEF Step
<1>2. NamesInv'
  BY DEF Step, NamesInv, CreateTemp, Chmod, Write, Sync, Close, Publish, Rename, Link, Name, Remove
<1>3. ASSUME NEW v \in Writers
      PROVE  WriterInv(v)'
  <2> USE DEF WriterInv, Good
  <2>1. CASE CreateTemp(w)
    BY <2>1 DEF CreateTemp
  <2>2. CASE Chmod(w)
    BY <2>2 DEF Chmod
  <2>3. CASE Write(w)
    BY <2>3 DEF Write
  <2>4. CASE Sync(w)
    BY <2>4 DEF Sync
  <2>5. CASE Close(w)
    BY <2>5 DEF Close
  <2>6. CASE Publish(w)
    BY <2>6 DEF Publish, Rename, Link, Name
  <2>7. CASE Remove(w)
    BY <2>7 DEF Remove
  <2>8. QED
    BY <2>1, <2>2, <2>3, <2>4, <2>5, <2>6, <2>7 DEF Step
<1>4. QED
  BY <1>1, <1>2, <1>3

LEMMA KillKeepsIInv ==
  ASSUME IInv, NEW w \in Writers, Kill(w)
  PROVE  IInv'
BY DEF IInv, TypeOK, NamesInv, WriterInv, Good, Kill, Active, Goto, Steps

LEMMA PowerFailureKeepsIInv ==
  ASSUME IInv, PowerFailure
  PROVE  IInv'
<1> USE DEF IInv, PowerFailure
<1>1. TypeOK' /\ outages' # 0
  BY ConstantsAssumption DEF TypeOK, Active
<1>2. NamesInv'
  BY DEF NamesInv
<1>3. ASSUME NEW w \in Writers
      PROVE  WriterInv(w)'
  <2>1. /\ pc'[w] = IF pc[w] \in Steps THEN "dead" ELSE pc[w]
        /\ synced[w] => content'[w] = content[w]
        /\ pc[w] \in Steps \cup {"done", "dead"}
    BY DEF TypeOK, Active
  <2>2. QED
    BY <1>1, <2>1 DEF WriterInv, Good, Steps
<1>4. QED
  BY <1>1, <1>2, <1>3

LEMMA NextKeepsIInv == IInv /\ [Next]_vars => IInv'
<1> SUFFICES ASSUME IInv, [Next]_vars
             PROVE  IInv'
  OBVIOUS
<1>1. CASE \E w \in Writers : Step(w) \/ Kill(w)
  BY <1>1, StepKeepsIInv, KillKeepsIInv
<1>2. CASE ForeignWrite
  BY <1>2, ConstantsAssumption DEF IInv, TypeOK, NamesInv, WriterInv, Good, ForeignWrite
<1>3. CASE WriteBack
  BY <1>3 DEF IInv, TypeOK, NamesInv, WriterInv, Good, WriteBack
<1>4. CASE PowerFailure
  BY <1>4, PowerFailureKeepsIInv
<1>5. CASE UNCHANGED vars
  BY <1>5 DEF vars, IInv, TypeOK, NamesInv, WriterInv, Good
<1>6. QED
  BY <1>1, <1>2, <1>3, <1>4, <1>5 DEF Next

THEOREM InductiveInvariant == Spec => []IInv
BY InitIInv, NextKeepsIInv, PTL DEF Spec

-----------------------------------------------------------------------------
(* The model's variables keep their types.                                 *)
THEOREM TypeCorrect == Spec => []TypeOK
BY InductiveInvariant, PTL DEF IInv

(* The destination is always a complete, synchronized file of a writer     *)
(* that met no error, also after a power failure (write.go:51-72).         *)
THEOREM PublishedWhole == Spec => []PublishedIsWhole
<1>1. IInv => PublishedIsWhole
  BY DEF IInv, NamesInv, WriterInv, Good, PublishedIsWhole
<1>2. QED
  BY <1>1, InductiveInvariant, PTL

(* Success and failure are reported as they happened (write.go:42-72).     *)
THEOREM ResultTrue == Spec => []ResultIsTrue
<1>1. IInv => ResultIsTrue
  BY DEF IInv, WriterInv, ResultIsTrue, At
<1>2. QED
  BY <1>1, InductiveInvariant, PTL

-----------------------------------------------------------------------------
(* The register.                                                           *)

LEMMA ShownIsNamed ==
  ASSUME IInv, IInv'
  PROVE  /\ Shown(destination) = destination /\ Shown(destination)' = destination'
         /\ Shown(durable) = durable /\ Shown(durable)' = durable'
BY DEF IInv, NamesInv, WriterInv, Good, Shown

LEMMA OutcomeOfOne ==
  ASSUME IInv, NEW w \in Writers, NEW step, pc' = [pc EXCEPT ![w] = step],
         \A v \in Writers \ {w} : result'[v] = result[v]
  PROVE  Outcome' = [Outcome EXCEPT ![w] = Outcome'[w]]
<1>1. \A v \in Writers \ {w} : pc'[v] = pc[v]
  BY DEF IInv, TypeOK
<1>2. \A v \in Writers \ {w} : Outcome'[v] = Outcome[v]
  BY <1>1 DEF Outcome, At
<1>3. DOMAIN Outcome = Writers /\ DOMAIN Outcome' = Writers
  BY DEF Outcome
<1>4. Outcome' = [v \in Writers |-> Outcome'[v]]
  BY DEF Outcome
<1>5. QED
  BY <1>2, <1>3, <1>4

LEMMA StepRefines ==
  ASSUME IInv, IInv', NEW w \in Writers, Step(w) \/ Kill(w)
  PROVE  [Register!Next]_(Register!vars)
<1> DEFINE Quiet == UNCHANGED <<mode, destination, durable, published>>
<1>1. /\ Shown(destination) = destination /\ Shown(destination)' = destination'
      /\ Shown(durable) = durable /\ Shown(durable)' = durable'
  BY ShownIsNamed
<1>2. Outcome[w] = "pending" /\ Outcome' = [Outcome EXCEPT ![w] = Outcome'[w]]
  <2>1. pc[w] \in Steps
    BY DEF Step, Kill, Active, CreateTemp, Chmod, Write, Sync, Close, Publish, Remove, At, Steps
  <2>2. \E step : pc' = [pc EXCEPT ![w] = step]
    BY DEF Step, Kill, CreateTemp, Chmod, Write, Sync, Close, Publish, Rename, Link, Name, Remove,
           Goto, Return, Leave
  <2>3. \A v \in Writers \ {w} : result'[v] = result[v]
    BY DEF IInv, TypeOK, Step, Kill, CreateTemp, Chmod, Write, Sync, Close, Publish, Rename, Link,
           Name, Remove, Goto, Return, Leave
  <2>4. QED
    BY <2>1, <2>2, <2>3, OutcomeOfOne DEF Outcome, At, Steps
<1>3. ASSUME Quiet, pc'[w] \in Steps
      PROVE  UNCHANGED Register!vars
  <2>1. Outcome'[w] = "pending"
    BY <1>3 DEF Outcome, At, Steps
  <2>2. Outcome' = Outcome
    BY <1>2, <2>1 DEF Outcome
  <2>3. QED
    BY <1>1, <1>3, <2>2 DEF Register!vars
<1>4. ASSUME Quiet, pc'[w] = "done", result'[w] = "error" \/ (w \in published /\ result'[w] = "ok")
      PROVE  Register!Return(w)
  <2>1. Outcome'[w] = result'[w]
    BY <1>4 DEF Outcome, At
  <2>2. QED
    BY <1>1, <1>2, <1>4, <2>1 DEF Register!Return
<1>5. CASE CreateTemp(w)
  <2>1. Quiet
    BY <1>5 DEF CreateTemp
  <2>2. pc'[w] \in Steps \/ (pc'[w] = "done" /\ result'[w] = "error")
    BY <1>5 DEF CreateTemp, Goto, Return, IInv, TypeOK, Steps
  <2>3. QED
    BY <1>3, <1>4, <2>1, <2>2 DEF Register!Next
<1>6. CASE Chmod(w) \/ Write(w) \/ Sync(w) \/ Close(w)
  <2>1. Quiet
    BY <1>6 DEF Chmod, Write, Sync, Close
  <2>2. pc'[w] \in Steps
    BY <1>6 DEF Chmod, Write, Sync, Close, Goto, Leave, IInv, TypeOK, Steps
  <2>3. QED
    BY <1>3, <2>1, <2>2
<1>7. CASE Publish(w)
  <2>1. pc'[w] = "remove"
    BY <1>7 DEF Publish, Rename, Link, Name, Leave, Goto, IInv, TypeOK
  <2>2. CASE Quiet
    BY <1>3, <2>1, <2>2 DEF Steps
  <2>3. CASE Rename(w) \/ Link(w)
    <3>1. Outcome' = Outcome
      BY <1>2, <2>1 DEF Outcome, At
    <3>2. w \notin published
      BY <1>7 DEF IInv, WriterInv, Publish, At
    <3>3. Register!Publish(w)
      BY <1>1, <1>2, <1>7, <2>3, <3>1, <3>2 DEF Register!Publish, Publish, Rename, Link, Name
    <3>4. QED
      BY <3>3 DEF Register!Next
  <2>4. QED
    BY <1>7, <2>2, <2>3 DEF Publish
<1>8. CASE Remove(w)
  <2>1. Quiet
    BY <1>8 DEF Remove
  <2>2. pc'[w] = "done" /\ (result'[w] = "error" \/ (w \in published /\ result'[w] = "ok"))
    BY <1>8 DEF Remove, Return, Goto, At, IInv, TypeOK, WriterInv
  <2>3. QED
    BY <1>4, <2>1, <2>2 DEF Register!Next
<1>9. CASE Kill(w)
  <2>1. Quiet /\ pc'[w] = "dead"
    BY <1>9 DEF Kill, Goto, IInv, TypeOK
  <2>2. Outcome'[w] = "dead"
    BY <2>1 DEF Outcome, At
  <2>3. Register!Die(w)
    BY <1>1, <1>2, <2>1, <2>2 DEF Register!Die
  <2>4. QED
    BY <2>3 DEF Register!Next
<1>10. QED
  BY <1>5, <1>6, <1>7, <1>8, <1>9 DEF Step

LEMMA PowerFailureRefines ==
  ASSUME IInv, IInv', PowerFailure
  PROVE  Register!Outage
<1>1. /\ Shown(destination)' = destination'
      /\ Shown(durable) = durable /\ Shown(durable)' = durable'
  BY ShownIsNamed
<1>2. ASSUME NEW w \in Writers
      PROVE  Outcome'[w] = IF Outcome[w] = "pending" THEN "dead" ELSE Outcome[w]
  BY DEF PowerFailure, IInv, TypeOK, WriterInv, Outcome, At, Active, Steps
<1>3. Outcome' = [w \in Writers |-> IF Outcome[w] = "pending" THEN "dead" ELSE Outcome[w]]
  BY <1>2 DEF Outcome
<1>4. QED
  BY <1>1, <1>3 DEF PowerFailure, Register!Outage

LEMMA NextRefines == IInv /\ IInv' /\ [Next]_vars => [Register!Next]_(Register!vars)
<1> SUFFICES ASSUME IInv, IInv', [Next]_vars
             PROVE  [Register!Next]_(Register!vars)
  OBVIOUS
<1>1. /\ Shown(destination) = destination /\ Shown(destination)' = destination'
      /\ Shown(durable) = durable /\ Shown(durable)' = durable'
  BY ShownIsNamed
<1>2. CASE \E w \in Writers : Step(w) \/ Kill(w)
  BY <1>2, StepRefines
<1>3. CASE ForeignWrite
  BY <1>1, <1>3 DEF ForeignWrite, Outcome, At, Register!Next, Register!Interfere
<1>4. CASE WriteBack
  BY <1>1, <1>4 DEF WriteBack, Outcome, At, Register!Next, Register!Persist
<1>5. CASE PowerFailure
  BY <1>5, PowerFailureRefines DEF Register!Next
<1>6. CASE UNCHANGED vars
  BY <1>6 DEF vars, Outcome, At, Shown, Register!vars
<1>7. QED
  BY <1>2, <1>3, <1>4, <1>5, <1>6 DEF Next

(* Any number of writers, killed or cut off at any step, act on the        *)
(* destination as on one atomic register of complete files                 *)
(* (write.go:25-73).                                                       *)
THEOREM ImplementsRegister == Spec => PublishesAtomically
<1>1. Init => Register!Init
  BY ConstantsAssumption DEF Init, Register!Init, Shown, Outcome, At
<1>2. QED
  BY <1>1, InductiveInvariant, NextRefines, PTL DEF Spec, Register!Spec, PublishesAtomically

(* Creating never takes the destination from an existing file              *)
(* (write.go:64-72).                                                       *)
THEOREM CreationIsExclusive == Spec => CreateNeverReplaces
<1>1. IInv /\ [Next]_vars =>
        [\A w \in Writers : mode[w] = "create" /\ destination' = w /\ destination # w
                            /\ outages' = outages => destination = None]_vars
  <2> SUFFICES ASSUME IInv, Next, NEW w \in Writers, mode[w] = "create", destination' = w,
                      destination # w, outages' = outages
               PROVE  destination = None
    BY DEF vars
  <2>1. ~ PowerFailure
    BY DEF PowerFailure, IInv, TypeOK
  <2>2. ~ ForeignWrite /\ ~ WriteBack
    BY ConstantsAssumption DEF ForeignWrite, WriteBack
  <2>3. PICK v \in Writers : Step(v) \/ Kill(v)
    BY <2>1, <2>2 DEF Next
  <2>4. QED
    BY <2>3 DEF Step, Kill, CreateTemp, Chmod, Write, Sync, Close, Publish, Rename, Link, Name, Remove
<1>2. QED
  BY <1>1, InductiveInvariant, PTL DEF Spec, CreateNeverReplaces

-----------------------------------------------------------------------------
(* SourceSnapshot.                                                         *)

Looking == {"open", "read", "stat", "close", "decide"}

PrefixOf(s, t) == Len(s) <= Len(t) /\ \A k \in 1 .. Len(s) : s[k] = t[k]

FileInv == phase \notin {"read", "stat", "close"} => opened = "none"

FreshInv ==
  exact /\ phase \in Looking =>
    /\ mtime[before.file] >= before.mtime
    /\ mtime[before.file] = before.mtime => text[before.file] \in shown

ReadInv ==
  /\ phase \in {"inspect", "open"} => data = <<>>
  /\ exact /\ phase \in {"read", "stat"} /\ mtime[before.file] = before.mtime =>
       PrefixOf(data, text[before.file])
  /\ exact /\ phase \in {"close", "decide"} /\ after.mtime = before.mtime /\ after.size = Len(data) =>
       data \in shown

ResultInv ==
  /\ phase # "done" => given = "none"
  /\ exact /\ given = "data" => data \in shown

SnapshotInv == SnapshotTypeOK /\ FileInv /\ FreshInv /\ ReadInv /\ ResultInv

(* The first write after an inspection gives its file a later time.        *)
LEMMA WriteTypes ==
  ASSUME SnapshotTypeOK, NEW f \in Files
  PROVE  /\ text[f] \in Seq(Blocks)
         /\ Append(text[f], Block(f, writes + 1)) \in Seq(Blocks)
         /\ \A k \in DOMAIN text[f] : [text[f] EXCEPT ![k] = Block(f, writes + 1)] \in Seq(Blocks)
         /\ <<>> \in Seq(Blocks)
<1>1. text[f] \in Seq(Blocks) /\ Block(f, writes + 1) \in Blocks
  BY DEF SnapshotTypeOK, Blocks, Block
<1> DEFINE c == text[f]  b == Block(f, writes + 1)
<1>2. Append(c, b) \in Seq(Blocks)
  <2> HIDE DEF c, b
  <2>1. c \in Seq(Blocks) /\ b \in Blocks
    BY <1>1 DEF c, b
  <2>2. QED
    BY <2>1
<1>3. ASSUME NEW k \in DOMAIN c
      PROVE  [c EXCEPT ![k] = b] \in Seq(Blocks)
  <2> HIDE DEF c, b
  <2>1. c \in Seq(Blocks) /\ b \in Blocks
    BY <1>1 DEF c, b
  <2>2. QED
    BY <2>1, <1>3
<1>4. <<>> \in Seq(Blocks)
  OBVIOUS
<1>5. QED
  BY <1>1, <1>2, <1>3, <1>4

(* Any write in place keeps the types and the freshness.                   *)
LEMMA WriteKeeps ==
  ASSUME SnapshotInv, NEW f \in Files, NEW c \in Seq(Blocks), WriteInPlace(f, c)
  PROVE  SnapshotInv'
<1> USE DEF SnapshotInv, SnapshotTypeOK, WriteInPlace
<1>1. clock' \in Nat /\ clock' >= clock /\ (exact => clock' = clock + 1)
  OBVIOUS
<1>2. Named(path, text') \subseteq Seq(Blocks)
  <2>1. text' \in [Files -> Seq(Blocks)]
    OBVIOUS
  <2>2. path.kind = "file" => path.file \in Files
    BY DEF Names, Gone
  <2>3. QED
    BY <2>1, <2>2 DEF Named
<1>3. SnapshotTypeOK'
  <2>1. /\ text' \in [Files -> Seq(Blocks)]
        /\ mtime' \in [Files -> Nat] /\ \A g \in Files : mtime'[g] <= clock'
    BY <1>1
  <2>2. writes' \in 0 .. MaxWrites /\ shown' \subseteq Seq(Blocks)
    <3>1. writes' \in 0 .. MaxWrites
      BY SnapshotAssumption
    <3>2. shown \subseteq Seq(Blocks) /\ shown' = shown \cup Named(path, text')
      OBVIOUS
    <3>3. QED
      BY <1>2, <3>1, <3>2
  <2>3. UNCHANGED <<exact, path, phase, before, opened, data, after, given, canceled>>
    OBVIOUS
  <2>4. QED
    BY <1>1, <2>1, <2>2, <2>3
<1>4. FreshInv'
  BY <1>1 DEF FreshInv, Looking
<1>5. ReadInv'
  BY <1>1, <1>4 DEF ReadInv, FreshInv, Looking
<1>6. FileInv' /\ ResultInv'
  BY DEF FileInv, ResultInv
<1>7. QED
  BY <1>3, <1>4, <1>5, <1>6

(* A part read is appended to what was read.                               *)
LEMMA ReadAppends ==
  ASSUME NEW s \in Seq(Blocks), NEW t \in Seq(Blocks), Len(s) <= Len(t), NEW n \in 1 .. Len(t) - Len(s)
  PROVE  /\ s \o SubSeq(t, Len(s) + 1, Len(s) + n) \in Seq(Blocks)
         /\ PrefixOf(s, t) => PrefixOf(s \o SubSeq(t, Len(s) + 1, Len(s) + n), t)
<1> DEFINE part == SubSeq(t, Len(s) + 1, Len(s) + n)
<1>1. part \in Seq(Blocks) /\ Len(part) = n /\ \A k \in 1 .. n : part[k] = t[Len(s) + k]
  OBVIOUS
<1>2. s \o part \in Seq(Blocks) /\ Len(s \o part) = Len(s) + n
  BY <1>1
<1>3. \A k \in 1 .. Len(s) + n : (s \o part)[k] = IF k <= Len(s) THEN s[k] ELSE part[k - Len(s)]
  BY <1>1
<1>4. ASSUME PrefixOf(s, t)
      PROVE  PrefixOf(s \o part, t)
  <2>1. \A k \in 1 .. Len(s) + n : (s \o part)[k] = t[k]
    <3>1. TAKE k \in 1 .. Len(s) + n
    <3>2. CASE k <= Len(s)
      BY <1>3, <1>4, <3>2 DEF PrefixOf
    <3>3. CASE k > Len(s)
      <4>1. k - Len(s) \in 1 .. n /\ Len(s) + (k - Len(s)) = k
        BY <3>3
      <4>2. QED
        BY <1>1, <1>3, <3>3, <4>1
    <3>4. QED
      BY <3>2, <3>3
  <2>2. QED
    BY <1>2, <2>1 DEF PrefixOf
<1>5. QED
  BY <1>2, <1>4

(* A prefix as long as the whole is the whole.                             *)
LEMMA WholePrefix ==
  ASSUME NEW s \in Seq(Blocks), NEW t \in Seq(Blocks), PrefixOf(s, t), Len(s) = Len(t)
  PROVE  s = t
BY DEF PrefixOf

(* The invariant holds at the start.                                       *)
LEMMA SnapshotStarts == SnapshotInit => SnapshotInv
<1>1. ASSUME SnapshotInit
      PROVE  SnapshotTypeOK
  <2>1. text \in [Files -> Seq(Blocks)]
    <3>1. PICK full \in SUBSET Files :
            text = [f \in Files |-> IF f \in full THEN <<Block(f, 0), Block(f, 0)>> ELSE <<>>]
      BY <1>1 DEF SnapshotInit
    <3>2. ASSUME NEW f \in Files
          PROVE  <<Block(f, 0), Block(f, 0)>> \in Seq(Blocks)
      <4>1. Block(f, 0) \in Blocks
        BY DEF Block, Blocks
      <4>2. QED
        BY <4>1
    <3>3. <<>> \in Seq(Blocks)
      OBVIOUS
    <3>4. QED
      BY <3>1, <3>2, <3>3
  <2>2. mtime \in [Files -> Nat] /\ \A f \in Files : mtime[f] <= clock
    BY <1>1 DEF SnapshotInit
  <2>3. data \in Seq(Blocks) /\ shown \subseteq Seq(Blocks)
    BY <1>1 DEF SnapshotInit
  <2>4. exact \in BOOLEAN /\ canceled \in BOOLEAN
    BY <1>1 DEF SnapshotInit
  <2>5. /\ clock \in Nat /\ writes \in 0 .. MaxWrites
        /\ path \in Names /\ opened \in Files \cup {"none"}
        /\ phase = "inspect" /\ given = "none"
    BY <1>1, SnapshotAssumption DEF SnapshotInit
  <2>6. QED
    BY <2>1, <2>2, <2>3, <2>4, <2>5 DEF SnapshotTypeOK
<1>2. SnapshotInit => FileInv /\ FreshInv /\ ReadInv /\ ResultInv
  BY DEF SnapshotInit, FileInv, FreshInv, ReadInv, ResultInv, Looking
<1>3. QED
  BY <1>1, <1>2 DEF SnapshotInv

(* The steps of the others.                                                *)
LEMMA OthersKeep ==
  ASSUME SnapshotInv, Others
  PROVE  SnapshotInv'
<1>1. ASSUME NEW f \in Files, Truncate(f)
      PROVE  SnapshotInv'
  BY <1>1, WriteTypes, WriteKeeps DEF Truncate, SnapshotInv
<1>2. ASSUME NEW f \in Files, Extend(f)
      PROVE  SnapshotInv'
  BY <1>2, WriteTypes, WriteKeeps DEF Extend, SnapshotInv
<1>3. ASSUME NEW f \in Files, NEW k \in DOMAIN text[f], Overwrite(f, k)
      PROVE  SnapshotInv'
  BY <1>3, WriteTypes, WriteKeeps DEF Overwrite, SnapshotInv
<1>4. ASSUME NEW name \in Names, Replace(name)
      PROVE  SnapshotInv'
  <2> USE DEF SnapshotInv, Replace
  <2>1. Named(name, text) \subseteq Seq(Blocks)
    BY DEF Named, Names, Gone, SnapshotTypeOK
  <2>2. SnapshotTypeOK'
    <3>1. shown' \subseteq Seq(Blocks) /\ path' \in Names /\ writes' \in 0 .. MaxWrites
      BY <1>4, <2>1, SnapshotAssumption DEF SnapshotTypeOK
    <3>2. UNCHANGED <<exact, clock, text, mtime, phase, before, opened, data, after, given, canceled>>
      BY <1>4
    <3>3. QED
      BY <3>1, <3>2 DEF SnapshotTypeOK
  <2>3. FileInv' /\ FreshInv' /\ ReadInv' /\ ResultInv'
    BY <1>4 DEF FileInv, FreshInv, ReadInv, ResultInv
  <2>4. QED
    BY <2>2, <2>3
<1>5. CASE Cancel
  BY <1>5 DEF Cancel, disk, SnapshotInv, SnapshotTypeOK, FileInv, FreshInv, ReadInv, ResultInv
<1>6. QED
  BY <1>1, <1>2, <1>3, <1>4, <1>5 DEF Others

(* The steps of the collector.                                             *)
LEMMA CollectorKeeps ==
  ASSUME SnapshotInv, Collector
  PROVE  SnapshotInv'
<1> USE DEF SnapshotInv, disk, Give
<1>1. CASE Inspect
  <2>1. path.kind = "file" => path.file \in Files
    BY DEF SnapshotTypeOK, Names, Gone
  <2>2. path.kind = "file" => text[path.file] \in Seq(Blocks) /\ mtime[path.file] \in Nat
    BY <2>1 DEF SnapshotTypeOK
  <2>3. SnapshotTypeOK'
    BY <1>1, <2>1, <2>2 DEF Inspect, SnapshotTypeOK, FileInv, Named
  <2>4. FreshInv'
    BY <1>1, <2>1, <2>2 DEF Inspect, FreshInv, Looking, Named, SnapshotTypeOK
  <2>5. FileInv' /\ ReadInv' /\ ResultInv'
    BY <1>1 DEF Inspect, FileInv, ReadInv, ResultInv
  <2>6. QED
    BY <2>3, <2>4, <2>5
<1>2. CASE Open
  <2>1. SnapshotTypeOK'
    BY <1>2 DEF Open, SnapshotTypeOK
  <2>2. FileInv' /\ FreshInv' /\ ResultInv'
    BY <1>2 DEF Open, FileInv, FreshInv, ResultInv, Looking
  <2>3. before.file \in Files => text[before.file] \in Seq(Blocks)
    BY DEF SnapshotTypeOK
  <2>4. ReadInv'
    BY <1>2, <2>3 DEF Open, ReadInv, PrefixOf, SnapshotTypeOK
  <2>5. QED
    BY <2>1, <2>2, <2>4
<1>3. CASE Read
  <2> USE DEF Read
  <2>1. /\ phase = "read" /\ opened = before.file /\ before.file \in Files
        /\ data \in Seq(Blocks) /\ text[opened] \in Seq(Blocks)
    BY <1>3 DEF SnapshotTypeOK
  <2>2. CASE phase' = "stat" /\ UNCHANGED data
    BY <1>3, <2>1, <2>2 DEF SnapshotTypeOK, FileInv, FreshInv, ReadInv, ResultInv, Looking
  <2>3. CASE \E n \in 1 .. Len(text[opened]) - Len(data) :
               /\ data' = data \o SubSeq(text[opened], Len(data) + 1, Len(data) + n)
               /\ UNCHANGED phase
    <3>1. PICK n \in 1 .. Len(text[opened]) - Len(data) :
            data' = data \o SubSeq(text[opened], Len(data) + 1, Len(data) + n) /\ UNCHANGED phase
      BY <2>3
    <3>2. data' \in Seq(Blocks) /\ (PrefixOf(data, text[opened]) => PrefixOf(data', text[opened]))
      <4> DEFINE s == data  t == text[opened]
      <4>1. s \in Seq(Blocks) /\ t \in Seq(Blocks) /\ n \in 1 .. Len(t) - Len(s) /\ Len(s) <= Len(t)
        BY <2>1
      <4> HIDE DEF s, t
      <4>2. /\ s \o SubSeq(t, Len(s) + 1, Len(s) + n) \in Seq(Blocks)
            /\ PrefixOf(s, t) => PrefixOf(s \o SubSeq(t, Len(s) + 1, Len(s) + n), t)
        BY <4>1, ReadAppends
      <4>3. QED
        BY <3>1, <4>2 DEF s, t
    <3>3. SnapshotTypeOK'
      BY <1>3, <3>1, <3>2 DEF SnapshotTypeOK
    <3>4. FileInv' /\ FreshInv' /\ ResultInv'
      BY <1>3, <2>1, <3>1 DEF FileInv, FreshInv, ResultInv, Looking
    <3>5. ReadInv'
      BY <1>3, <2>1, <3>1, <3>2 DEF ReadInv
    <3>6. QED
      BY <3>3, <3>4, <3>5
  <2>4. QED
    BY <1>3, <2>1, <2>2, <2>3
<1>4. CASE Stat
  <2> USE DEF Stat
  <2>1. /\ phase = "stat" /\ opened = before.file /\ before.file \in Files
        /\ data \in Seq(Blocks) /\ text[opened] \in Seq(Blocks) /\ mtime[opened] \in Nat
    BY <1>4 DEF SnapshotTypeOK
  <2>2. SnapshotTypeOK'
    BY <1>4, <2>1 DEF SnapshotTypeOK
  <2>3. FileInv' /\ FreshInv' /\ ResultInv'
    BY <1>4 DEF FileInv, FreshInv, ResultInv, Looking
  <2>4. ASSUME exact, mtime[opened] = before.mtime, Len(text[opened]) = Len(data)
        PROVE  data \in shown
    BY <2>1, <2>4, WholePrefix DEF ReadInv, FreshInv, Looking
  <2>5. ReadInv'
    BY <1>4, <2>4 DEF ReadInv
  <2>6. QED
    BY <2>2, <2>3, <2>5
<1>5. CASE CloseFile
  BY <1>5 DEF CloseFile, SnapshotTypeOK, FileInv, FreshInv, ReadInv, ResultInv, Looking
<1>6. CASE Decide
  <2>1. SnapshotTypeOK'
    BY <1>6 DEF Decide, SnapshotTypeOK
  <2>2. FileInv' /\ FreshInv' /\ ReadInv'
    BY <1>6 DEF Decide, FileInv, FreshInv, ReadInv, Looking
  <2>3. ResultInv'
    BY <1>6 DEF Decide, Stable, ReadInv, ResultInv
  <2>4. QED
    BY <2>1, <2>2, <2>3
<1>7. QED
  BY <1>1, <1>2, <1>3, <1>4, <1>5, <1>6 DEF Collector

(* The invariant is inductive.                                             *)
THEOREM SnapshotInvariance == SnapshotSpec => []SnapshotInv
<1>1. SnapshotInit => SnapshotInv
  BY SnapshotStarts
<1>2. SnapshotInv /\ UNCHANGED snapshot => SnapshotInv'
  BY DEF snapshot, SnapshotInv, SnapshotTypeOK, FileInv, FreshInv, ReadInv, ResultInv, Looking, PrefixOf
<1>3. SnapshotInv /\ [SnapshotNext]_snapshot => SnapshotInv'
  BY <1>2, OthersKeep, CollectorKeeps DEF SnapshotNext, Done
<1>4. QED
  BY <1>1, <1>3, PTL DEF SnapshotSpec

-----------------------------------------------------------------------------
(* Every variable of a collection keeps its type.                          *)
THEOREM SnapshotTypeCorrect == SnapshotSpec => []SnapshotTypeOK
<1>1. SnapshotInv => SnapshotTypeOK
  BY DEF SnapshotInv
<1>2. QED
  BY <1>1, SnapshotInvariance, PTL

(* With exact modification times the data returned is what the path named  *)
(* at one moment of the collection.                                        *)
THEOREM SnapshotIsPointInTime == SnapshotSpec => []PointInTime
<1>1. SnapshotInv => PointInTime
  BY DEF SnapshotInv, PointInTime, ResultInv
<1>2. QED
  BY <1>1, SnapshotInvariance, PTL

(* No file stays open.                                                     *)
THEOREM NothingStaysOpen == SnapshotSpec => []FileIsClosed
<1>1. SnapshotInv => FileIsClosed
  BY DEF SnapshotInv, FileIsClosed, FileInv
<1>2. QED
  BY <1>1, SnapshotInvariance, PTL

=============================================================================
