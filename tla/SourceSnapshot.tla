---------------------------- MODULE SourceSnapshot ---------------------------
(***************************************************************************)
(* Reading one source file while others work on it (readSource,            *)
(* inspectSource, openStableSource and stableSourceRead of                 *)
(* internal/sourcecontext/collector.go).                                   *)
(*                                                                         *)
(* The collector inspects the path, opens it, reads it in several calls,   *)
(* inspects the open file and the path again, and keeps the data only if   *)
(* the same file was there throughout, with one modification time and the  *)
(* size of what was read.  The model asks what that guarantees.            *)
(*                                                                         *)
(* A file is a sequence of blocks, a block is <<file, number of write>>;   *)
(* text and hashes are left out.  File identities are not reused and       *)
(* nobody sets a modification time back.  Opening a named pipe, which may  *)
(* block, is not modelled.                                                 *)
(* Operators named Bug... are deliberate mistakes no definition uses.      *)
(***************************************************************************)
EXTENDS Naturals, Sequences

CONSTANTS
  Files,      \* identities of regular files
  Limit,      \* blocks the collector accepts
  MaxWrites   \* bound: changes others make

ASSUME SnapshotAssumption == Limit \in Nat \ {0} /\ MaxWrites \in Nat

Gone == [kind |-> "gone"]
Names == {Gone} \cup [kind : {"file", "link"}, file : Files]

VARIABLES
  exact,     \* every write gets a modification time of its own
  clock,
  path,      \* what the path names: a file, a symbolic link to one, nothing
  text,      \* per file
  mtime,     \* per file
  writes,    \* writes so far
  phase,     \* where the collector is
  before,    \* the first inspection: the file and its modification time
  opened,    \* the file it has open, or "none"
  data,      \* what it has read
  after,     \* the inspection of the open file: identity, modification time, size
  given,     \* "none", "data" or "error"
  canceled,  \* the context is done
  shown      \* history: contents the path named since the first inspection

snapshot == <<exact, clock, path, text, mtime, writes, phase, before, opened, data, after, given, canceled, shown>>

disk == <<exact, clock, path, text, mtime, writes>>

Block(f, n) == <<f, n>>

SnapshotInit ==
  /\ exact \in BOOLEAN
  /\ clock = 1
  /\ path \in Names
  /\ \E full \in SUBSET Files :
       text = [f \in Files |-> IF f \in full THEN <<Block(f, 0), Block(f, 0)>> ELSE <<>>]
  /\ mtime \in [Files -> {0, 1}]
  /\ writes = 0
  /\ phase = "inspect"
  /\ before = Gone
  /\ opened = "none"
  /\ data = <<>>
  /\ after = Gone
  /\ given = "none"
  /\ canceled = FALSE
  /\ shown = {}

-----------------------------------------------------------------------------
(* Everybody else.                                                         *)

Named(p, c) == IF p.kind = "file" THEN {c[p.file]} ELSE {}

(* A write in place; with exact times the clock moves on with each.        *)
WriteInPlace(f, c) ==
  /\ writes < MaxWrites
  /\ writes' = writes + 1
  /\ clock' \in IF exact THEN {clock + 1} ELSE {clock, clock + 1}
  /\ text' = [text EXCEPT ![f] = c]
  /\ mtime' = [mtime EXCEPT ![f] = clock']
  /\ shown' = shown \cup Named(path, text')
  /\ UNCHANGED <<exact, path, phase, before, opened, data, after, given, canceled>>

Truncate(f) == text[f] # <<>> /\ WriteInPlace(f, <<>>)

Overwrite(f, k) == WriteInPlace(f, [text[f] EXCEPT ![k] = Block(f, writes + 1)])

Extend(f) == Len(text[f]) <= Limit /\ WriteInPlace(f, Append(text[f], Block(f, writes + 1)))

(* Another file is renamed onto the path, a link put there, or the name    *)
(* removed.                                                                *)
Replace(name) ==
  /\ writes < MaxWrites
  /\ writes' = writes + 1
  /\ path' = name
  /\ shown' = shown \cup Named(name, text)
  /\ UNCHANGED <<exact, clock, text, mtime, phase, before, opened, data, after, given, canceled>>

Cancel ==
  /\ ~ canceled
  /\ canceled' = TRUE
  /\ UNCHANGED <<disk, phase, before, opened, data, after, given, shown>>

Others ==
  \/ \E f \in Files : Truncate(f) \/ Extend(f) \/ \E k \in DOMAIN text[f] : Overwrite(f, k)
  \/ \E name \in Names : Replace(name)
  \/ Cancel

-----------------------------------------------------------------------------
(* The collector.                                                          *)

Give(outcome) == phase' = "done" /\ given' = outcome

Inspect ==
  /\ phase = "inspect"
  /\ IF path.kind = "file" /\ text[path.file] # <<>> /\ Len(text[path.file]) <= Limit
     THEN /\ before' = [file |-> path.file, mtime |-> mtime[path.file]]
          /\ shown' = Named(path, text)
          /\ phase' = "open"
          /\ UNCHANGED given
     ELSE Give("error") /\ UNCHANGED <<before, shown>>
  /\ UNCHANGED <<disk, opened, data, after, canceled>>

BugLeaveOpen ==
  /\ phase = "open"
  /\ IF path = Gone
     THEN Give("error") /\ UNCHANGED opened
     ELSE /\ opened' = path.file
          /\ IF path.file = before.file THEN phase' = "read" /\ UNCHANGED given ELSE Give("error")
  /\ UNCHANGED <<disk, before, data, after, canceled, shown>>

(* Opening follows a link; another file than the inspected one is closed.  *)
Open ==
  /\ phase = "open"
  /\ IF path = Gone \/ path.file # before.file
     THEN Give("error") /\ UNCHANGED opened
     ELSE opened' = path.file /\ phase' = "read" /\ UNCHANGED given
  /\ UNCHANGED <<disk, before, data, after, canceled, shown>>

(* One read call; the last one finds the end, or passes the limit.         *)
Read ==
  /\ phase = "read"
  /\ LET rest == Len(text[opened]) - Len(data) IN
     IF rest > 0 /\ Len(data) <= Limit
     THEN \E n \in 1 .. rest :
            /\ Len(data) + n <= Limit + 1
            /\ data' = data \o SubSeq(text[opened], Len(data) + 1, Len(data) + n)
            /\ UNCHANGED phase
     ELSE phase' = "stat" /\ UNCHANGED data
  /\ UNCHANGED <<disk, before, opened, after, given, canceled, shown>>

Stat ==
  /\ phase = "stat"
  /\ after' = [file |-> opened, mtime |-> mtime[opened], size |-> Len(text[opened])]
  /\ phase' = "close"
  /\ UNCHANGED <<disk, before, opened, data, given, canceled, shown>>

(* The file is closed; a read or close that failed ends the collection.    *)
CloseFile ==
  /\ phase = "close"
  /\ opened' = "none"
  /\ \/ phase' = "decide" /\ UNCHANGED given
     \/ Give("error")
  /\ UNCHANGED <<disk, before, data, after, canceled, shown>>

BugSizeOnly ==
  /\ after.file = before.file
  /\ path.kind = "file" /\ path.file = after.file
  /\ after.size = Len(data)

(* stableSourceRead, with what the path names now.                         *)
Stable ==
  /\ after.file = before.file
  /\ path.kind = "file" /\ path.file = after.file
  /\ after.size = Len(data)
  /\ after.mtime = before.mtime

Decide ==
  /\ phase = "decide"
  /\ Give(IF Stable /\ data # <<>> /\ Len(data) <= Limit /\ ~ canceled THEN "data" ELSE "error")
  /\ UNCHANGED <<disk, before, opened, data, after, canceled, shown>>

Collector == Inspect \/ Open \/ Read \/ Stat \/ CloseFile \/ Decide

Done == phase = "done" /\ UNCHANGED snapshot

SnapshotNext == Collector \/ Others \/ Done

SnapshotSpec == SnapshotInit /\ [][SnapshotNext]_snapshot

-----------------------------------------------------------------------------
Blocks == Files \X Nat

SnapshotTypeOK ==
  /\ exact \in BOOLEAN
  /\ clock \in Nat /\ writes \in 0 .. MaxWrites
  /\ path \in Names
  /\ text \in [Files -> Seq(Blocks)]
  /\ mtime \in [Files -> Nat] /\ \A f \in Files : mtime[f] <= clock
  /\ phase \in {"inspect", "open", "read", "stat", "close", "decide", "done"}
  /\ phase \notin {"inspect", "done"} => before \in [file : Files, mtime : Nat]
  /\ opened \in Files \cup {"none"}
  /\ phase \in {"read", "stat", "close"} => opened = before.file
  /\ data \in Seq(Blocks)
  /\ phase \in {"close", "decide"} => after \in [file : Files, mtime : Nat, size : Nat]
  /\ given \in {"none", "data", "error"}
  /\ canceled \in BOOLEAN
  /\ shown \subseteq Seq(Blocks)

(* With exact modification times the data returned is a point-in-time      *)
(* snapshot: the path named a regular file with just this content at one   *)
(* moment of the collection (collector.go:57-58, 269-299).                 *)
PointInTime == exact /\ given = "data" => data \in shown

(* No file stays open.                                                     *)
FileIsClosed == phase = "done" => opened = "none"

=============================================================================
