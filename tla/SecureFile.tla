----------------------------- MODULE SecureFile ------------------------------
(***************************************************************************)
(* Publication of one private file: writeAtomic of                         *)
(* internal/securefile/write.go, called by several processes at once for   *)
(* the same destination.  A writer fills a temporary file in the           *)
(* destination's directory, synchronizes and closes it, and then either    *)
(* links it to the destination (create) or renames it over it (replace).   *)
(*                                                                         *)
(* The file system is modelled from the calls the code makes: an inode per *)
(* writer, whose data survive a power failure only once synchronized, and  *)
(* directory entries, which reach the disk at some later time.  Names of   *)
(* temporary files are taken to be distinct (os.CreateTemp draws 32 random *)
(* bits and opens with O_EXCL).                                            *)
(*                                                                         *)
(* Operators named Bug... are deliberate mistakes no definition uses.      *)
(***************************************************************************)
EXTENDS Naturals

CONSTANTS
  Writers,   \* concurrent calls, each in a process of its own
  None,      \* no file
  Foreign,   \* a file made by somebody else
  MaxOutages \* bound on power failures

ASSUME ConstantsAssumption ==
  /\ None \notin Writers /\ Foreign \notin Writers /\ None # Foreign
  /\ MaxOutages \in Nat

VARIABLES
  mode,        \* per writer: "create" (WriteAtomic) or "replace" (WriteAtomicReplace)
  pc,          \* per writer: the call it is about to make
  content,     \* per writer: what its temporary inode holds
  synced,      \* per writer: Sync succeeded
  failed,      \* per writer: writing, synchronizing or closing failed
  entry,       \* per writer: its temporary name is in the directory
  result,      \* per writer: what writeAtomic returned
  destination, \* the file the destination names: None, Foreign or a writer's inode
  durable,     \* the file it names on disk
  published,   \* history: the writers whose inode the destination has named
  outages      \* power failures so far

vars == <<mode, pc, content, synced, failed, entry, result, destination, durable, published, outages>>

Steps == {"begin", "chmod", "write", "sync", "close", "publish", "remove"}

Init ==
  /\ mode \in [Writers -> {"create", "replace"}]
  /\ pc = [w \in Writers |-> "begin"]
  /\ content = [w \in Writers |-> "empty"]
  /\ synced = [w \in Writers |-> FALSE]
  /\ failed = [w \in Writers |-> FALSE]
  /\ entry = [w \in Writers |-> FALSE]
  /\ result = [w \in Writers |-> "none"]
  /\ destination \in {None, Foreign}
  /\ durable = destination
  /\ published = {}
  /\ outages = 0

-----------------------------------------------------------------------------
(* One writer.                                                             *)

At(w, step) == pc[w] = step
Goto(w, step) == pc' = [pc EXCEPT ![w] = step]

Return(w, outcome) ==
  /\ Goto(w, "done")
  /\ result' = [result EXCEPT ![w] = outcome]

(* From here the deferred removal runs before the call returns.            *)
Leave(w, outcome) ==
  /\ Goto(w, "remove")
  /\ result' = [result EXCEPT ![w] = outcome]

CreateTemp(w) ==
  /\ At(w, "begin")
  /\ \/ /\ Goto(w, "chmod")
        /\ entry' = [entry EXCEPT ![w] = TRUE]
        /\ UNCHANGED result
     \/ Return(w, "error") /\ UNCHANGED entry
  /\ UNCHANGED <<mode, content, synced, failed, destination, durable, published, outages>>

Chmod(w) ==
  /\ At(w, "chmod")
  /\ \/ Goto(w, "write") /\ UNCHANGED result
     \/ Leave(w, "error")
  /\ UNCHANGED <<mode, content, synced, failed, entry, destination, durable, published, outages>>

(* The callback may fail after any part of the output.                     *)
Write(w) ==
  /\ At(w, "write")
  /\ Goto(w, "sync")
  /\ \/ /\ content' = [content EXCEPT ![w] = "whole"]
        /\ UNCHANGED failed
     \/ /\ \E part \in {"empty", "partial", "whole"} : content' = [content EXCEPT ![w] = part]
        /\ failed' = [failed EXCEPT ![w] = TRUE]
  /\ UNCHANGED <<mode, synced, entry, result, destination, durable, published, outages>>

BugSkipSync(w) ==
  /\ At(w, "sync")
  /\ Goto(w, "close")
  /\ UNCHANGED <<mode, content, synced, failed, entry, result, destination, durable, published, outages>>

Sync(w) ==
  /\ At(w, "sync")
  /\ Goto(w, "close")
  /\ \/ synced' = [synced EXCEPT ![w] = TRUE] /\ UNCHANGED failed
     \/ failed' = [failed EXCEPT ![w] = TRUE] /\ UNCHANGED synced
  /\ UNCHANGED <<mode, content, entry, result, destination, durable, published, outages>>

BugCloseForgetsErrors(w) ==
  /\ At(w, "close")
  /\ \/ Goto(w, "publish") /\ UNCHANGED <<failed, result>>
     \/ failed' = [failed EXCEPT ![w] = TRUE] /\ Leave(w, "error")
  /\ UNCHANGED <<mode, content, synced, entry, destination, durable, published, outages>>

(* Close, and the joined errors of the three calls.                        *)
Close(w) ==
  /\ At(w, "close")
  /\ \/ ~ failed[w] /\ Goto(w, "publish") /\ UNCHANGED <<failed, result>>
     \/ failed[w] /\ Leave(w, "error") /\ UNCHANGED failed
     \/ failed' = [failed EXCEPT ![w] = TRUE] /\ Leave(w, "error")
  /\ UNCHANGED <<mode, content, synced, entry, destination, durable, published, outages>>

Name(w) ==
  /\ destination' = w
  /\ published' = published \cup {w}
  /\ Leave(w, "ok")

Rename(w) ==
  /\ mode[w] = "replace"
  /\ Name(w)
  /\ entry' = [entry EXCEPT ![w] = FALSE]

BugLinkOverwrites(w) ==
  /\ mode[w] = "create"
  /\ Name(w)
  /\ UNCHANGED entry

(* Link fails where the name exists.                                       *)
Link(w) ==
  /\ mode[w] = "create"
  /\ destination = None
  /\ Name(w)
  /\ UNCHANGED entry

Publish(w) ==
  /\ At(w, "publish")
  /\ \/ Rename(w)
     \/ Link(w)
     \/ Leave(w, "error") /\ UNCHANGED <<destination, published, entry>>
  /\ UNCHANGED <<mode, content, synced, failed, durable, outages>>

BugIgnoreRemoveError(w) ==
  /\ At(w, "remove")
  /\ Goto(w, "done")
  /\ entry' \in {entry, [entry EXCEPT ![w] = FALSE]}
  /\ UNCHANGED <<mode, content, synced, failed, result, destination, durable, published, outages>>

(* A name that is already gone is no error; any other failure of the       *)
(* removal is joined to the result.                                        *)
Remove(w) ==
  /\ At(w, "remove")
  /\ \/ Return(w, result[w]) /\ entry' = [entry EXCEPT ![w] = FALSE]
     \/ entry[w] /\ Return(w, "error") /\ UNCHANGED entry
  /\ UNCHANGED <<mode, content, synced, failed, destination, durable, published, outages>>

Step(w) ==
  \/ CreateTemp(w) \/ Chmod(w) \/ Write(w) \/ Sync(w) \/ Close(w) \/ Publish(w) \/ Remove(w)

-----------------------------------------------------------------------------
(* The environment.                                                        *)

Active(w) == pc[w] \in Steps

(* The process is killed: nothing deferred runs.                           *)
Kill(w) ==
  /\ Active(w)
  /\ Goto(w, "dead")
  /\ UNCHANGED <<mode, content, synced, failed, entry, result, destination, durable, published, outages>>

ForeignWrite ==
  /\ destination' = IF destination = None THEN Foreign ELSE None
  /\ UNCHANGED <<mode, pc, content, synced, failed, entry, result, durable, published, outages>>

WriteBack ==
  /\ durable' = destination
  /\ UNCHANGED <<mode, pc, content, synced, failed, entry, result, destination, published, outages>>

(* What was not synchronized may be lost, in any part; temporary names may *)
(* be lost or, once removed, come back.                                    *)
PowerFailure ==
  /\ outages < MaxOutages
  /\ outages' = outages + 1
  /\ pc' = [w \in Writers |-> IF Active(w) THEN "dead" ELSE pc[w]]
  /\ content' \in {c \in [Writers -> {"empty", "partial", "whole"}] :
                     \A w \in Writers : synced[w] \/ content[w] = "empty" => c[w] = content[w]}
  /\ entry' \in {e \in [Writers -> BOOLEAN] : \A w \in Writers : pc[w] = "begin" => ~ e[w]}
  /\ destination' = durable
  /\ UNCHANGED <<mode, synced, failed, result, durable, published>>

Next ==
  \/ \E w \in Writers : Step(w) \/ Kill(w)
  \/ ForeignWrite \/ WriteBack \/ PowerFailure

Spec == Init /\ [][Next]_vars

-----------------------------------------------------------------------------
TypeOK ==
  /\ mode \in [Writers -> {"create", "replace"}]
  /\ pc \in [Writers -> Steps \cup {"done", "dead"}]
  /\ content \in [Writers -> {"empty", "partial", "whole"}]
  /\ synced \in [Writers -> BOOLEAN]
  /\ failed \in [Writers -> BOOLEAN]
  /\ entry \in [Writers -> BOOLEAN]
  /\ result \in [Writers -> {"none", "ok", "error"}]
  /\ destination \in {None, Foreign} \cup Writers
  /\ durable \in {None, Foreign} \cup Writers
  /\ published \subseteq Writers
  /\ outages \in 0 .. MaxOutages

(* Whoever reads the destination, now or after a power failure, reads a    *)
(* complete file of a writer that met no error up to its publication,      *)
(* never a part of one (write.go:51-56).                                   *)
PublishedIsWhole ==
  \A w \in Writers \cap {destination, durable} :
    content[w] = "whole" /\ synced[w] /\ ~ failed[w]

(* A writer that was told to create never takes the destination from a     *)
(* file that is there, whatever other writers and users do between its     *)
(* steps (write.go:64-72).                                                 *)
CreateNeverReplaces ==
  [][\A w \in Writers :
       mode[w] = "create" /\ destination' = w /\ destination # w /\ outages' = outages
         => destination = None]_vars

(* The result tells the truth: success means that the file was published,  *)
(* and an error that it was not, with one exception, a published file      *)
(* whose temporary name could not be removed.  Only that failure, a kill   *)
(* or a power failure leaves a temporary file (write.go:42-72).            *)
ResultIsTrue ==
  \A w \in Writers :
    At(w, "done") =>
      /\ result[w] = "ok" => w \in published
      /\ outages = 0 /\ result[w] = "ok" => ~ entry[w]
      /\ outages = 0 /\ result[w] = "error" /\ w \in published => entry[w]

-----------------------------------------------------------------------------
(* Concurrent writers implement one atomic register.                       *)

Outcome ==
  [w \in Writers |-> CASE At(w, "done") -> result[w]
                       [] At(w, "dead") -> "dead"
                       [] OTHER -> "pending"]

(* A destination that names an incomplete file shows nothing the register  *)
(* could hold.                                                             *)
Shown(file) == IF file \in Writers THEN IF content[file] = "whole" THEN file ELSE <<"torn", file>> ELSE file

Register == INSTANCE AtomicPublish
  WITH shown <- Shown(destination), kept <- Shown(durable), outcome <- Outcome

PublishesAtomically == Register!Spec

=============================================================================
