------------------------------- MODULE MCFiles -------------------------------
(***************************************************************************)
(* The file a report is published in and the source file that is read for  *)
(* it, both under the hands of other processes.  Each is explored from all *)
(* its beginnings while nothing happens at the other.                      *)
(*                                                                         *)
(* Two processes publish, of either kind, with one power failure; they are *)
(* interchangeable.  So are the two source files, of up to three blocks, of *)
(* which two are accepted, with three changes by others.                   *)
(***************************************************************************)
EXTENDS SecureFile, SourceSnapshot, TLC

MCSymmetry == Permutations(Writers) \cup Permutations(Files)

(* No writer has begun.                                                    *)
NobodyWrites ==
  /\ mode = [w \in Writers |-> "create"] /\ pc = [w \in Writers |-> "begin"]
  /\ content = [w \in Writers |-> "empty"]
  /\ synced = [w \in Writers |-> FALSE] /\ failed = synced /\ entry = synced
  /\ result = [w \in Writers |-> "none"]
  /\ destination = None /\ durable = None
  /\ published = {} /\ outages = 0

(* There was no source file.                                               *)
NobodyReads ==
  /\ exact = TRUE /\ clock = 1 /\ path = Gone
  /\ text = [f \in Files |-> <<>>] /\ mtime = [f \in Files |-> 0] /\ writes = 0
  /\ phase = "done" /\ given = "error"
  /\ before = Gone /\ opened = "none" /\ data = <<>> /\ after = Gone
  /\ canceled = FALSE /\ shown = {}

MCInit ==
  \/ Init /\ NobodyReads
  \/ NobodyWrites /\ SnapshotInit

MCNext ==
  \/ NobodyReads /\ Next /\ UNCHANGED snapshot
  \/ NobodyWrites /\ SnapshotNext /\ UNCHANGED vars

MCSpec == MCInit /\ [][MCNext]_<<vars, snapshot>>
=============================================================================
