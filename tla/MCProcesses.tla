----------------------------- MODULE MCProcesses -----------------------------
(***************************************************************************)
(* The two places where the program waits for goroutines of its own: a     *)
(* request to a provider command, and the progress line.  Each is explored *)
(* from all its beginnings while the other has ended in one of the ways it *)
(* can end.                                                                *)
(*                                                                         *)
(* Of the request, one unit of standard output fits the buffer and none of *)
(* standard error; two units do not fit the pipe, three are refused.  The  *)
(* phases of an augmented diagnosis end in every way: the provider fails,  *)
(* answers, or answers what does not contribute.                           *)
(***************************************************************************)
EXTENDS CommandBridge, Progress

MCLimit   == [stdout |-> 1, stderr |-> 0]
MCEndings == {<<"fallback">>, <<"validating">>, <<"validating", "fallback">>}

(* A request that did not verify.                                          *)
RequestRefused ==
  /\ caller = "done" /\ ctx = "live" /\ result = "invalid_request" /\ err = "none"
  /\ leader = "none" /\ helper = "none" /\ holds = FALSE
  /\ unfed = 1 /\ input = 0
  /\ written = [s \in Streams |-> 0] /\ pipe = written /\ kept = written
  /\ exceeded = [s \in Streams |-> FALSE]
  /\ copier = [s \in Streams |-> "copying"]

(* Evidence that could not be collected.                                   *)
CollectionFailed ==
  /\ kind = "plain" /\ main = "returned" /\ outcome = "failed"
  /\ said = <<"collecting">> /\ printed = said
  /\ closed = TRUE /\ explicit = FALSE /\ reported = FALSE
  /\ spinner = "gone" /\ phase = "collecting" /\ visible = FALSE /\ delayArmed = FALSE
  /\ writeErr = FALSE /\ finished = "empty" /\ line = "blank"

MCInit ==
  \/ Init /\ CollectionFailed
  \/ RequestRefused /\ ProgressInit

MCNext ==
  \/ Next /\ UNCHANGED progressVars
  \/ ProgressNext /\ UNCHANGED vars

MCSpec == MCInit /\ [][MCNext]_<<vars, progressVars>> /\ Fairness /\ ProgressFairness
=============================================================================
