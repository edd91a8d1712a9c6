---------------------------- MODULE CommandBridge ----------------------------
(***************************************************************************)
(* One request to a provider command (provider/commandbridge/command.go).  *)
(*                                                                         *)
(* The adapter starts the command as the leader of a process group, feeds  *)
(* it the request, and copies its two output streams into buffers that     *)
(* keep a limited part and take the rest.  The command may start a helper  *)
(* that inherits its streams, in the group or outside it.  When the        *)
(* context is done, the group is killed.  Once the leader has ended, the   *)
(* copiers get WaitDelay before their pipes are closed.                    *)
(*                                                                         *)
(* The feeder, the copiers and the watcher of the context are goroutines   *)
(* of os/exec, external to the repository.  The command and its helper may *)
(* do anything, and may stop doing anything.                               *)
(* Operators named Bug... are deliberate mistakes no definition uses.      *)
(***************************************************************************)
EXTENDS Naturals

CONSTANTS
  InputSize,   \* bound: size of an encoded request
  InputLimit,  \* the largest request accepted
  PipeSize,    \* what a pipe holds
  Limit,       \* per stream: what its buffer keeps
  MaxWritten   \* bound: what the processes write to one stream

Streams == {"stdout", "stderr"}

ASSUME BridgeAssumption ==
  /\ InputSize \in Nat \ {0} /\ InputLimit \in Nat /\ MaxWritten \in Nat
  /\ PipeSize \in Nat \ {0}
  /\ Limit \in [Streams -> Nat]

VARIABLES
  caller,    \* "start", "wait", "reaped", "join", "done"
  ctx,       \* "live", "canceled" or "deadline"
  leader,    \* "none", "running", "ok", "bad" or "killed"
  helper,    \* "none", "grouped", "escaped" or "gone"
  holds,     \* the helper has the streams open
  unfed,     \* part of the request not yet in the pipe
  input,     \* part of the request in the pipe
  written,   \* per stream: what the processes wrote
  pipe,      \* per stream: what the pipe holds
  kept,      \* per stream: what the buffer holds
  exceeded,  \* per stream: the buffer was given more than it keeps
  copier,    \* per stream: "copying", "eof" or "cut"
  err,       \* error of Run: "none", "start", "exit", "context" or "delay"
  result     \* "none", "answer" or a failure code

vars == <<caller, ctx, leader, helper, holds, unfed, input, written, pipe, kept, exceeded, copier, err, result>>

processes == <<leader, helper, holds>>
streams   == <<unfed, input, written, pipe, kept, exceeded, copier>>

Init ==
  /\ caller = "start"
  /\ ctx = "live"
  /\ leader = "none"
  /\ helper = "none"
  /\ holds = FALSE
  /\ unfed \in 1 .. InputSize
  /\ input = 0
  /\ written = [s \in Streams |-> 0]
  /\ pipe = [s \in Streams |-> 0]
  /\ kept = [s \in Streams |-> 0]
  /\ exceeded = [s \in Streams |-> FALSE]
  /\ copier = [s \in Streams |-> "copying"]
  /\ err = "none"
  /\ result = "none"

GroupAlive == leader = "running" \/ helper = "grouped"
Open       == leader = "running" \/ holds     \* someone else has the streams
Over       == leader \in {"ok", "bad", "killed"}

-----------------------------------------------------------------------------
(* The command and its helper.                                             *)

ReadInput ==
  /\ Open
  /\ input > 0
  /\ input' = input - 1
  /\ UNCHANGED <<caller, ctx, processes, unfed, written, pipe, kept, exceeded, copier, err, result>>

WriteOutput(s) ==
  /\ Open
  /\ pipe[s] < PipeSize
  /\ written[s] < MaxWritten
  /\ copier[s] # "cut"
  /\ written' = [written EXCEPT ![s] = @ + 1]
  /\ pipe' = [pipe EXCEPT ![s] = @ + 1]
  /\ UNCHANGED <<caller, ctx, processes, unfed, input, kept, exceeded, copier, err, result>>

Fork(where) ==
  /\ leader = "running"
  /\ helper = "none"
  /\ helper' = where
  /\ holds' \in BOOLEAN
  /\ UNCHANGED <<caller, ctx, leader, streams, err, result>>

CloseStreams ==
  /\ holds
  /\ holds' = FALSE
  /\ UNCHANGED <<caller, ctx, leader, helper, streams, err, result>>

HelperEnds ==
  /\ helper \in {"grouped", "escaped"}
  /\ helper' = "gone"
  /\ holds' = FALSE
  /\ UNCHANGED <<caller, ctx, leader, streams, err, result>>

LeaderEnds(how) ==
  /\ leader = "running"
  /\ leader' = how
  /\ UNCHANGED <<caller, ctx, helper, holds, streams, err, result>>

-----------------------------------------------------------------------------
(* The goroutines of the command.                                          *)

Running == caller \in {"wait", "reaped", "join"}

Feed ==
  /\ Running
  /\ unfed > 0
  /\ IF Open THEN /\ input < PipeSize
                  /\ unfed' = unfed - 1 /\ input' = input + 1
             ELSE unfed' = 0 /\ UNCHANGED input     \* a broken pipe is no error
  /\ UNCHANGED <<caller, ctx, processes, written, pipe, kept, exceeded, copier, err, result>>

BugShortWrite(s) ==
  /\ Running
  /\ copier[s] = "copying"
  /\ pipe[s] > 0
  /\ pipe' = [pipe EXCEPT ![s] = @ - 1]
  /\ IF kept[s] < Limit[s]
     THEN kept' = [kept EXCEPT ![s] = @ + 1] /\ UNCHANGED <<exceeded, copier>>
     ELSE /\ exceeded' = [exceeded EXCEPT ![s] = TRUE]
          /\ copier' = [copier EXCEPT ![s] = "eof"]
          /\ UNCHANGED kept
  /\ UNCHANGED <<caller, ctx, processes, unfed, input, written, err, result>>

(* boundedBuffer.Write: more than it keeps is taken all the same.          *)
Copy(s) ==
  /\ Running
  /\ copier[s] = "copying"
  /\ pipe[s] > 0
  /\ pipe' = [pipe EXCEPT ![s] = @ - 1]
  /\ IF kept[s] < Limit[s]
     THEN kept' = [kept EXCEPT ![s] = @ + 1] /\ UNCHANGED exceeded
     ELSE exceeded' = [exceeded EXCEPT ![s] = TRUE] /\ UNCHANGED kept
  /\ UNCHANGED <<caller, ctx, processes, unfed, input, written, copier, err, result>>

EndOfFile(s) ==
  /\ Running
  /\ copier[s] = "copying"
  /\ pipe[s] = 0
  /\ ~ Open
  /\ copier' = [copier EXCEPT ![s] = "eof"]
  /\ UNCHANGED <<caller, ctx, processes, unfed, input, written, pipe, kept, exceeded, err, result>>

(* The watcher kills the group of the leader, unless Wait has seen it end  *)
(* and stopped the watcher.  A leader that had ended by itself makes no    *)
(* difference to the watcher's error.                                      *)
Cancel ==
  /\ caller \in {"wait", "reaped"}
  /\ ctx # "live"
  /\ err # "context"
  /\ leader' = IF leader = "running" THEN "killed" ELSE leader
  /\ helper' = IF helper = "grouped" THEN "gone" ELSE helper
  /\ holds' = IF helper = "escaped" THEN holds ELSE FALSE
  /\ err' = IF err = "none" THEN "context" ELSE err
  /\ UNCHANGED <<caller, ctx, streams, result>>

-----------------------------------------------------------------------------
(* Generate.                                                               *)

BugIgnoreErrors ==
  IF exceeded["stdout"] THEN "structured_content_oversized"
  ELSE IF kept["stdout"] = 0 THEN "provider_output_empty" ELSE "answer"

Failure == IF err' = "exit" THEN "provider_exit" ELSE "request_failed"

Accepted == IF kept["stdout"] = 0 THEN "provider_output_empty" ELSE "answer"

(* What Generate makes of what Run returned.                               *)
Outcome ==
  CASE err' # "none" /\ ctx = "canceled"       -> "request_canceled"
    [] err' # "none" /\ ctx = "deadline"       -> "request_timeout"
    [] err' # "none" /\ ctx = "live"           -> Failure
    [] err' = "none" /\ exceeded["stdout"]     -> "structured_content_oversized"
    [] err' = "none" /\ ~ exceeded["stdout"]   -> Accepted

Return ==
  /\ caller' = "done"
  /\ result' = Outcome

(* A request that does not verify or cannot be encoded, and one too large, *)
(* are refused before anything is started.                                 *)
Refuse ==
  /\ caller = "start"
  /\ caller' = "done"
  /\ \/ result' = "invalid_request"
     \/ unfed > InputLimit /\ result' = "input_oversized"
  /\ UNCHANGED <<ctx, processes, streams, err>>

(* A context that is done, and an executable that cannot be run, fail.     *)
Start ==
  /\ caller = "start"
  /\ unfed <= InputLimit
  /\ \/ /\ err' = "start"
        /\ Return
        /\ UNCHANGED leader
     \/ /\ ctx = "live"
        /\ caller' = "wait"
        /\ leader' = "running"
        /\ UNCHANGED <<err, result>>
  /\ UNCHANGED <<ctx, helper, holds, streams>>

(* Wait prefers the exit status of a leader that failed.                   *)
Reap ==
  /\ caller = "wait"
  /\ Over
  /\ caller' = "reaped"
  /\ err' = IF leader = "ok" THEN err ELSE "exit"
  /\ UNCHANGED <<ctx, processes, streams, result>>

StopWatching ==
  /\ caller = "reaped"
  /\ caller' = "join"
  /\ UNCHANGED <<ctx, processes, streams, err, result>>

Finished == unfed = 0 /\ \A s \in Streams : copier[s] # "copying"

Join ==
  /\ caller = "join"
  /\ Finished
  /\ UNCHANGED err
  /\ Return
  /\ UNCHANGED <<ctx, processes, streams>>

BugNoWaitDelay == FALSE /\ UNCHANGED vars

BugDelayIsFine ==
  /\ caller = "join"
  /\ ~ Finished
  /\ unfed' = 0
  /\ copier' = [s \in Streams |-> IF copier[s] = "copying" THEN "cut" ELSE copier[s]]
  /\ UNCHANGED err
  /\ Return
  /\ UNCHANGED <<ctx, processes, input, written, pipe, kept, exceeded>>

(* WaitDelay is over: the pipes are closed under the copiers.              *)
DelayExpires ==
  /\ caller = "join"
  /\ ~ Finished
  /\ unfed' = 0
  /\ copier' = [s \in Streams |-> IF copier[s] = "copying" THEN "cut" ELSE copier[s]]
  /\ err' = IF err = "none" THEN "delay" ELSE err
  /\ Return
  /\ UNCHANGED <<ctx, processes, input, written, pipe, kept, exceeded>>

ContextDone(how) ==
  /\ ctx = "live"
  /\ caller # "done"
  /\ ctx' = how
  /\ UNCHANGED <<caller, processes, streams, err, result>>

-----------------------------------------------------------------------------
Processes ==
  \/ ReadInput
  \/ \E s \in Streams : WriteOutput(s)
  \/ \E where \in {"grouped", "escaped"} : Fork(where)
  \/ CloseStreams
  \/ HelperEnds
  \/ \E how \in {"ok", "bad"} : LeaderEnds(how)

Goroutines == Feed \/ (\E s \in Streams : Copy(s) \/ EndOfFile(s)) \/ Cancel

Generate == Refuse \/ Start \/ Reap \/ StopWatching \/ Join \/ DelayExpires

Done == caller = "done" /\ UNCHANGED vars

Next == Processes \/ Goroutines \/ Generate \/ (\E how \in {"canceled", "deadline"} : ContextDone(how)) \/ Done

(* The adapter's own steps, the watcher and the clock are fair; nothing is *)
(* expected of the processes, nor, since WaitDelay is two seconds, of the  *)
(* copiers.                                                                *)
Fairness == WF_vars(Generate) /\ WF_vars(Cancel) /\ WF_vars(ContextDone("deadline"))

Spec == Init /\ [][Next]_vars /\ Fairness

-----------------------------------------------------------------------------
Codes == {"invalid_request", "input_oversized", "request_canceled", "request_timeout",
          "provider_exit", "request_failed", "structured_content_oversized", "provider_output_empty"}

TypeOK ==
  /\ caller \in {"start", "wait", "reaped", "join", "done"}
  /\ ctx \in {"live", "canceled", "deadline"}
  /\ leader \in {"none", "running", "ok", "bad", "killed"}
  /\ helper \in {"none", "grouped", "escaped", "gone"}
  /\ holds \in BOOLEAN
  /\ unfed \in 0 .. InputSize
  /\ input \in 0 .. PipeSize
  /\ written \in [Streams -> 0 .. MaxWritten]
  /\ pipe \in [Streams -> 0 .. PipeSize]
  /\ kept \in [Streams -> Nat] /\ \A s \in Streams : kept[s] <= Limit[s]
  /\ exceeded \in [Streams -> BOOLEAN]
  /\ copier \in [Streams -> {"copying", "eof", "cut"}]
  /\ err \in {"none", "start", "exit", "context", "delay"}
  /\ result \in {"none", "answer"} \cup Codes

(* An answer is all that was ever written to standard output, by a command *)
(* that succeeded, and nobody is left who could add to it                  *)
(* (command.go:109-145).                                                   *)
AnswerIsWhole ==
  result = "answer" => /\ leader = "ok"
                       /\ kept["stdout"] = written["stdout"]
                       /\ ~ Open

(* A failure code tells what happened (command.go:92-140): nothing is      *)
(* called a timeout, a cancellation, an oversized or an empty output that  *)
(* was not, and oversized means that the command succeeded.  A request too *)
(* large reaches no command.                                               *)
CodeIsTrue ==
  /\ result = "input_oversized"   => unfed > InputLimit /\ leader = "none"
  /\ result = "request_timeout"   => ctx = "deadline"
  /\ result = "request_canceled"  => ctx = "canceled"
  /\ result = "provider_exit"     => leader \in {"bad", "killed"}
  /\ result = "structured_content_oversized" => leader = "ok" /\ written["stdout"] > Limit["stdout"]
  /\ result = "provider_output_empty"      => leader = "ok" /\ written["stdout"] = 0

(* Output beyond the limit never blocks the command: as long as a process  *)
(* can write, its stream is being read (command.go:169-181).               *)
OutputIsConsumed ==
  Running /\ Open => \A s \in Streams : copier[s] = "copying"

(* Generate returns, whatever the processes do.                            *)
Returns == <>(caller = "done")

=============================================================================
