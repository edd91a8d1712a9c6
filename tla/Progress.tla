------------------------------ MODULE Progress -------------------------------
(***************************************************************************)
(* The progress line of an AI diagnosis (internal/cli/progress.go) and the *)
(* invocation that drives it (runDiagnosis of internal/cli/cli.go).        *)
(*                                                                         *)
(* The spinner is a goroutine that redraws one terminal line on a timer.   *)
(* The invocation tells it each phase over an unbuffered channel and waits *)
(* for an answer; before it writes its report to the same terminal it      *)
(* closes the spinner and waits until the line is erased.  The plain       *)
(* reporter prints a line per phase in the caller's own goroutine.  Any    *)
(* write may fail; the first failure is kept, and ends the invocation.     *)
(*                                                                         *)
(* A sleeping goroutine, its select and its unbuffered channel are         *)
(* modelled as rendezvous steps; text, elapsed times and frames are not.   *)
(* Operators named Bug... are deliberate mistakes no definition uses.      *)
(***************************************************************************)
EXTENDS Naturals, SequencesExt

CONSTANT Endings  \* how the phases of a diagnosis may end, see MCProcesses

VARIABLES
  kind,        \* "spinner" or "plain"
  main,        \* where the invocation is
  said,        \* phases it has announced
  outcome,     \* what it will return: "none", "ok", "failed" or "progress"
  closed,      \* progressClosed of runDiagnosis
  explicit,    \* the close under way is the one before the report
  reported,    \* the report has been written
  spinner,     \* where the spinner goroutine is
  phase,       \* the phase it draws
  visible,     \* it has started drawing
  delayArmed,  \* the initial delay has not elapsed
  writeErr,    \* a write of the reporter failed
  finished,    \* the buffered channel that carries its last word
  line,        \* the spinner's line of the terminal
  printed      \* what the plain reporter printed

progressVars == <<kind, main, said, outcome, closed, explicit, reported, spinner, phase, visible,
                  delayArmed, writeErr, finished, line, printed>>

invocation == <<said, outcome, closed, explicit, reported>>
drawing    == <<phase, visible, delayArmed, line>>

Phases == {"collecting", "preparing", "waiting", "validating", "fallback"}

ProgressInit ==
  /\ kind \in {"spinner", "plain"}
  /\ main = "run"
  /\ said = <<>>
  /\ outcome = "none"
  /\ closed = FALSE
  /\ explicit = FALSE
  /\ reported = FALSE
  /\ spinner = IF kind = "spinner" THEN "select" ELSE "gone"
  /\ phase = "collecting"
  /\ visible = FALSE
  /\ delayArmed = (kind = "spinner")
  /\ writeErr = FALSE
  /\ finished = "empty"
  /\ line = "blank"
  /\ printed = <<>>

-----------------------------------------------------------------------------
(* The invocation.                                                         *)

(* runDiagnosis announces collection and preparation, the augmenter its    *)
(* own preparation, the wait and what became of it.                        *)
Script == {<<"collecting", "preparing", "preparing", "waiting">> \o ending : ending \in Endings}

MayAnnounce(p) == \E script \in Script : IsPrefix(Append(said, p), script)

Announced == IF said = <<>> THEN "collecting" ELSE Last(said)

Announce(p) ==
  /\ main = "run"
  /\ kind = "spinner"
  /\ MayAnnounce(p)
  /\ said' = Append(said, p)
  /\ main' = "sending"
  /\ UNCHANGED <<kind, outcome, closed, explicit, reported, spinner, drawing, writeErr, finished, printed>>

LastPrinted == IF printed = <<>> THEN "" ELSE Last(printed)

(* plainProgress.Phase: nothing after an error, nothing twice in a row.    *)
PrintPhase(p) ==
  /\ main = "run"
  /\ kind = "plain"
  /\ MayAnnounce(p)
  /\ said' = Append(said, p)
  /\ IF writeErr \/ p = LastPrinted
     THEN UNCHANGED <<printed, writeErr>>
     ELSE printed' = Append(printed, p) /\ writeErr' \in BOOLEAN
  /\ UNCHANGED <<kind, main, outcome, closed, explicit, reported, spinner, drawing, finished>>

(* The diagnosis succeeded: the line goes before the report comes.         *)
Diagnosed ==
  /\ main = "run"
  /\ said \in Script
  /\ main' = "close"
  /\ explicit' = TRUE
  /\ UNCHANGED <<kind, said, outcome, closed, reported, spinner, drawing, writeErr, finished, printed>>

(* Any step of the invocation may fail instead, or be cancelled.           *)
Abort ==
  /\ main = "run"
  /\ said # <<>>
  /\ main' = "deferred"
  /\ outcome' = "failed"
  /\ UNCHANGED <<kind, said, closed, explicit, reported, spinner, drawing, writeErr, finished, printed>>

(* The deferred closeProgress, which closes once.                          *)
Deferred ==
  /\ main = "deferred"
  /\ explicit' = FALSE
  /\ main' = IF closed THEN "returned" ELSE "close"
  /\ UNCHANGED <<kind, said, outcome, closed, reported, spinner, drawing, writeErr, finished, printed>>

(* What closeProgress does with the reporter's error.                      *)
Closed(err) ==
  /\ closed' = TRUE
  /\ IF explicit
     THEN /\ main' = IF err THEN "deferred" ELSE "report"
          /\ outcome' = IF err THEN "progress" ELSE outcome
     ELSE /\ main' = "returned"
          /\ outcome' = IF err /\ outcome \in {"none", "ok"} THEN "progress" ELSE outcome

BugCloseWithoutWaiting ==
  /\ main = "close"
  /\ kind = "spinner"
  /\ closed' = TRUE
  /\ main' = IF explicit THEN "report" ELSE "returned"
  /\ spinner' = "erase"
  /\ UNCHANGED <<kind, said, outcome, explicit, reported, drawing, writeErr, finished, printed>>

SendClose ==
  /\ main = "close"
  /\ kind = "spinner"
  /\ spinner = "select"
  /\ main' = "join"
  /\ spinner' = "erase"
  /\ UNCHANGED <<kind, invocation, drawing, writeErr, finished, printed>>

JoinSpinner ==
  /\ main = "join"
  /\ finished # "empty"
  /\ Closed(finished = "error")
  /\ finished' = "empty"
  /\ UNCHANGED <<kind, said, explicit, reported, spinner, drawing, writeErr, printed>>

ClosePlain ==
  /\ main = "close"
  /\ kind = "plain"
  /\ Closed(writeErr)
  /\ UNCHANGED <<kind, said, explicit, reported, spinner, drawing, writeErr, finished, printed>>

(* Bundle, report and exit status: the rest of runDiagnosis.               *)
Report ==
  /\ main = "report"
  /\ \/ reported' = TRUE /\ outcome' = "ok"
     \/ reported' \in BOOLEAN /\ outcome' = "failed"
  /\ main' = "deferred"
  /\ UNCHANGED <<kind, said, closed, explicit, spinner, drawing, writeErr, finished, printed>>

Invocation ==
  \/ \E p \in Phases : Announce(p) \/ PrintPhase(p)
  \/ Diagnosed \/ Deferred \/ JoinSpinner \/ ClosePlain \/ Report

-----------------------------------------------------------------------------
(* The spinner goroutine.                                                  *)

Draw(p) ==
  \/ writeErr /\ UNCHANGED <<line, writeErr>>
  \/ ~ writeErr /\ line' = p /\ UNCHANGED writeErr
  \/ ~ writeErr /\ line' = "torn" /\ writeErr' = TRUE

Delay ==
  /\ spinner = "select"
  /\ delayArmed
  /\ delayArmed' = FALSE
  /\ visible' = TRUE
  /\ Draw(phase)
  /\ UNCHANGED <<kind, main, invocation, spinner, phase, finished, printed>>

Tick ==
  /\ spinner = "select"
  /\ visible
  /\ Draw(phase)
  /\ UNCHANGED <<kind, main, invocation, spinner, phase, visible, delayArmed, finished, printed>>

(* The rendezvous on the channel of events.                                *)
ReceivePhase ==
  /\ spinner = "select"
  /\ main = "sending"
  /\ spinner' = "event"
  /\ main' = "waiting"
  /\ UNCHANGED <<kind, invocation, drawing, writeErr, finished, printed>>

BugForgetAnswer ==
  /\ spinner = "event"
  /\ phase' = Announced
  /\ IF visible THEN Draw(phase') ELSE UNCHANGED <<line, writeErr>>
  /\ spinner' = "select"
  /\ UNCHANGED <<kind, main, invocation, visible, delayArmed, finished, printed>>

(* The phase is taken and drawn before the sender is released.             *)
HandlePhase ==
  /\ spinner = "event"
  /\ phase' = Announced
  /\ IF visible THEN Draw(phase') ELSE UNCHANGED <<line, writeErr>>
  /\ spinner' = "select"
  /\ main' = "run"
  /\ UNCHANGED <<kind, invocation, visible, delayArmed, finished, printed>>

BugEraseAnyError ==
  /\ spinner = "erase"
  /\ line' = "blank" /\ writeErr' = writeErr
  /\ finished' = "ok"
  /\ spinner' = "gone"
  /\ UNCHANGED <<kind, main, invocation, phase, visible, delayArmed, printed>>

(* The line is erased if one was drawn; the send on "finished" does not    *)
(* block, its channel holds one value.                                     *)
Erase ==
  /\ spinner = "erase"
  /\ IF visible THEN Draw("blank") ELSE UNCHANGED <<line, writeErr>>
  /\ finished' = IF writeErr' THEN "error" ELSE "ok"
  /\ spinner' = "gone"
  /\ UNCHANGED <<kind, main, invocation, phase, visible, delayArmed, printed>>

Spinner == Delay \/ Tick \/ ReceivePhase \/ SendClose \/ HandlePhase \/ Erase

ProgressDone == main = "returned" /\ UNCHANGED progressVars

ProgressNext == Invocation \/ Abort \/ Spinner \/ ProgressDone

(* The select of Go chooses among what is ready at random, so that a       *)
(* waiting sender is served; the other steps are straight-line code.       *)
ProgressFairness ==
  /\ WF_progressVars(Invocation) /\ WF_progressVars(ReceivePhase) /\ WF_progressVars(SendClose)
  /\ WF_progressVars(HandlePhase) /\ WF_progressVars(Erase)

ProgressSpec == ProgressInit /\ [][ProgressNext]_progressVars /\ ProgressFairness

-----------------------------------------------------------------------------
ProgressTypeOK ==
  /\ kind \in {"spinner", "plain"}
  /\ main \in {"run", "sending", "waiting", "close", "join", "report", "deferred", "returned"}
  /\ said \in Seq(Phases)
  /\ outcome \in {"none", "ok", "failed", "progress"}
  /\ closed \in BOOLEAN /\ explicit \in BOOLEAN /\ reported \in BOOLEAN
  /\ spinner \in {"select", "event", "erase", "gone"}
  /\ phase \in Phases
  /\ visible \in BOOLEAN /\ delayArmed \in BOOLEAN /\ writeErr \in BOOLEAN
  /\ finished \in {"empty", "ok", "error"}
  /\ line \in Phases \cup {"blank", "torn"}
  /\ printed \in Seq(Phases)

(* When the report is written, and when the invocation has returned and an *)
(* error message may follow, the spinner can draw no more and its line is  *)
(* blank, unless a write already failed (progress.go:217-224,              *)
(* cli.go:213-227, 285).                                                   *)
LineIsClear ==
  main \in {"report", "returned"} => spinner = "gone" /\ (line = "blank" \/ writeErr)

(* Once a phase has been announced, a visible spinner shows that phase and *)
(* no older one, at every moment the invocation runs (progress.go:225-233).*)
LineIsCurrent ==
  kind = "spinner" /\ main = "run" /\ visible /\ ~ writeErr => line = Announced

(* What stands on the terminal line is true at every moment.               *)
LineIsTrue == LineIsClear /\ LineIsCurrent

(* A failed progress write is never swallowed: the invocation does not     *)
(* succeed, and it writes no report after it (cli.go:223-227, 285-287).    *)
ProgressErrorIsReturned ==
  writeErr => /\ ~ reported
              /\ main = "returned" => outcome \in {"progress", "failed"}

(* The first failed write is the last: the terminal is not written again   *)
(* (progress.go:219, 244-246).                                             *)
FirstErrorIsLast == [][writeErr => writeErr' /\ UNCHANGED <<line, printed>>]_progressVars

(* The invocation returns: neither goroutine waits for the other for ever. *)
Termination == <>(main = "returned")

=============================================================================
