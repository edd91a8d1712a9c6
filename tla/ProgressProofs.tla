--------------------------- MODULE ProgressProofs ----------------------------
(***************************************************************************)
(* Theorems about Progress, for every way the phases of a diagnosis end.   *)
(*                                                                         *)
(* The argument: the two goroutines meet only at the two rendezvous, so    *)
(* where one is tells where the other is (MeetingInv); between meetings    *)
(* the line shows the phase taken at the last one (LineInv); and an error  *)
(* is in the reporter's hands until the close that returns it (ErrorInv).  *)
(***************************************************************************)
EXTENDS Progress, TLAPS

(* TypeOK in two parts, which the provers find apart but not together.     *)
Booleans ==
  /\ closed \in BOOLEAN /\ explicit \in BOOLEAN /\ reported \in BOOLEAN
  /\ visible \in BOOLEAN /\ delayArmed \in BOOLEAN /\ writeErr \in BOOLEAN

Names ==
  /\ kind \in {"spinner", "plain"}
  /\ main \in {"run", "sending", "waiting", "close", "join", "report", "deferred", "returned"}
  /\ said \in Seq(Phases)
  /\ outcome \in {"none", "ok", "failed", "progress"}
  /\ spinner \in {"select", "event", "erase", "gone"}
  /\ phase \in Phases
  /\ finished \in {"empty", "ok", "error"}
  /\ line \in Phases \cup {"blank", "torn"}
  /\ printed \in Seq(Phases)

MeetingInv ==
  /\ spinner = "event" <=> main = "waiting"
  /\ spinner = "erase" => main = "join" /\ finished = "empty"
  /\ spinner = "event" => finished = "empty"
  /\ spinner = "select" => finished = "empty" /\ ~ closed /\ main \notin {"waiting", "join", "report", "returned"}
  /\ spinner = "gone" /\ kind = "spinner" => closed \/ (main = "join" /\ finished # "empty")
  /\ kind = "plain" => spinner = "gone" /\ finished = "empty" /\ main \notin {"sending", "waiting", "join"}
  /\ main \in {"report", "returned"} => closed
  /\ closed => main \in {"report", "deferred", "returned"}
  /\ closed => finished = "empty"
  /\ main \in {"sending", "waiting"} => kind = "spinner" /\ said # <<>>
  /\ main = "join" => kind = "spinner"

LineInv ==
  /\ kind = "plain" => line = "blank" /\ ~ visible
  /\ ~ visible => line = "blank"
  /\ kind = "spinner" /\ ~ visible => ~ writeErr
  /\ spinner = "gone" => line = "blank" \/ writeErr
  /\ kind = "spinner" /\ spinner \in {"select", "event"} /\ visible /\ ~ writeErr => line = phase
  /\ kind = "spinner" /\ main = "run" => phase = Announced

ErrorInv ==
  /\ finished = "error" => writeErr
  /\ finished = "ok" => ~ writeErr
  /\ main = "report" => ~ writeErr
  /\ closed /\ writeErr => outcome \in {"progress", "failed"}
  /\ main = "deferred" /\ ~ closed => outcome = "failed"
  /\ reported => closed /\ ~ writeErr

IInv == ProgressTypeOK /\ MeetingInv /\ LineInv /\ ErrorInv

(* The phase announced last is a phase.                                    *)
LEMMA AnnouncedIsPhase ==
  ASSUME said \in Seq(Phases)
  PROVE  Announced \in Phases
BY DEF Announced, Last, Phases

(* A phase appended is the one announced.                                  *)
LEMMA AppendAnnounces ==
  ASSUME said \in Seq(Phases), NEW p \in Phases, said' = Append(said, p)
  PROVE  said' \in Seq(Phases) /\ said' # <<>> /\ Announced' = p
<1>1. said' \in Seq(Phases) /\ Len(said') = Len(said) + 1 /\ said'[Len(said) + 1] = p
  OBVIOUS
<1>2. said' # <<>>
  BY <1>1
<1>3. QED
  BY <1>1, <1>2 DEF Announced, Last

(* The invariant holds at the start.                                       *)
LEMMA InitIInv == ProgressInit => IInv
<1> USE DEF ProgressInit
<1>1. ProgressInit => ProgressTypeOK
  <2>1. ProgressInit => Booleans
    BY DEF Booleans
  <2>2. ProgressInit => Names
    BY DEF Names, Phases
  <2>3. QED
    BY <2>1, <2>2 DEF ProgressTypeOK, Booleans, Names
<1>2. ProgressInit => MeetingInv
  BY DEF MeetingInv
<1>3. ProgressInit => LineInv
  BY DEF LineInv, Announced
<1>4. ProgressInit => ErrorInv
  BY DEF ErrorInv
<1>5. QED
  BY <1>1, <1>2, <1>3, <1>4 DEF IInv

(* Every step keeps the truth values.                                     *)
LEMMA BooleansKept ==
  ASSUME IInv, [ProgressNext]_progressVars
  PROVE  Booleans'
<1> USE DEF IInv, ProgressTypeOK, invocation, drawing, Booleans
<1>1. ASSUME NEW p \in Phases, Announce(p)
      PROVE  Booleans'
  BY <1>1 DEF Announce
<1>2. ASSUME NEW p \in Phases, PrintPhase(p)
      PROVE  Booleans'
  BY <1>2 DEF PrintPhase
<1>3. CASE Diagnosed
  BY <1>3 DEF Diagnosed
<1>4. CASE Deferred
  BY <1>4 DEF Deferred
<1>5. CASE JoinSpinner
  BY <1>5 DEF JoinSpinner, Closed
<1>6. CASE ClosePlain
  BY <1>6 DEF ClosePlain, Closed
<1>7. CASE Report
  BY <1>7 DEF Report
<1>8. CASE Abort
  BY <1>8 DEF Abort
<1>9. CASE Delay
  BY <1>9 DEF Delay, Draw
<1>10. CASE Tick
  BY <1>10 DEF Tick, Draw
<1>11. CASE ReceivePhase
  BY <1>11 DEF ReceivePhase
<1>12. CASE SendClose
  BY <1>12 DEF SendClose
<1>13. CASE HandlePhase
  BY <1>13 DEF HandlePhase, Draw
<1>14. CASE Erase
  BY <1>14 DEF Erase, Draw
<1>15. CASE UNCHANGED progressVars
  BY <1>15 DEF progressVars
<1>16. QED
  BY <1>1, <1>2, <1>3, <1>4, <1>5, <1>6, <1>7, <1>8, <1>9, <1>10, <1>11,
     <1>12, <1>13, <1>14, <1>15
  DEF ProgressNext, Invocation, Spinner, ProgressDone

(* Every step keeps the names and sequences of names.                     *)
LEMMA PlacesKept ==
  ASSUME IInv, [ProgressNext]_progressVars
  PROVE  Names'
<1> USE DEF IInv, ProgressTypeOK, invocation, drawing, Names
<1>1. ASSUME NEW p \in Phases, Announce(p)
      PROVE  Names'
  BY <1>1 DEF Announce
<1>2. ASSUME NEW p \in Phases, PrintPhase(p)
      PROVE  Names'
  <2>1. said' \in Seq(Phases) /\ Append(printed, p) \in Seq(Phases)
    BY <1>2 DEF PrintPhase
  <2>2. printed' \in Seq(Phases)
    BY <1>2, <2>1 DEF PrintPhase
  <2>3. UNCHANGED <<kind, main, outcome, spinner, phase, finished, line>>
    BY <1>2 DEF PrintPhase
  <2>4. QED
    BY <2>1, <2>2, <2>3
<1>3. CASE Diagnosed
  BY <1>3 DEF Diagnosed
<1>4. CASE Deferred
  BY <1>4 DEF Deferred
<1>5. CASE JoinSpinner
  BY <1>5 DEF JoinSpinner, Closed
<1>6. CASE ClosePlain
  BY <1>6 DEF ClosePlain, Closed
<1>7. CASE Report
  BY <1>7 DEF Report
<1>8. CASE Abort
  BY <1>8 DEF Abort
<1>9. CASE Delay
  BY <1>9 DEF Delay, Draw
<1>10. CASE Tick
  BY <1>10 DEF Tick, Draw
<1>11. CASE ReceivePhase
  BY <1>11 DEF ReceivePhase
<1>12. CASE SendClose
  BY <1>12 DEF SendClose
<1>13. CASE HandlePhase
  BY <1>13, AnnouncedIsPhase DEF HandlePhase, Draw
<1>14. CASE Erase
  BY <1>14 DEF Erase, Draw
<1>15. CASE UNCHANGED progressVars
  BY <1>15 DEF progressVars
<1>16. QED
  BY <1>1, <1>2, <1>3, <1>4, <1>5, <1>6, <1>7, <1>8, <1>9, <1>10, <1>11,
     <1>12, <1>13, <1>14, <1>15
  DEF ProgressNext, Invocation, Spinner, ProgressDone

(* Every step keeps the goroutines where they expect each other.           *)
LEMMA MeetingKept ==
  ASSUME IInv, [ProgressNext]_progressVars
  PROVE  MeetingInv'
<1> USE DEF IInv, ProgressTypeOK, invocation, drawing, MeetingInv, ErrorInv
<1>1. ASSUME NEW p \in Phases, Announce(p)
      PROVE  MeetingInv'
  BY <1>1, AppendAnnounces DEF Announce
<1>2. ASSUME NEW p \in Phases, PrintPhase(p)
      PROVE  MeetingInv'
  BY <1>2, AppendAnnounces DEF PrintPhase
<1>3. CASE Diagnosed
  BY <1>3 DEF Diagnosed
<1>4. CASE Deferred
  BY <1>4 DEF Deferred
<1>5. CASE JoinSpinner
  BY <1>5 DEF JoinSpinner, Closed
<1>6. CASE ClosePlain
  BY <1>6 DEF ClosePlain, Closed
<1>7. CASE Report
  BY <1>7 DEF Report
<1>8. CASE Abort
  BY <1>8 DEF Abort
<1>9. CASE Delay
  BY <1>9 DEF Delay
<1>10. CASE Tick
  BY <1>10 DEF Tick
<1>11. CASE ReceivePhase
  BY <1>11 DEF ReceivePhase
<1>12. CASE SendClose
  BY <1>12 DEF SendClose
<1>13. CASE HandlePhase
  BY <1>13 DEF HandlePhase
<1>14. CASE Erase
  BY <1>14 DEF Erase
<1>15. CASE UNCHANGED progressVars
  BY <1>15 DEF progressVars
<1>16. QED
  BY <1>1, <1>2, <1>3, <1>4, <1>5, <1>6, <1>7, <1>8, <1>9, <1>10, <1>11,
     <1>12, <1>13, <1>14, <1>15
  DEF ProgressNext, Invocation, Spinner, ProgressDone

(* Every step keeps the line in step with the phases.                      *)
LEMMA LineKept ==
  ASSUME IInv, [ProgressNext]_progressVars
  PROVE  LineInv'
<1> USE DEF IInv, ProgressTypeOK, invocation, drawing, MeetingInv, LineInv, Announced
<1>1. ASSUME NEW p \in Phases, Announce(p)
      PROVE  LineInv'
  BY <1>1, AppendAnnounces DEF Announce
<1>2. ASSUME NEW p \in Phases, PrintPhase(p)
      PROVE  LineInv'
  BY <1>2 DEF PrintPhase
<1>3. CASE Diagnosed
  BY <1>3 DEF Diagnosed
<1>4. CASE Deferred
  BY <1>4 DEF Deferred
<1>5. CASE JoinSpinner
  BY <1>5 DEF JoinSpinner, Closed
<1>6. CASE ClosePlain
  BY <1>6 DEF ClosePlain, Closed
<1>7. CASE Report
  BY <1>7 DEF Report
<1>8. CASE Abort
  BY <1>8 DEF Abort
<1>9. CASE Delay
  BY <1>9 DEF Delay, Draw
<1>10. CASE Tick
  BY <1>10 DEF Tick, Draw
<1>11. CASE ReceivePhase
  BY <1>11 DEF ReceivePhase
<1>12. CASE SendClose
  BY <1>12 DEF SendClose
<1>13. CASE HandlePhase
  BY <1>13, AnnouncedIsPhase DEF HandlePhase, Draw
<1>14. CASE Erase
  BY <1>14 DEF Erase, Draw
<1>15. CASE UNCHANGED progressVars
  BY <1>15 DEF progressVars
<1>16. QED
  BY <1>1, <1>2, <1>3, <1>4, <1>5, <1>6, <1>7, <1>8, <1>9, <1>10, <1>11,
     <1>12, <1>13, <1>14, <1>15
  DEF ProgressNext, Invocation, Spinner, ProgressDone

(* No step loses an error.                                                 *)
LEMMA ErrorKept ==
  ASSUME IInv, [ProgressNext]_progressVars
  PROVE  ErrorInv'
<1> USE DEF IInv, ProgressTypeOK, invocation, drawing, MeetingInv, LineInv, ErrorInv
<1>1. ASSUME NEW p \in Phases, Announce(p)
      PROVE  ErrorInv'
  BY <1>1 DEF Announce
<1>2. ASSUME NEW p \in Phases, PrintPhase(p)
      PROVE  ErrorInv'
  BY <1>2 DEF PrintPhase
<1>3. CASE Diagnosed
  BY <1>3 DEF Diagnosed
<1>4. CASE Deferred
  BY <1>4 DEF Deferred
<1>5. CASE JoinSpinner
  BY <1>5 DEF JoinSpinner, Closed
<1>6. CASE ClosePlain
  BY <1>6 DEF ClosePlain, Closed
<1>7. CASE Report
  BY <1>7 DEF Report
<1>8. CASE Abort
  BY <1>8 DEF Abort
<1>9. CASE Delay
  BY <1>9 DEF Delay, Draw
<1>10. CASE Tick
  BY <1>10 DEF Tick, Draw
<1>11. CASE ReceivePhase
  BY <1>11 DEF ReceivePhase
<1>12. CASE SendClose
  BY <1>12 DEF SendClose
<1>13. CASE HandlePhase
  BY <1>13 DEF HandlePhase, Draw
<1>14. CASE Erase
  BY <1>14 DEF Erase, Draw
<1>15. CASE UNCHANGED progressVars
  BY <1>15 DEF progressVars
<1>16. QED
  BY <1>1, <1>2, <1>3, <1>4, <1>5, <1>6, <1>7, <1>8, <1>9, <1>10, <1>11,
     <1>12, <1>13, <1>14, <1>15
  DEF ProgressNext, Invocation, Spinner, ProgressDone

(* The invariant is inductive.                                             *)
THEOREM Invariance == ProgressSpec => []IInv
<1>1. ProgressInit => IInv
  BY InitIInv
<1>2. IInv /\ [ProgressNext]_progressVars => IInv'
  BY BooleansKept, PlacesKept, MeetingKept, LineKept, ErrorKept DEF IInv, ProgressTypeOK, Booleans, Names
<1>3. QED
  BY <1>1, <1>2, PTL DEF ProgressSpec

-----------------------------------------------------------------------------
(* Every variable of the reporter and the invocation keeps its type.       *)
THEOREM TypeCorrect == ProgressSpec => []ProgressTypeOK
<1>1. IInv => ProgressTypeOK
  BY DEF IInv
<1>2. QED
  BY <1>1, Invariance, PTL

(* When the report is written, and after the invocation returned, the      *)
(* spinner can draw no more and its line is blank, unless a write failed;  *)
(* while the invocation runs, a visible line shows the phase announced     *)
(* last.                                                                   *)
THEOREM TerminalLineIsTrue == ProgressSpec => []LineIsTrue
<1>1. IInv => LineIsClear
  BY DEF IInv, ProgressTypeOK, LineIsClear, MeetingInv, LineInv
<1>2. IInv => LineIsCurrent
  BY DEF IInv, ProgressTypeOK, LineIsCurrent, MeetingInv, LineInv
<1>3. IInv => LineIsTrue
  BY <1>1, <1>2 DEF LineIsTrue
<1>4. QED
  BY <1>3, Invariance, PTL

(* A failed progress write is never swallowed.                             *)
THEOREM ErrorIsReturned == ProgressSpec => []ProgressErrorIsReturned
<1>1. IInv => ProgressErrorIsReturned
  BY DEF IInv, ProgressErrorIsReturned, MeetingInv, ErrorInv
<1>2. QED
  BY <1>1, Invariance, PTL

(* The first failed write is the last.                                     *)
THEOREM NoWriteAfterError == ProgressSpec => FirstErrorIsLast
<1>1. IInv /\ [ProgressNext]_progressVars => [writeErr => writeErr' /\ UNCHANGED <<line, printed>>]_progressVars
  <2> SUFFICES ASSUME IInv, ProgressNext, writeErr
               PROVE  writeErr' /\ UNCHANGED <<line, printed>>
    OBVIOUS
  <2> USE DEF IInv, ProgressTypeOK, drawing
  <2>1. ASSUME NEW p \in Phases, Announce(p) \/ PrintPhase(p)
        PROVE  writeErr' /\ UNCHANGED <<line, printed>>
    BY <2>1 DEF Announce, PrintPhase
  <2>2. CASE Diagnosed \/ Deferred \/ JoinSpinner \/ ClosePlain \/ Report \/ Abort \/ ProgressDone
    BY <2>2 DEF Diagnosed, Deferred, JoinSpinner, ClosePlain, Report, Abort, ProgressDone, progressVars
  <2>3. CASE Spinner
    BY <2>3 DEF Spinner, Delay, Tick, ReceivePhase, SendClose, HandlePhase, Erase, Draw
  <2>4. QED
    BY <2>1, <2>2, <2>3 DEF ProgressNext, Invocation
<1>2. QED
  BY <1>1, Invariance, PTL DEF ProgressSpec, FirstErrorIsLast

=============================================================================
