------------------------- MODULE CommandBridgeProofs -------------------------
(***************************************************************************)
(* Theorems about CommandBridge, for every size of request, pipe and       *)
(* limit.                                                                  *)
(*                                                                         *)
(* The argument: nothing written is lost except what a full buffer was     *)
(* given (AccountInv), a copier sees the end of its stream only when       *)
(* nobody can write to it any more (StreamInv), and the error of Run says  *)
(* how the command ended (OutcomeInv).                                     *)
(***************************************************************************)
EXTENDS CommandBridge, TLAPS

(* TypeOK in two parts, which the provers find apart but not together.     *)
Flags == holds \in BOOLEAN /\ exceeded \in [Streams -> BOOLEAN]

Values ==
  /\ caller \in {"start", "wait", "reaped", "join", "done"}
  /\ ctx \in {"live", "canceled", "deadline"}
  /\ leader \in {"none", "running", "ok", "bad", "killed"}
  /\ helper \in {"none", "grouped", "escaped", "gone"}
  /\ unfed \in 0 .. InputSize
  /\ input \in 0 .. PipeSize
  /\ written \in [Streams -> 0 .. MaxWritten]
  /\ pipe \in [Streams -> 0 .. PipeSize]
  /\ kept \in [Streams -> Nat] /\ \A s \in Streams : kept[s] <= Limit[s]
  /\ copier \in [Streams -> {"copying", "eof", "cut"}]
  /\ err \in {"none", "start", "exit", "context", "delay"}
  /\ result \in {"none", "answer"} \cup Codes

AccountInv ==
  \A s \in Streams :
    /\ ~ exceeded[s] => written[s] = kept[s] + pipe[s]
    /\ exceeded[s] => kept[s] = Limit[s] /\ written[s] > kept[s] + pipe[s]

StreamInv ==
  /\ caller = "start" => /\ leader = "none" /\ helper = "none" /\ ~ holds
                         /\ \A s \in Streams : copier[s] = "copying"
  /\ leader = "none" => helper = "none" /\ ~ holds
  /\ caller # "start" /\ caller # "done" => leader # "none"
  /\ \A s \in Streams : copier[s] = "eof" => pipe[s] = 0 /\ ~ Open
  /\ \A s \in Streams : copier[s] = "cut" => caller = "done" /\ err # "none"

OutcomeInv ==
  /\ caller \in {"start", "wait", "reaped", "join"} => result = "none"
  /\ caller = "start" => err = "none"
  /\ result = "input_oversized" => caller = "done" /\ unfed > InputLimit /\ leader = "none"
  /\ caller = "wait" => err \in {"none", "context"}
  /\ err = "context" => ctx # "live"
  /\ leader = "killed" => ctx # "live"
  /\ caller \in {"reaped", "join"} => Over
  /\ caller \in {"reaped", "join"} /\ err \in {"none", "context"} => leader = "ok"
  /\ caller \in {"reaped", "join"} => err \in {"none", "context", "exit"}
  /\ err = "exit" => leader \in {"bad", "killed"}
  /\ result = "answer" => kept["stdout"] # 0
  /\ result \in {"answer", "structured_content_oversized", "provider_output_empty"} =>
       leader = "ok" /\ \A s \in Streams : copier[s] = "eof"
  /\ result \in {"answer", "provider_output_empty"} => ~ exceeded["stdout"]
  /\ result = "structured_content_oversized" => exceeded["stdout"]
  /\ result = "provider_output_empty" => kept["stdout"] = 0
  /\ result = "request_timeout" => ctx = "deadline"
  /\ result = "request_canceled" => ctx = "canceled"
  /\ result = "provider_exit" => leader \in {"bad", "killed"}

IInv == TypeOK /\ AccountInv /\ StreamInv /\ OutcomeInv

(* What Generate makes of the error of Run and of the buffers.             *)
LEMMA OutcomeMeans ==
  ASSUME result' = Outcome, ctx \in {"live", "canceled", "deadline"}, exceeded["stdout"] \in BOOLEAN
  PROVE  /\ result' \in {"answer"} \cup Codes
         /\ result' # "input_oversized"
         /\ result' \in {"answer", "structured_content_oversized", "provider_output_empty"} => err' = "none"
         /\ result' = "answer" => ~ exceeded["stdout"] /\ kept["stdout"] # 0
         /\ result' = "structured_content_oversized" => exceeded["stdout"]
         /\ result' = "provider_output_empty" => ~ exceeded["stdout"] /\ kept["stdout"] = 0
         /\ result' = "request_timeout" => ctx = "deadline"
         /\ result' = "request_canceled" => ctx = "canceled"
         /\ result' = "provider_exit" => err' = "exit"
<1>1. CASE err' # "none"
  BY <1>1 DEF Outcome, Failure, Codes
<1>2. CASE err' = "none"
  BY <1>2 DEF Outcome, Accepted, Codes
<1>3. QED
  BY <1>1, <1>2


(* The invariant holds at the start.                                       *)
LEMMA InitIInv == Init => IInv
<1>1. Init => TypeOK
  <2>1. Init => Flags
    BY DEF Init, Flags
  <2>2. Init => \A s \in Streams : kept[s] <= Limit[s]
    BY BridgeAssumption DEF Init
  <2>3. Init => Values
    BY <2>2, BridgeAssumption DEF Init, Values
  <2>4. QED
    BY <2>1, <2>3 DEF TypeOK, Flags, Values
<1>2. Init => AccountInv
  BY DEF Init, AccountInv
<1>3. Init => StreamInv
  BY DEF Init, StreamInv, Open
<1>4. Init => OutcomeInv
  BY DEF Init, OutcomeInv
<1>5. QED
  BY <1>1, <1>2, <1>3, <1>4 DEF IInv

(* Every step keeps the truth values.                                      *)
LEMMA FlagsKept ==
  ASSUME IInv, [Next]_vars
  PROVE  Flags'
<1> USE BridgeAssumption DEF IInv, TypeOK, processes, streams, Flags
<1>1. CASE ReadInput
  BY <1>1 DEF ReadInput
<1>2. ASSUME NEW s \in Streams, WriteOutput(s)
      PROVE  Flags'
  BY <1>2 DEF WriteOutput
<1>3. ASSUME NEW where \in {"grouped", "escaped"}, Fork(where)
      PROVE  Flags'
  BY <1>3 DEF Fork
<1>4. CASE CloseStreams
  BY <1>4 DEF CloseStreams
<1>5. CASE HelperEnds
  BY <1>5 DEF HelperEnds
<1>6. ASSUME NEW how \in {"ok", "bad"}, LeaderEnds(how)
      PROVE  Flags'
  BY <1>6 DEF LeaderEnds
<1>7. CASE Feed
  BY <1>7 DEF Feed
<1>8. ASSUME NEW s \in Streams, Copy(s)
      PROVE  Flags'
  BY <1>8 DEF Copy
<1>9. ASSUME NEW s \in Streams, EndOfFile(s)
      PROVE  Flags'
  BY <1>9 DEF EndOfFile
<1>10. CASE Cancel
  BY <1>10 DEF Cancel
<1>11. CASE Refuse
  BY <1>11 DEF Refuse, Codes
<1>12. CASE Start
  BY <1>12 DEF Start, Return, Streams
<1>13. CASE Reap
  BY <1>13 DEF Reap
<1>14. CASE StopWatching
  BY <1>14 DEF StopWatching
<1>15. CASE Join
  BY <1>15 DEF Join, Finished, Return, Streams
<1>16. CASE DelayExpires
  BY <1>16 DEF DelayExpires, Finished, Return, Streams
<1>17. ASSUME NEW how \in {"canceled", "deadline"}, ContextDone(how)
      PROVE  Flags'
  BY <1>17 DEF ContextDone
<1>18. CASE UNCHANGED vars
  BY <1>18 DEF vars
<1>19. QED
  BY <1>1, <1>2, <1>3, <1>4, <1>5, <1>6, <1>7, <1>8, <1>9, <1>10, <1>11,
     <1>12, <1>13, <1>14, <1>15, <1>16, <1>17, <1>18
  DEF Next, Processes, Goroutines, Generate, Done

(* Every step keeps the values.                                            *)
LEMMA ValuesKept ==
  ASSUME IInv, [Next]_vars
  PROVE  Values'
<1> USE BridgeAssumption DEF IInv, TypeOK, processes, streams, Values
<1>1. CASE ReadInput
  BY <1>1 DEF ReadInput
<1>2. ASSUME NEW s \in Streams, WriteOutput(s)
      PROVE  Values'
  BY <1>2 DEF WriteOutput
<1>3. ASSUME NEW where \in {"grouped", "escaped"}, Fork(where)
      PROVE  Values'
  BY <1>3 DEF Fork
<1>4. CASE CloseStreams
  BY <1>4 DEF CloseStreams
<1>5. CASE HelperEnds
  BY <1>5 DEF HelperEnds
<1>6. ASSUME NEW how \in {"ok", "bad"}, LeaderEnds(how)
      PROVE  Values'
  BY <1>6 DEF LeaderEnds
<1>7. CASE Feed
  BY <1>7 DEF Feed
<1>8. ASSUME NEW s \in Streams, Copy(s)
      PROVE  Values'
  BY <1>8 DEF Copy
<1>9. ASSUME NEW s \in Streams, EndOfFile(s)
      PROVE  Values'
  BY <1>9 DEF EndOfFile
<1>10. CASE Cancel
  BY <1>10 DEF Cancel
<1>11. CASE Refuse
  BY <1>11 DEF Refuse, Codes
<1>12. CASE Start
  BY <1>12, OutcomeMeans DEF Start, Return, Streams
<1>13. CASE Reap
  BY <1>13 DEF Reap
<1>14. CASE StopWatching
  BY <1>14 DEF StopWatching
<1>15. CASE Join
  BY <1>15, OutcomeMeans DEF Join, Finished, Return, Streams
<1>16. CASE DelayExpires
  BY <1>16, OutcomeMeans DEF DelayExpires, Finished, Return, Streams
<1>17. ASSUME NEW how \in {"canceled", "deadline"}, ContextDone(how)
      PROVE  Values'
  BY <1>17 DEF ContextDone
<1>18. CASE UNCHANGED vars
  BY <1>18 DEF vars
<1>19. QED
  BY <1>1, <1>2, <1>3, <1>4, <1>5, <1>6, <1>7, <1>8, <1>9, <1>10, <1>11,
     <1>12, <1>13, <1>14, <1>15, <1>16, <1>17, <1>18
  DEF Next, Processes, Goroutines, Generate, Done

(* Every step accounts for what was written.                               *)
LEMMA AccountKept ==
  ASSUME IInv, [Next]_vars
  PROVE  AccountInv'
<1> USE BridgeAssumption DEF IInv, TypeOK, processes, streams, AccountInv
<1>1. CASE ReadInput
  BY <1>1 DEF ReadInput
<1>2. ASSUME NEW s \in Streams, WriteOutput(s)
      PROVE  AccountInv'
  BY <1>2 DEF WriteOutput
<1>3. ASSUME NEW where \in {"grouped", "escaped"}, Fork(where)
      PROVE  AccountInv'
  BY <1>3 DEF Fork
<1>4. CASE CloseStreams
  BY <1>4 DEF CloseStreams
<1>5. CASE HelperEnds
  BY <1>5 DEF HelperEnds
<1>6. ASSUME NEW how \in {"ok", "bad"}, LeaderEnds(how)
      PROVE  AccountInv'
  BY <1>6 DEF LeaderEnds
<1>7. CASE Feed
  BY <1>7 DEF Feed
<1>8. ASSUME NEW s \in Streams, Copy(s)
      PROVE  AccountInv'
  BY <1>8 DEF Copy
<1>9. ASSUME NEW s \in Streams, EndOfFile(s)
      PROVE  AccountInv'
  BY <1>9 DEF EndOfFile
<1>10. CASE Cancel
  BY <1>10 DEF Cancel
<1>11. CASE Refuse
  BY <1>11 DEF Refuse, Codes
<1>12. CASE Start
  BY <1>12 DEF Start, Return, Outcome
<1>13. CASE Reap
  BY <1>13 DEF Reap
<1>14. CASE StopWatching
  BY <1>14 DEF StopWatching
<1>15. CASE Join
  BY <1>15 DEF Join, Finished, Return, Outcome
<1>16. CASE DelayExpires
  BY <1>16 DEF DelayExpires, Finished, Return, Outcome
<1>17. ASSUME NEW how \in {"canceled", "deadline"}, ContextDone(how)
      PROVE  AccountInv'
  BY <1>17 DEF ContextDone
<1>18. CASE UNCHANGED vars
  BY <1>18 DEF vars
<1>19. QED
  BY <1>1, <1>2, <1>3, <1>4, <1>5, <1>6, <1>7, <1>8, <1>9, <1>10, <1>11,
     <1>12, <1>13, <1>14, <1>15, <1>16, <1>17, <1>18
  DEF Next, Processes, Goroutines, Generate, Done

(* No step ends a stream that can still be written.                        *)
LEMMA StreamKept ==
  ASSUME IInv, [Next]_vars
  PROVE  StreamInv'
<1> USE BridgeAssumption DEF IInv, TypeOK, processes, streams, StreamInv, Open, Running
<1>1. CASE ReadInput
  BY <1>1 DEF ReadInput
<1>2. ASSUME NEW s \in Streams, WriteOutput(s)
      PROVE  StreamInv'
  BY <1>2 DEF WriteOutput
<1>3. ASSUME NEW where \in {"grouped", "escaped"}, Fork(where)
      PROVE  StreamInv'
  BY <1>3 DEF Fork
<1>4. CASE CloseStreams
  BY <1>4 DEF CloseStreams
<1>5. CASE HelperEnds
  BY <1>5 DEF HelperEnds
<1>6. ASSUME NEW how \in {"ok", "bad"}, LeaderEnds(how)
      PROVE  StreamInv'
  BY <1>6 DEF LeaderEnds
<1>7. CASE Feed
  BY <1>7 DEF Feed
<1>8. ASSUME NEW s \in Streams, Copy(s)
      PROVE  StreamInv'
  BY <1>8 DEF Copy
<1>9. ASSUME NEW s \in Streams, EndOfFile(s)
      PROVE  StreamInv'
  BY <1>9 DEF EndOfFile
<1>10. CASE Cancel
  BY <1>10 DEF Cancel
<1>11. CASE Refuse
  BY <1>11 DEF Refuse, Codes
<1>12. CASE Start
  BY <1>12, OutcomeMeans DEF Start, Return, Streams
<1>13. CASE Reap
  BY <1>13 DEF Reap
<1>14. CASE StopWatching
  BY <1>14 DEF StopWatching
<1>15. CASE Join
  BY <1>15, OutcomeMeans DEF Join, Finished, Return, Streams
<1>16. CASE DelayExpires
  BY <1>16, OutcomeMeans DEF DelayExpires, Finished, Return, Streams
<1>17. ASSUME NEW how \in {"canceled", "deadline"}, ContextDone(how)
      PROVE  StreamInv'
  BY <1>17 DEF ContextDone
<1>18. CASE UNCHANGED vars
  BY <1>18 DEF vars
<1>19. QED
  BY <1>1, <1>2, <1>3, <1>4, <1>5, <1>6, <1>7, <1>8, <1>9, <1>10, <1>11,
     <1>12, <1>13, <1>14, <1>15, <1>16, <1>17, <1>18
  DEF Next, Processes, Goroutines, Generate, Done

(* The outcome says how the command ended.                                 *)
LEMMA OutcomeKept ==
  ASSUME IInv, [Next]_vars
  PROVE  OutcomeInv'
<1> USE BridgeAssumption DEF IInv, TypeOK, processes, streams, StreamInv, OutcomeInv, Open, Over, Codes, Running
<1>1. CASE ReadInput
  BY <1>1 DEF ReadInput
<1>2. ASSUME NEW s \in Streams, WriteOutput(s)
      PROVE  OutcomeInv'
  BY <1>2 DEF WriteOutput
<1>3. ASSUME NEW where \in {"grouped", "escaped"}, Fork(where)
      PROVE  OutcomeInv'
  BY <1>3 DEF Fork
<1>4. CASE CloseStreams
  BY <1>4 DEF CloseStreams
<1>5. CASE HelperEnds
  BY <1>5 DEF HelperEnds
<1>6. ASSUME NEW how \in {"ok", "bad"}, LeaderEnds(how)
      PROVE  OutcomeInv'
  BY <1>6 DEF LeaderEnds
<1>7. CASE Feed
  BY <1>7 DEF Feed
<1>8. ASSUME NEW s \in Streams, Copy(s)
      PROVE  OutcomeInv'
  BY <1>8 DEF Copy
<1>9. ASSUME NEW s \in Streams, EndOfFile(s)
      PROVE  OutcomeInv'
  BY <1>9 DEF EndOfFile
<1>10. CASE Cancel
  BY <1>10 DEF Cancel
<1>11. CASE Refuse
  BY <1>11 DEF Refuse, Codes
<1>12. CASE Start
  BY <1>12, OutcomeMeans DEF Start, Return, Streams
<1>13. CASE Reap
  BY <1>13 DEF Reap
<1>14. CASE StopWatching
  BY <1>14 DEF StopWatching
<1>15. CASE Join
  BY <1>15, OutcomeMeans DEF Join, Finished, Return, Streams
<1>16. CASE DelayExpires
  BY <1>16, OutcomeMeans DEF DelayExpires, Finished, Return, Streams
<1>17. ASSUME NEW how \in {"canceled", "deadline"}, ContextDone(how)
      PROVE  OutcomeInv'
  BY <1>17 DEF ContextDone
<1>18. CASE UNCHANGED vars
  BY <1>18 DEF vars
<1>19. QED
  BY <1>1, <1>2, <1>3, <1>4, <1>5, <1>6, <1>7, <1>8, <1>9, <1>10, <1>11,
     <1>12, <1>13, <1>14, <1>15, <1>16, <1>17, <1>18
  DEF Next, Processes, Goroutines, Generate, Done

(* The invariant is inductive.                                             *)
THEOREM Invariance == Spec => []IInv
<1>1. Init => IInv
  BY InitIInv
<1>2. IInv /\ [Next]_vars => IInv'
  BY FlagsKept, ValuesKept, AccountKept, StreamKept, OutcomeKept DEF IInv, TypeOK, Flags, Values
<1>3. QED
  BY <1>1, <1>2, PTL DEF Spec

-----------------------------------------------------------------------------
(* Every variable of a request keeps its type, and every buffer its limit. *)
THEOREM TypeCorrect == Spec => []TypeOK
<1>1. IInv => TypeOK
  BY DEF IInv
<1>2. QED
  BY <1>1, Invariance, PTL

(* An answer is all that was ever written to standard output, by a command *)
(* that succeeded, and nobody is left who could add to it.                 *)
THEOREM AnswersAreWhole == Spec => []AnswerIsWhole
<1>1. IInv => AnswerIsWhole
  BY DEF IInv, AnswerIsWhole, AccountInv, StreamInv, OutcomeInv, Streams, TypeOK
<1>2. QED
  BY <1>1, Invariance, PTL

(* A failure code tells what happened.                                     *)
THEOREM CodesAreTrue == Spec => []CodeIsTrue
<1>1. IInv => CodeIsTrue
  BY BridgeAssumption DEF IInv, CodeIsTrue, AccountInv, StreamInv, OutcomeInv, Streams, TypeOK
<1>2. QED
  BY <1>1, Invariance, PTL

(* As long as a process can write, its stream is being read.               *)
THEOREM OutputFlows == Spec => []OutputIsConsumed
<1>1. IInv => OutputIsConsumed
  BY DEF IInv, OutputIsConsumed, StreamInv, TypeOK, Running
<1>2. QED
  BY <1>1, Invariance, PTL

=============================================================================
