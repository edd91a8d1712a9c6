-------------------------- MODULE InvocationProofs ---------------------------
(***************************************************************************)
(* Theorems about Invocation, for every set of paths and of evidence.      *)
(*                                                                         *)
(* The argument follows the order of the stages: what each stage may rely  *)
(* on is a conjunct per group of places, and what an invocation that left  *)
(* through Succeed has delivered is what its last stage adds to it.        *)
(***************************************************************************)
EXTENDS Invocation, TLAPS

BeforeProvider == {"parse", "select", "obtain", "retry", "export", "enrich", "source", "analyze"}
AfterExport    == {"enrich", "source", "analyze", "generate", "close", "bundle", "report"}
Over           == {"exit", "gone"}

None(kinds) == \A p \in Paths : files[p] \notin kinds
Final       == verdict \in {"fallback", "mixed"} /\ received \subseteq disclosed
Succeeded   == pc \in Over /\ error = "none"
Published(path, what) == path # NoPath => files[path] = what

(* Nothing is delivered before the diagnosis is final and the line clear.  *)
StageInv ==
  /\ pc \notin Over => error = "none"
  /\ pc \in BeforeProvider \cup {"generate"} => verdict = "pending"
  /\ pc \in {"close", "bundle", "report"} \/ Succeeded => Final
  /\ pc \in BeforeProvider \cup {"generate", "close"} => None({"report", "bundle"})
  /\ pc \in {"bundle", "report"} \/ Succeeded => progress = "closed"
  /\ pc \notin Over => stdout = "nothing" /\ None({"report"})
  /\ pc = "bundle" => None({"bundle"})
  /\ ~ (None({"report", "bundle"}) /\ stdout = "nothing") => Final /\ progress = "closed"

(* The rows of validateOptions hold from parsing on.                       *)
OptionsInv ==
  /\ pc \notin {"parse"} \cup Over \/ Succeeded => ValidOptions(opts)
  /\ pc \in {"parse", "select", "obtain", "retry", "export"} => None({"evidence"})
  /\ opts.dryRun => pc # "report" /\ None({"evidence", "bundle", "report"})

DeliveryInv ==
  /\ pc \in AfterExport \/ Succeeded => Published(opts.export, "evidence")
  /\ pc = "report" => Published(opts.bundle, "bundle")
  /\ Succeeded /\ opts.dryRun => stdout = "inventory"
  /\ Succeeded /\ ~ opts.dryRun =>
       /\ Published(opts.bundle, "bundle")
       /\ Published(opts.output, "report")
       /\ stdout = IF opts.output = NoPath THEN "report" ELSE "nothing"

SignalInv ==
  /\ pc \in BeforeProvider => received = {}
  /\ caller \in BeforeProvider => /\ received = {}
                                  /\ pc \in BeforeProvider \cup Over
                                  /\ pc \in Over => error # "none"
  /\ error = "canceled" => caller # "waiting" /\ None({"report", "bundle"}) /\ stdout = "nothing"

StatusInv ==
  /\ pc # "gone" => status = -1
  /\ pc = "gone" => status = ExitCode \/ (error # "none" /\ status = 1)

IInv == TypeOK /\ StageInv /\ OptionsInv /\ DeliveryInv /\ SignalInv /\ StatusInv

(* The invariant holds at the start.                                       *)
LEMMA InitIInv == Init => IInv
BY PathsAssumption
DEF Init, Advice!Init, IInv, TypeOK, StageInv, OptionsInv, DeliveryInv, SignalInv, StatusInv, None, Places,
    BeforeProvider, AfterExport, Over, Succeeded, Published

(* Every step keeps the types.                                             *)
LEMMA TypeKept ==
  ASSUME IInv, [Next]_vars
  PROVE  TypeOK'
<1> USE PathsAssumption DEF IInv, TypeOK, Goto, Fail, Succeed, outputs, advice, Options, Places
<1>1. CASE Parse
  BY <1>1 DEF Parse
<1>2. CASE SelectGenerator
  BY <1>2 DEF SelectGenerator
<1>3. CASE RunCore
  BY <1>3 DEF RunCore, ChildFails
<1>4. CASE RetryCore
  BY <1>4 DEF RetryCore, ChildFails
<1>5. CASE ReadEvidence("file")
  BY <1>5 DEF ReadEvidence
<1>6. CASE ReadEvidence("stdin")
  BY <1>6 DEF ReadEvidence
<1>7. CASE ExportEvidence
  BY <1>7 DEF ExportEvidence, Publish
<1>8. CASE Enrich
  BY <1>8 DEF Enrich, Stage
<1>9. CASE CollectSource
  BY <1>9 DEF CollectSource, Stage
<1>10. CASE Analyze
  BY <1>10 DEF Analyze, Advice!Refuse, Advice!Advise
<1>11. CASE Expose
  BY <1>11 DEF Expose, Advice!Expose
<1>12. CASE Generate
  BY <1>12 DEF Generate, Advice!Refuse, Advice!Advise
<1>13. CASE CloseProgress
  BY <1>13 DEF CloseProgress
<1>14. CASE WriteBundle
  BY <1>14 DEF WriteBundle, WriteStdout, Publish
<1>15. CASE WriteReport
  BY <1>15 DEF WriteReport, WriteStdout, Publish
<1>16. CASE Exit
  BY <1>16 DEF Exit, ExitCode
<1>17. CASE Signal
  BY <1>17 DEF Signal, Listening
<1>18. ASSUME NEW path \in Paths, ForeignCreate(path)
      PROVE  TypeOK'
  BY <1>18 DEF ForeignCreate
<1>19. CASE UNCHANGED vars
  BY <1>19 DEF vars
<1>20. QED
  BY <1>1, <1>2, <1>3, <1>4, <1>5, <1>6, <1>7, <1>8, <1>9, <1>10, <1>11,
     <1>12, <1>13, <1>14, <1>15, <1>16, <1>17, <1>18, <1>19
  DEF Next, Step, Done

(* Every step keeps the order of the stages.                               *)
LEMMA StageKept ==
  ASSUME IInv, [Next]_vars
  PROVE  StageInv'
<1> USE DEF IInv, TypeOK, Goto, Fail, Succeed, outputs, advice, StageInv, OptionsInv, None, Final, Succeeded, BeforeProvider, Over
<1>1. CASE Parse
  BY <1>1 DEF Parse
<1>2. CASE SelectGenerator
  BY <1>2 DEF SelectGenerator
<1>3. CASE RunCore
  BY <1>3 DEF RunCore, ChildFails
<1>4. CASE RetryCore
  BY <1>4 DEF RetryCore, ChildFails
<1>5. CASE ReadEvidence("file")
  BY <1>5 DEF ReadEvidence
<1>6. CASE ReadEvidence("stdin")
  BY <1>6 DEF ReadEvidence
<1>7. CASE ExportEvidence
  BY <1>7 DEF ExportEvidence, Publish
<1>8. CASE Enrich
  BY <1>8 DEF Enrich, Stage
<1>9. CASE CollectSource
  BY <1>9 DEF CollectSource, Stage
<1>10. CASE Analyze
  BY <1>10 DEF Analyze, Advice!Refuse, Advice!Advise
<1>11. CASE Expose
  BY <1>11 DEF Expose, Advice!Expose
<1>12. CASE Generate
  BY <1>12 DEF Generate, Advice!Refuse, Advice!Advise
<1>13. CASE CloseProgress
  BY <1>13 DEF CloseProgress
<1>14. CASE WriteBundle
  BY <1>14 DEF WriteBundle, WriteStdout, Publish
<1>15. CASE WriteReport
  BY <1>15 DEF WriteReport, WriteStdout, Publish
<1>16. CASE Exit
  BY <1>16 DEF Exit, ExitCode
<1>17. CASE Signal
  BY <1>17 DEF Signal, Listening
<1>18. ASSUME NEW path \in Paths, ForeignCreate(path)
      PROVE  StageInv'
  BY <1>18 DEF ForeignCreate
<1>19. CASE UNCHANGED vars
  BY <1>19 DEF vars
<1>20. QED
  BY <1>1, <1>2, <1>3, <1>4, <1>5, <1>6, <1>7, <1>8, <1>9, <1>10, <1>11,
     <1>12, <1>13, <1>14, <1>15, <1>16, <1>17, <1>18, <1>19
  DEF Next, Step, Done

(* Every step keeps to the options.                                        *)
LEMMA OptionsKept ==
  ASSUME IInv, [Next]_vars
  PROVE  OptionsInv'
<1> USE DEF IInv, TypeOK, Goto, Fail, Succeed, outputs, advice, StageInv, OptionsInv, None, Succeeded, BeforeProvider, Over, ValidOptions
<1>1. CASE Parse
  BY <1>1 DEF Parse
<1>2. CASE SelectGenerator
  BY <1>2 DEF SelectGenerator
<1>3. CASE RunCore
  BY <1>3 DEF RunCore, ChildFails
<1>4. CASE RetryCore
  BY <1>4 DEF RetryCore, ChildFails
<1>5. CASE ReadEvidence("file")
  BY <1>5 DEF ReadEvidence
<1>6. CASE ReadEvidence("stdin")
  BY <1>6 DEF ReadEvidence
<1>7. CASE ExportEvidence
  BY <1>7 DEF ExportEvidence, Publish
<1>8. CASE Enrich
  BY <1>8 DEF Enrich, Stage
<1>9. CASE CollectSource
  BY <1>9 DEF CollectSource, Stage
<1>10. CASE Analyze
  BY <1>10 DEF Analyze, Advice!Refuse, Advice!Advise
<1>11. CASE Expose
  BY <1>11 DEF Expose, Advice!Expose
<1>12. CASE Generate
  BY <1>12 DEF Generate, Advice!Refuse, Advice!Advise
<1>13. CASE CloseProgress
  BY <1>13 DEF CloseProgress
<1>14. CASE WriteBundle
  BY <1>14 DEF WriteBundle, WriteStdout, Publish
<1>15. CASE WriteReport
  BY <1>15 DEF WriteReport, WriteStdout, Publish
<1>16. CASE Exit
  BY <1>16 DEF Exit, ExitCode
<1>17. CASE Signal
  BY <1>17 DEF Signal, Listening
<1>18. ASSUME NEW path \in Paths, ForeignCreate(path)
      PROVE  OptionsInv'
  BY <1>18 DEF ForeignCreate
<1>19. CASE UNCHANGED vars
  BY <1>19 DEF vars
<1>20. QED
  BY <1>1, <1>2, <1>3, <1>4, <1>5, <1>6, <1>7, <1>8, <1>9, <1>10, <1>11,
     <1>12, <1>13, <1>14, <1>15, <1>16, <1>17, <1>18, <1>19
  DEF Next, Step, Done

(* Every step adds what it is asked for.                                    *)
LEMMA DeliveryKept ==
  ASSUME IInv, [Next]_vars
  PROVE  DeliveryInv'
<1> USE PathsAssumption DEF IInv, TypeOK, Goto, Fail, Succeed, outputs, advice, OptionsInv, StageInv, DeliveryInv, None, Published, Succeeded, AfterExport, Over, ValidOptions, Options
<1>1. CASE Parse
  BY <1>1 DEF Parse
<1>2. CASE SelectGenerator
  BY <1>2 DEF SelectGenerator
<1>3. CASE RunCore
  BY <1>3 DEF RunCore, ChildFails
<1>4. CASE RetryCore
  BY <1>4 DEF RetryCore, ChildFails
<1>5. CASE ReadEvidence("file")
  BY <1>5 DEF ReadEvidence
<1>6. CASE ReadEvidence("stdin")
  BY <1>6 DEF ReadEvidence
<1>7. CASE ExportEvidence
  BY <1>7 DEF ExportEvidence, Publish
<1>8. CASE Enrich
  BY <1>8 DEF Enrich, Stage
<1>9. CASE CollectSource
  BY <1>9 DEF CollectSource, Stage
<1>10. CASE Analyze
  BY <1>10 DEF Analyze, Advice!Refuse, Advice!Advise
<1>11. CASE Expose
  BY <1>11 DEF Expose, Advice!Expose
<1>12. CASE Generate
  BY <1>12 DEF Generate, Advice!Refuse, Advice!Advise
<1>13. CASE CloseProgress
  BY <1>13 DEF CloseProgress
<1>14. CASE WriteBundle
  BY <1>14 DEF WriteBundle, WriteStdout, Publish
<1>15. CASE WriteReport
  BY <1>15 DEF WriteReport, WriteStdout, Publish
<1>16. CASE Exit
  BY <1>16 DEF Exit, ExitCode
<1>17. CASE Signal
  BY <1>17 DEF Signal, Listening
<1>18. ASSUME NEW path \in Paths, ForeignCreate(path)
      PROVE  DeliveryInv'
  BY <1>18 DEF ForeignCreate
<1>19. CASE UNCHANGED vars
  BY <1>19 DEF vars
<1>20. QED
  BY <1>1, <1>2, <1>3, <1>4, <1>5, <1>6, <1>7, <1>8, <1>9, <1>10, <1>11,
     <1>12, <1>13, <1>14, <1>15, <1>16, <1>17, <1>18, <1>19
  DEF Next, Step, Done

(* No step past a signal discloses or reports.                              *)
LEMMA SignalKept ==
  ASSUME IInv, [Next]_vars
  PROVE  SignalInv'
<1> USE DEF IInv, TypeOK, Goto, Fail, Succeed, outputs, advice, StageInv, SignalInv, None, BeforeProvider, Over
<1>1. CASE Parse
  BY <1>1 DEF Parse
<1>2. CASE SelectGenerator
  BY <1>2 DEF SelectGenerator
<1>3. CASE RunCore
  BY <1>3 DEF RunCore, ChildFails
<1>4. CASE RetryCore
  BY <1>4 DEF RetryCore, ChildFails
<1>5. CASE ReadEvidence("file")
  BY <1>5 DEF ReadEvidence
<1>6. CASE ReadEvidence("stdin")
  BY <1>6 DEF ReadEvidence
<1>7. CASE ExportEvidence
  BY <1>7 DEF ExportEvidence, Publish
<1>8. CASE Enrich
  BY <1>8 DEF Enrich, Stage
<1>9. CASE CollectSource
  BY <1>9 DEF CollectSource, Stage
<1>10. CASE Analyze
  BY <1>10 DEF Analyze, Advice!Refuse, Advice!Advise
<1>11. CASE Expose
  BY <1>11 DEF Expose, Advice!Expose
<1>12. CASE Generate
  BY <1>12 DEF Generate, Advice!Refuse, Advice!Advise
<1>13. CASE CloseProgress
  BY <1>13 DEF CloseProgress
<1>14. CASE WriteBundle
  BY <1>14 DEF WriteBundle, WriteStdout, Publish
<1>15. CASE WriteReport
  BY <1>15 DEF WriteReport, WriteStdout, Publish
<1>16. CASE Exit
  BY <1>16 DEF Exit, ExitCode
<1>17. CASE Signal
  BY <1>17 DEF Signal, Listening
<1>18. ASSUME NEW path \in Paths, ForeignCreate(path)
      PROVE  SignalInv'
  BY <1>18 DEF ForeignCreate
<1>19. CASE UNCHANGED vars
  BY <1>19 DEF vars
<1>20. QED
  BY <1>1, <1>2, <1>3, <1>4, <1>5, <1>6, <1>7, <1>8, <1>9, <1>10, <1>11,
     <1>12, <1>13, <1>14, <1>15, <1>16, <1>17, <1>18, <1>19
  DEF Next, Step, Done

(* The exit status follows the error.                                       *)
LEMMA StatusKept ==
  ASSUME IInv, [Next]_vars
  PROVE  StatusInv'
<1> USE DEF IInv, TypeOK, Goto, Fail, Succeed, outputs, advice, StageInv, StatusInv, ExitCode, Over
<1>1. CASE Parse
  BY <1>1 DEF Parse
<1>2. CASE SelectGenerator
  BY <1>2 DEF SelectGenerator
<1>3. CASE RunCore
  BY <1>3 DEF RunCore, ChildFails
<1>4. CASE RetryCore
  BY <1>4 DEF RetryCore, ChildFails
<1>5. CASE ReadEvidence("file")
  BY <1>5 DEF ReadEvidence
<1>6. CASE ReadEvidence("stdin")
  BY <1>6 DEF ReadEvidence
<1>7. CASE ExportEvidence
  BY <1>7 DEF ExportEvidence, Publish
<1>8. CASE Enrich
  BY <1>8 DEF Enrich, Stage
<1>9. CASE CollectSource
  BY <1>9 DEF CollectSource, Stage
<1>10. CASE Analyze
  BY <1>10 DEF Analyze, Advice!Refuse, Advice!Advise
<1>11. CASE Expose
  BY <1>11 DEF Expose, Advice!Expose
<1>12. CASE Generate
  BY <1>12 DEF Generate, Advice!Refuse, Advice!Advise
<1>13. CASE CloseProgress
  BY <1>13 DEF CloseProgress
<1>14. CASE WriteBundle
  BY <1>14 DEF WriteBundle, WriteStdout, Publish
<1>15. CASE WriteReport
  BY <1>15 DEF WriteReport, WriteStdout, Publish
<1>16. CASE Exit
  BY <1>16 DEF Exit, ExitCode
<1>17. CASE Signal
  BY <1>17 DEF Signal, Listening
<1>18. ASSUME NEW path \in Paths, ForeignCreate(path)
      PROVE  StatusInv'
  BY <1>18 DEF ForeignCreate
<1>19. CASE UNCHANGED vars
  BY <1>19 DEF vars
<1>20. QED
  BY <1>1, <1>2, <1>3, <1>4, <1>5, <1>6, <1>7, <1>8, <1>9, <1>10, <1>11,
     <1>12, <1>13, <1>14, <1>15, <1>16, <1>17, <1>18, <1>19
  DEF Next, Step, Done

(* The invariant is inductive.                                             *)
THEOREM Invariance == Spec => []IInv
<1>1. Init => IInv
  BY InitIInv
<1>2. IInv /\ [Next]_vars => IInv'
  BY TypeKept, StageKept, OptionsKept, DeliveryKept, SignalKept, StatusKept DEF IInv
<1>3. QED
  BY <1>1, <1>2, PTL DEF Spec

-----------------------------------------------------------------------------
(* Every variable of an invocation keeps its type.                         *)
THEOREM TypeCorrect == Spec => []TypeOK
<1>1. IInv => TypeOK
  BY DEF IInv
<1>2. QED
  BY <1>1, Invariance, PTL

(* Exit status 0 means that everything asked for is there, whole.          *)
LEMMA SuccessIsDelivery == Spec => []SuccessDelivers
<1>1. IInv => SuccessDelivers
  BY DEF IInv, SuccessDelivers, DeliveryInv, StatusInv, ExitCode, Published, Succeeded, Over
<1>2. QED
  BY <1>1, Invariance, PTL

(* What leaves the program has its final verdict, accounts for everything  *)
(* the provider was given, and does not share the progress line.           *)
THEOREM DeliveryIsFinal == Spec => []DeliveredIsFinal
<1>1. IInv => DeliveredIsFinal
  BY DEF IInv, DeliveredIsFinal, StageInv, None, Own, Final
<1>2. QED
  BY <1>1, Invariance, PTL

(* A dry run creates no file.                                              *)
THEOREM DryRunIsDry == Spec => []DryRunCreatesNothing
<1>1. IInv => DryRunCreatesNothing
  BY DEF IInv, DryRunCreatesNothing, OptionsInv, None, Own
<1>2. QED
  BY <1>1, Invariance, PTL

(* Status 130 means a signal, and that nothing was reported.               *)
LEMMA CancellationIsQuiet == Spec => []CanceledReportsNothing
<1>1. IInv => CanceledReportsNothing
  BY DEF IInv, CanceledReportsNothing, SignalInv, StatusInv, ExitCode, None, Own
<1>2. QED
  BY <1>1, Invariance, PTL

(* The exit status tells scripts what happened.                            *)
THEOREM StatusTrue == Spec => []StatusIsTrue
BY SuccessIsDelivery, CancellationIsQuiet, PTL DEF StatusIsTrue

(* A signal that comes before the provider is asked keeps every evidence   *)
(* from it, and the invocation fails.                                      *)
THEOREM SignalIsInTime == Spec => []SignalStopsDisclosure
<1>1. IInv => SignalStopsDisclosure
  BY DEF IInv, SignalStopsDisclosure, SignalInv, StatusInv, ExitCode, BeforeProvider, Over
<1>2. QED
  BY <1>1, Invariance, PTL

(* No file that exists is ever changed.                                    *)
THEOREM FilesAreKept == Spec => NothingOverwritten
<1>1. IInv /\ [Next]_vars => [\A p \in Paths : files[p] # "absent" => files'[p] = files[p]]_vars
  <2> SUFFICES ASSUME IInv, Next, NEW p \in Paths, files[p] # "absent"
               PROVE  files'[p] = files[p]
    OBVIOUS
  <2> USE DEF outputs, IInv, TypeOK
  <2>1. CASE ExportEvidence
    BY <2>1 DEF ExportEvidence, Publish
  <2>2. CASE WriteBundle
    BY <2>2 DEF WriteBundle, WriteStdout, Publish
  <2>3. CASE WriteReport
    BY <2>3 DEF WriteReport, WriteStdout, Publish
  <2>4. ASSUME NEW path \in Paths, ForeignCreate(path)
        PROVE  files'[p] = files[p]
    BY <2>4 DEF ForeignCreate
  <2>5. CASE \/ Parse \/ SelectGenerator \/ RunCore \/ RetryCore \/ ReadEvidence("file") \/ ReadEvidence("stdin")
             \/ Enrich \/ CollectSource \/ Analyze \/ Expose \/ Generate \/ CloseProgress \/ Exit \/ Signal \/ Done
    BY <2>5
    DEF Parse, SelectGenerator, RunCore, RetryCore, ReadEvidence, Enrich, CollectSource, Analyze, Expose, Generate,
        CloseProgress, Exit, Signal, Done, vars
  <2>6. QED
    BY <2>1, <2>2, <2>3, <2>4, <2>5 DEF Next, Step
<1>2. QED
  BY <1>1, Invariance, PTL DEF Spec, NothingOverwritten

=============================================================================
