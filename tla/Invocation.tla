----------------------------- MODULE Invocation ------------------------------
(***************************************************************************)
(* One invocation of jobman-diagnose from its arguments to its exit status *)
(* (runWithEnvironment, runDiagnosis and ExitCode of internal/cli/cli.go). *)
(*                                                                         *)
(* It composes the parts through what they promise: a diagnosis takes      *)
(* steps of AdvicePromise, which Augmenter implements; a file is published *)
(* as AtomicPublish allows, which SecureFile implements; closing the       *)
(* progress line may fail, see Progress.  Evidence is obtained from the    *)
(* Jobman executable, from a file or from standard input.                  *)
(*                                                                         *)
(* A signal cancels the context, once; what looks at the context stops,    *)
(* what does not goes on.  Other programs may create files meanwhile.      *)
(* Operators named Bug... are deliberate mistakes no definition uses.      *)
(***************************************************************************)
EXTENDS Integers

CONSTANTS
  Evidence, \* what can be disclosed to a provider
  Paths,    \* file names the user may give
  NoPath    \* an option that was not given

ASSUME PathsAssumption == NoPath \notin Paths

VARIABLES
  opts,      \* the options, as parsed
  pc,        \* the step the invocation is at
  found,     \* the files there were at the start
  files,     \* per path: "absent", "foreign", "evidence", "bundle" or "report"
  stdout,    \* what standard output has been given
  caller,    \* "waiting", or the step at which the signal came
  progress,  \* the progress line: "open", "closed" or "broken"
  verdict,   \* the diagnosis, see AdvicePromise
  received,
  disclosed,
  error,     \* "none", "usage", "canceled" or "failure"
  status     \* exit status, -1 while running

vars == <<opts, pc, found, files, stdout, caller, progress, verdict, received, disclosed, error, status>>

advice  == <<verdict, received, disclosed>>
outputs == <<files, stdout>>

Advice == INSTANCE AdvicePromise

Options ==
  [source : {"core", "file", "stdin"}, system : BOOLEAN, ai : BOOLEAN, context : BOOLEAN,
   export : Paths \cup {NoPath}, bundle : Paths \cup {NoPath}, output : Paths \cup {NoPath},
   dryRun : BOOLEAN]

(* aiEnabled and hasLiveCollectionOptions: a source context needs a        *)
(* profile, system context needs live collection, and AI asks for it.      *)
Normal(o) ==
  /\ o.context => o.ai
  /\ o.system => o.source = "core"
  /\ o.ai /\ o.source = "core" => o.system

Init ==
  /\ opts \in {o \in Options : Normal(o)}
  /\ pc = "parse"
  /\ found \in [Paths -> {"absent", "foreign"}]
  /\ files = found
  /\ stdout = "nothing"
  /\ caller = "waiting"
  /\ progress = "open"
  /\ Advice!Init
  /\ error = "none"
  /\ status = -1

-----------------------------------------------------------------------------
Goto(step) == pc' = step /\ UNCHANGED error

(* The rest of the function is skipped; deferred calls close the progress  *)
(* line, whose error no longer matters.                                    *)
Fail(why) == pc' = "exit" /\ error' = why

Succeed == pc' = "exit" /\ UNCHANGED error

BugAllowDryRunFiles(o) ==
  /\ o.dryRun => o.bundle # NoPath
  /\ o.bundle # NoPath => o.bundle \notin {o.output, o.export}

(* The rows of validateOptions that concern files.                         *)
ValidOptions(o) ==
  /\ o.dryRun => /\ o.bundle # NoPath
                 /\ o.output = NoPath /\ o.export = NoPath
  /\ o.bundle # NoPath => o.bundle \notin {o.output, o.export}

Parse ==
  /\ pc = "parse"
  /\ IF ValidOptions(opts) THEN Goto("select") ELSE Fail("usage")
  /\ UNCHANGED <<opts, found, outputs, caller, progress, advice, status>>

(* The configuration is read and a profile chosen, only with AI.           *)
SelectGenerator ==
  /\ pc = "select"
  /\ \/ Goto("obtain")
     \/ opts.ai /\ \E why \in {"failure", "usage"} : Fail(why)
  /\ UNCHANGED <<opts, found, outputs, caller, progress, advice, status>>

(* A child that a cancellation kills ends as a failed command, one that    *)
(* cannot be started any more with the cancellation.                       *)
ChildFails == Fail("failure") \/ (caller # "waiting" /\ Fail("canceled"))

RunCore ==
  /\ pc = "obtain"
  /\ opts.source = "core"
  /\ \/ Goto("export")
     \/ opts.system /\ Goto("retry")
     \/ ChildFails
  /\ UNCHANGED <<opts, found, outputs, caller, progress, advice, status>>

BugRetryAgain ==
  /\ pc = "retry"
  /\ Goto("export") \/ Goto("obtain") \/ ChildFails
  /\ UNCHANGED <<opts, found, outputs, caller, progress, advice, status>>

(* An older Jobman did not know --system: once more without it.            *)
RetryCore ==
  /\ pc = "retry"
  /\ Goto("export") \/ ChildFails
  /\ UNCHANGED <<opts, found, outputs, caller, progress, advice, status>>

(* Reading a file or standard input does not look at the context.          *)
ReadEvidence(source) ==
  /\ pc = "obtain"
  /\ opts.source = source
  /\ Goto("export") \/ Fail("failure")
  /\ UNCHANGED <<opts, found, outputs, caller, progress, advice, status>>

BugReplaceFile(path, what, step) ==
  /\ \/ files' = [files EXCEPT ![path] = what] /\ Goto(step)
     \/ Fail("failure") /\ UNCHANGED files
  /\ UNCHANGED stdout

(* securefile.WriteAtomic: the file appears whole where there was none.    *)
(* Any failure leaves things as they were, except a temporary name that    *)
(* cannot be removed: then the file is there and the call still fails.     *)
Publish(path, what, step) ==
  /\ \/ /\ files[path] = "absent"
        /\ files' = [files EXCEPT ![path] = what]
        /\ Goto(step) \/ Fail("failure")
     \/ Fail("failure") /\ UNCHANGED files
  /\ UNCHANGED stdout

ExportEvidence ==
  /\ pc = "export"
  /\ IF opts.export = NoPath
     THEN Goto("enrich") /\ UNCHANGED outputs
     ELSE Publish(opts.export, "evidence", "enrich")
  /\ UNCHANGED <<opts, found, caller, progress, advice, status>>

(* A stage that looks at the context first.                                *)
Stage(step) ==
  \/ caller # "waiting" /\ Fail("canceled")
  \/ caller = "waiting" /\ (Goto(step) \/ Fail("failure"))

Enrich ==
  /\ pc = "enrich"
  /\ Stage(IF opts.context THEN "source" ELSE "analyze")
  /\ UNCHANGED <<opts, found, outputs, caller, progress, advice, status>>

CollectSource ==
  /\ pc = "source"
  /\ Stage("analyze")
  /\ UNCHANGED <<opts, found, outputs, caller, progress, advice, status>>

BugAnalyzeUnchecked ==
  /\ pc = "analyze"
  /\ \/ opts.ai /\ Goto("generate") /\ UNCHANGED advice
     \/ ~ opts.ai /\ Advice!Advise("fallback") /\ disclosed' = {} /\ Goto("close")
  /\ UNCHANGED <<opts, found, outputs, caller, progress, status>>

(* The deterministic engine, which is the whole diagnosis without AI.      *)
Analyze ==
  /\ pc = "analyze"
  /\ \/ /\ Advice!Refuse
        /\ Fail(IF caller = "waiting" THEN "failure" ELSE "canceled")
     \/ /\ caller = "waiting"
        /\ opts.ai
        /\ Goto("generate")
        /\ UNCHANGED advice
     \/ /\ caller = "waiting"
        /\ ~ opts.ai
        /\ Advice!Advise("fallback")
        /\ disclosed' = {}
        /\ Goto("close")
  /\ UNCHANGED <<opts, found, outputs, caller, progress, status>>

(* The augmenter.  No adapter sends once its context is done.              *)
Expose ==
  /\ pc = "generate"
  /\ caller = "waiting"
  /\ Advice!Expose
  /\ UNCHANGED <<opts, pc, found, outputs, caller, progress, error, status>>

Generate ==
  /\ pc = "generate"
  /\ \/ \E kind \in {"fallback", "mixed"} : Advice!Advise(kind) /\ Goto("close")
     \/ /\ Advice!Refuse
        /\ \/ Fail("failure")
           \/ caller # "waiting" /\ Fail("canceled")
  /\ UNCHANGED <<opts, found, outputs, caller, progress, status>>

BugIgnoreProgressError ==
  /\ pc = "close"
  /\ progress' \in {"closed", "broken"}
  /\ Goto("bundle")
  /\ UNCHANGED <<opts, found, outputs, caller, advice, status>>

CloseProgress ==
  /\ pc = "close"
  /\ \/ progress' = "closed" /\ Goto("bundle")
     \/ opts.ai /\ progress' = "broken" /\ Fail("failure")
  /\ UNCHANGED <<opts, found, outputs, caller, advice, status>>

(* A write to standard output may stop anywhere.                           *)
WriteStdout(what) ==
  /\ \/ stdout' = what /\ Succeed
     \/ stdout' \in {"nothing", "part", what} /\ Fail("failure")
  /\ UNCHANGED files

WriteBundle ==
  /\ pc = "bundle"
  /\ IF opts.bundle = NoPath
     THEN Goto("report") /\ UNCHANGED outputs
     ELSE \/ Fail("failure") /\ UNCHANGED outputs
          \/ opts.dryRun /\ WriteStdout("inventory")
          \/ ~ opts.dryRun /\ Publish(opts.bundle, "bundle", "report")
  /\ UNCHANGED <<opts, found, caller, progress, advice, status>>

BugIgnoreWriteError ==
  /\ pc = "report"
  /\ Succeed
  /\ IF opts.output = NoPath
     THEN stdout' \in {"nothing", "part", "report"} /\ UNCHANGED files
     ELSE /\ \/ files[opts.output] = "absent" /\ files' = [files EXCEPT ![opts.output] = "report"]
             \/ UNCHANGED files
          /\ UNCHANGED stdout
  /\ UNCHANGED <<opts, found, caller, progress, advice, status>>

WriteReport ==
  /\ pc = "report"
  /\ IF opts.output = NoPath
     THEN WriteStdout("report")
     ELSE Publish(opts.output, "report", "exit")
  /\ UNCHANGED <<opts, found, caller, progress, advice, status>>

ExitCode == CASE error = "none" -> 0 [] error = "usage" -> 2 [] error = "canceled" -> 130 [] OTHER -> 1

(* The error message goes to standard error, which may fail too.           *)
Exit ==
  /\ pc = "exit"
  /\ pc' = "gone"
  /\ \/ status' = ExitCode
     \/ error # "none" /\ status' = 1
  /\ UNCHANGED <<opts, found, outputs, caller, progress, advice, error>>

-----------------------------------------------------------------------------
(* NotifyContext is in force from collection on.                           *)
Listening == pc \notin {"parse", "select", "exit", "gone"}

Signal ==
  /\ Listening
  /\ caller = "waiting"
  /\ caller' = pc
  /\ UNCHANGED <<opts, pc, found, outputs, progress, advice, error, status>>

ForeignCreate(path) ==
  /\ pc # "gone"
  /\ files[path] = "absent"
  /\ files' = [files EXCEPT ![path] = "foreign"]
  /\ UNCHANGED <<opts, pc, found, stdout, caller, progress, advice, error, status>>

Step ==
  \/ Parse \/ SelectGenerator \/ RunCore \/ RetryCore \/ ReadEvidence("file") \/ ReadEvidence("stdin")
  \/ ExportEvidence \/ Enrich \/ CollectSource \/ Analyze \/ Expose \/ Generate \/ CloseProgress
  \/ WriteBundle \/ WriteReport \/ Exit

Done == pc = "gone" /\ UNCHANGED vars

Next ==
  \/ Step
  \/ Signal
  \/ \E path \in Paths : ForeignCreate(path)
  \/ Done

(* What lasts as long as somebody else likes.  The Jobman child has no time *)
(* limit, and no WaitDelay bounds the wait for whoever inherited its pipes, *)
(* not even once a signal has killed it; an evidence file may be a pipe;   *)
(* and a write to a standard stream returns when its reader has room.      *)
Waiting ==
  \/ pc \in {"obtain", "retry", "close", "exit"}
  \/ pc = "bundle" /\ opts.dryRun
  \/ pc = "report" /\ opts.output = NoPath

(* Every other step ends by itself or with its context.                    *)
Spec == Init /\ [][Next]_vars /\ WF_vars(~Waiting /\ Step)

-----------------------------------------------------------------------------
Places == {"parse", "select", "obtain", "retry", "export", "enrich", "source", "analyze",
           "generate", "close", "bundle", "report", "exit", "gone"}

TypeOK ==
  /\ opts \in Options
  /\ pc \in Places
  /\ found \in [Paths -> {"absent", "foreign"}]
  /\ files \in [Paths -> {"absent", "foreign", "evidence", "bundle", "report"}]
  /\ stdout \in {"nothing", "part", "report", "inventory"}
  /\ caller \in {"waiting"} \cup Places
  /\ progress \in {"open", "closed", "broken"}
  /\ verdict \in {"pending", "error", "fallback", "mixed"}
  /\ received \subseteq Evidence /\ disclosed \subseteq Evidence
  /\ error \in {"none", "usage", "canceled", "failure"}
  /\ status \in {-1, 0, 1, 2, 130}

Own(what) == {p \in Paths : files[p] = what}

(* Exit status 0 means that everything asked for is there, whole: the      *)
(* exported evidence, the bundle or its inventory, and the report in the   *)
(* one place it was asked for (cli.go:235-334).                            *)
SuccessDelivers ==
  status = 0 =>
    /\ opts.export # NoPath => files[opts.export] = "evidence"
    /\ IF opts.dryRun
       THEN stdout = "inventory"
       ELSE /\ opts.bundle # NoPath => files[opts.bundle] = "bundle"
            /\ IF opts.output = NoPath THEN stdout = "report"
                                       ELSE files[opts.output] = "report" /\ stdout = "nothing"

(* Nothing of a report, bundle or inventory leaves the program before the  *)
(* diagnosis has a verdict and the progress line is gone, and what leaves  *)
(* accounts for everything the provider was given (cli.go:281-306).        *)
DeliveredIsFinal ==
  Own("report") \cup Own("bundle") # {} \/ stdout # "nothing" =>
    /\ verdict \in {"fallback", "mixed"}
    /\ received \subseteq disclosed
    /\ progress = "closed"

(* A dry run creates no file (docs/SECURITY_MODEL.md:267, cli.go:295-300,  *)
(* 554-557).                                                               *)
DryRunCreatesNothing == opts.dryRun => Own("evidence") \cup Own("bundle") \cup Own("report") = {}

(* No file that exists is ever changed, whoever made it and however the    *)
(* paths coincide (cli.go:235, 301, 326).                                  *)
NothingOverwritten ==
  [][\A p \in Paths : files[p] # "absent" => files'[p] = files[p]]_vars

(* Status 130 means a signal, and that nothing was reported.               *)
CanceledReportsNothing ==
  status = 130 => /\ caller # "waiting"
                  /\ stdout = "nothing"
                  /\ Own("report") \cup Own("bundle") = {}

(* The exit status tells scripts what happened.                            *)
StatusIsTrue == SuccessDelivers /\ CanceledReportsNothing

(* A signal that comes before the provider is asked keeps every evidence   *)
(* from it, and the invocation fails (enrichment, engine and adapters look *)
(* at the context).                                                        *)
SignalStopsDisclosure ==
  caller \in {"obtain", "retry", "export", "enrich", "source", "analyze"} =>
    received = {} /\ status # 0

(* If whoever it waits for answers each time, the invocation ends: it asks *)
(* for nothing without end, the repeated Jobman command included           *)
(* (client.go:67-91), and no failure or signal leaves it stuck elsewhere.  *)
EndsIfAnswered == WF_vars(Waiting /\ Step) => <>(pc = "gone")

=============================================================================
