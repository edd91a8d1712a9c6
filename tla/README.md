# A TLA+ verification project for jobman-diagnose

`jobman-diagnose` turns bounded evidence that Jobman exported about a failed job into a
diagnosis report. A deterministic engine always produces the report; with AI, an external
provider, which is not trusted, may add hypotheses, reorder the recommended actions and cite
evidence, and the report must say what was disclosed to it. This directory holds TLA+ modules
that model the program, TLC runs that check them on small instances, and TLAPS proofs of their
main results for every value of their constants.

All source positions are relative to the repository (`src/` in `PROJECT.json`).

## 1. Inventory

| part | code | state | operations | what is hard |
|---|---|---|---|---|
| invocation | `internal/cli/cli.go`, `cmd/jobman-diagnose` | the signal context, the progress reporter, the outputs written so far | `runDiagnosis` from options to exit status | a signal between any two stages; several outputs published one after the other; what may be reported when |
| generated diagnosis | `internal/generation/augmenter.go` | the deterministic report, the prepared request, the request deadline | `Diagnose`, `reconcile`, `handleFailure`, `sealFallback` | an untrusted answer, a deadline and a cancellation race; the report must stay authoritative and account for every disclosure |
| evidence projection | `generation/projection.go`, `causal_context.go` | none (pure) | `Prepare`, `selectLogContexts` | shared byte budgets, order of omission, rounding to lines |
| proposal codec | `provider/codec.go`, `schema.go` | none | `SealRequest`, `VerifyRequest`, `DecodeProposal` | what an answer may claim |
| command bridge, HTTP providers | `provider/commandbridge`, `provider/ollama`, `provider/openaicompat` | a child process or a connection, bounded buffers | `Generate` | pipes that fill, process groups that outlive their leader, late answers |
| report codec | `diagnosis/codec.go`, `shared.go`, `evidence.go` | none | `Seal`, `Encode`, `Decode` | the invariants a report must satisfy to be sealed |
| deterministic engine | `internal/engine` | the candidates found so far | `Prepare`, `Diagnose` | which of forty rules outranks which, evidence of other runs, citations made by functions that know nothing of each other, cancellation inside loops |
| core client | `internal/coreclient` | a child process, capped buffers | `Collect`, `DecodeEvidence` | compatibility retry, output limits, cancellation |
| enrichment | `internal/enrichment` | the items collected so far | `Collect`, `structuredRanges` | four limits that interact, and the order of what is found |
| source context | `internal/sourcecontext` | a file on disk | `Collect` | a file that changes while it is inspected and read |
| private file publication | `internal/securefile` | temporary file, destination | `WriteAtomic`, `WriteAtomicReplace` | concurrent processes, failures of every call, kills, power failures |
| progress line | `internal/cli/progress.go` | spinner goroutine, two channels, terminal line | `Phase`, `Close`, `run` | interleavings with the invocation, first error, rendezvous |
| support bundle | `internal/supportbundle` | none | `New`, `Encode`, `WriteInventory` | dry run creates nothing |
| configuration, options | `internal/config`, `internal/cli/cli.go` | none | `LoadFile`, `SelectProfile`, `validateOptions` | which options combine, what is disclosed by default |
| doctor | `internal/doctor` | none | `Run` | a sequential list of probes |
| evaluation and release gate | `internal/evaluation`, `devel/evaluate` | counters, results and the first answer of a case | `RunWithOptions`, `AssessPromotion` | counters and violations computed apart; ratios over nothing |
| presentation, tools | `internal/presentation`, `devel/` | none | rendering, build-time generators | - |

How they interact. The invocation (one goroutine, plus the spinner's) obtains evidence through
the core client, a file or standard input, enriches it, optionally attaches a source file, and
calls one diagnostician: the engine, or the augmenter that wraps it. The augmenter calls the
engine, the projection, one provider adapter and the codecs, and tells the progress line about
its phases through a callback. The release gate calls either diagnostician once per case and
repetition and counts what the reports contain. The outputs (exported evidence, support bundle, report) go
through private file publication or to standard output. State is shared only between the
invocation and the spinner (channels), between the program and other processes (files), and
between an adapter and its provider (pipes, sockets).

## 2. Properties that make each part correct

- **Generated diagnosis.** Deterministic findings keep their order, text and rank; actions are a
  permutation of the trusted ones plus at most one guidance; a fallback is the complete
  deterministic report; whatever reached the provider is in the manifest of the report that is
  returned; no answer makes sealing fail; the call returns.
- **Projection and log contexts.** Only approved classes are shown, each within its own limits;
  nothing shown names anything else; a request is complete or refused; excerpts hold the end of
  their diagnostic, agree with their own line and byte numbers and fit the budget.
- **Engine, enrichment and report codec.** Diagnosis fails only on evidence it must refuse or on a
  cancellation; a report cites what exists and only allows listed actions; exact facts outrank what
  the target wrote; the last collected message of a log outranks earlier ones; a report on one run
  rests on nothing of another; a cancellation never thins a report out; the same evidence gives the
  same report (it does not: finding 4); the last message of a log is the primary finding and the others
  stay findings (not always: finding 5); a success needs no retry (not always: finding 6).
- **Evaluation.** What passes counts as perfect and what does not pass is counted; a promotion is
  earned by every execution of every case.
- **Command bridge.** An answer is the whole output of a command that ended well; the failure code
  is true of what happened; the command is never blocked by a full buffer; the request returns.
- **Invocation.** Exit status 0 means every output asked for is in place, 130 that nothing was
  reported; nothing is overwritten; a dry run creates nothing; a signal before the analysis stops
  any disclosure; the program ends if those it waits for answer.
- **Progress line.** The line is clear when the report is written, shows the current phase, and a
  terminal error is returned; closing never hangs.
- **Private files.** The destination is an atomic register of complete files, and a result says
  what happened.
- **Source snapshot.** With exact modification times, data returned is what the path named at one
  moment; the file is closed.

## 3. Modules

| module | models | composed with |
|---|---|---|
| `AdvicePromise` | what a caller may rely on of any generated diagnosis (abstract) | implemented by `Augmenter`, used by `Invocation` |
| `Augmenter` | `Augmenter.Diagnose`, reconciliation, `validateProposal`, the rules of `Seal` that reconciliation can break; provider, deadline and caller as concurrent parties | refines `AdvicePromise` |
| `Projection` | `Prepare`, `projectEvidence`, diagnostic lines, `projectDeterministic`, and `validateRequest` of the request that is sealed | takes log contexts as `LogContext` may give them |
| `LogArtifacts`, `LogContext` | `selectLogContexts`: ranking, shares of the budget, byte windows, rebased diagnostics | `Projection`, in `MCDisclosure` |
| `Enrichment` | `structuredRanges`: the recognizers, their limits and the order of what they find (operators only) | extended by `Engine` |
| `ReportCodec` | `Seal`, `ValidateAgainstEvidence`, `VerifyFailureEvidence`, for reports without generated content (operators only) | extended by `Engine` |
| `Engine` | `Prepare` and `Diagnose` of the deterministic engine, loop by loop, under cancellation | `Enrichment`, `ReportCodec`; `Evaluation`, in `MCDiagnosis` |
| `Evaluation` | `RunWithOptions`, `runCase`, `summarize` and `AssessPromotion` | takes answers as the engine or the augmenter may give them |
| `CommandBridge` | `Generator.Generate` with the goroutines of `os/exec`, the process group, a helper process, pipes and limited buffers | the adapter actions of `Augmenter` are what it can do |
| `Invocation` | `runWithEnvironment`, `runDiagnosis`, `validateOptions` on outputs, `ExitCode`; the signal; other programs creating files | takes a diagnosis as steps of `AdvicePromise`, publication as one step of `AtomicPublish` |
| `Progress` | `spinnerProgress`, `plainProgress` and the calls of `runDiagnosis` to them | - |
| `AtomicPublish` | the destination as one register of complete files (abstract) | implemented by `SecureFile` |
| `SecureFile` | `writeAtomic`, one action per system call, for any number of processes | refines `AtomicPublish` |
| `SourceSnapshot` | `readSource` and `stableSourceRead`, one action per system call, among writers | - |
| `Lists` | what loops over lists collect: the elements at some positions, totals (operators only) | used by `Augmenter`, `Projection`, `LogContext`, `Enrichment`, `Engine` |

`MC<module>.tla` and its `.cfg` files are the instances TLC checks, the `...Proofs` modules hold the
theorems: one per component, `DisclosureProofs` for `Projection` and `LogContext` together,
`GenerationProofs` for `Augmenter` and `Evaluation` (what generated content is admitted, and how it
is measured), `FileProofs` for `SecureFile` and `SourceSnapshot`, `EngineProofs` for `Engine` with
the `Enrichment` and `ReportCodec` it extends, and `ListProofs` for the lemmas on lists that they
rest on. `MCLogs` holds the logs of `LogContext`'s instances. `MCDisclosure` runs two components one
after the other as `Prepare` does, the selection of log contexts before the rest; `MCDiagnosis` puts
the engine and the release gate next to each other, as `devel/evaluate` does; `MCFiles` the two
places where the program shares files with other processes (`SecureFile`, `SourceSnapshot`), and
`MCProcesses` the two where it waits for goroutines of its own (`CommandBridge`, `Progress`). In all
of them, every beginning of one part is combined with a state of the other in which that has nothing
to do, so that the state spaces add up rather than multiply. Operators named `Bug...` are deliberate
mistakes that no definition uses: put in place of the definition after them, each makes one property
fail, which shows that the property can see such a mistake (`mutants` in `PROJECT.json`).

### How state and actions correspond to the code

**Augmenter.** `pc` is the place in `Diagnose`: `BaseDiagnose` (augmenter.go:80-92), `Prepare`
(93-96), then the provider's call (`Send`, `Answer`, `AdapterFails`, `AdapterGivesUp` are the
adapter's side; `GenerateFailed` and `GenerateAnswered` the return, 99-108) and `Judge`
(109-138: provenance, validation, abstention, reconciliation). `DeadlineExpires` and
`CallerCancels` act at any time, so that the order in which the code looks at them matters.
A report is a record of findings, actions, cited evidence, missing information, warnings and
manifest; `Reconciled` and `Fallback` are the functions that build one, `Sealable` the rules of
`diagnosis/codec.go` that the result must satisfy. Texts, confidences and digests are left out.

**Projection.** `pc` runs through `Prepare`: items class by class (`ProjectItems`, one step per
class, in the code's order), logs, source, notices, findings, sealing, encoding. `projection` and
`manifest` are the two values the code builds side by side, and `ValidProjection` compares them
as `validateProjection` does. Sizes come with the evidence; whether the encoded request fits is
free. Diagnostic lines are kept as size, part in the format, and presence of a control character.

**LogContext.** Bytes are of four kinds (newline, the two bytes of a character, any other), which is
what line numbers and the replacement of invalid text depend on. `step` is the place in the
selection; its actions carry `Select...` names where `Projection` has the plain ones. `Rank`, `Take`, `Fit` are the
loops of `selectLogContexts` and `projectLogContext`; offsets are the code's, from 0.

**Enrichment.** A log is a sequence of lines; `is` says which structure the byte matching finds in a
line and `says` which message `ClassifyDiagnostic` names. Each recognizer is an operator that gives
its ranges in order, `Fill` is how two of the four limits are applied (a list that already exceeds
one takes everything more), and `StructuredRanges` sorts by place and code what the first
`4 * MaximumLines` lines give (`SplitLines`). The sort of the code (collector.go:155) is not stable: the
ranges it may swap are two compiler diagnostics that start at one place, which the engine does not
tell apart, and the model lists them as found. Offsets are line numbers, which order ranges as bytes
do; the other bound on a range, 64 KiB (collector.go:349, 358), is left out of `BoundedEnd`, as nothing
in the engine depends on where a range ends.

**ReportCodec.** `Valid`, `ValidateAgainstEvidence` and `ValidFailureEvidence` are the conjunctions
of the rules of diagnosis/codec.go, each under its name in the code. Lists that `Seal` sorts and
compacts are sets, and a digest is the content it is computed from.

**Engine.** `pc` runs through `Diagnose`: `collect` (enrichment.Collect, one artifact a step),
`verify` (engine.go:46-57), `classes` and `artifacts` (the loops over failure classes and logs, one
element a step), `enriched` (what is derived from enrichment and history, and the last look at the
context), `report` (ranking, advice, citations, sealing: no look at the context any more). `Cancel`
may happen at any step before that, `GiveUp` is what a loop does that notices it. `Again` diagnoses
the same evidence once more. Candidates are records of priority, code and support; `Ranked`,
`Findings`, `ActionsFor`, `Warnings`, `RetryFor` and `BuildCitations` are the functions of engine.go
and advice.go; `ApplySharedReport` is shared.go's.

**Evaluation.** `RunCase` is one execution: a member of `Answers` says how far it came and what the
comparisons with its report found, `RunCaseViolations` and `RunCaseCounters` are the two things the
code derives from it in separate branches. `Compared` is the comparison with the first answer of
the same case. `Summarize` computes the metrics and the assessment in one step, as nothing happens
in between; `Abort` is a cancelled evaluation, which gives no summary.

**CommandBridge.** `leader`, `helper` and `holds` are the processes and their hold on the pipes;
`copier`, `unfed` and the watcher are goroutines of `os/exec`; `Reap`, `StopWatching`, `Join`,
`DelayExpires` are the parts of `Cmd.Wait`; `Outcome` is the switch of command.go:110-145 in its
order. The command and its helper may do anything at any time, or nothing any more.

**Invocation.** One action per stage of `runDiagnosis`; `error` is the error returned, `status` the
exit status, `files` what stands at each path, `received` what the provider was given.
`Listening` says where the signal context exists, and each stage does or does not look at it as
the code does. `Waiting` are the steps that wait for somebody else: the Jobman command, the readers of
the standard streams, and evidence files, which may be pipes.

**Progress.** The channels are unbuffered, so a send and its receipt are one step; `line` and
`printed` are the terminal. Ticks and the start delay may come at any time.

**SecureFile.** An inode per writer, whose data survive a power failure only once synchronized;
directory entries in memory and on disk; `Kill`, `ForeignWrite`, `WriteBack` and `PowerFailure` are
the environment. Every call may fail.

**SourceSnapshot.** A file is a sequence of blocks, and others may truncate, overwrite, extend,
replace or link it between any two system calls. `exact` tells whether the file system's clock
distinguishes every two writes.

## 4. Runs

| run | instance | distinct states | what it shows |
|---|---|---|---|
| `augmenter` | 4 pieces of evidence, 2 engine reports, the product of 6 lists of hypotheses, 5 of actions, 4 of missing information, forged and malformed answers | 171 872 | authority of the deterministic result, completeness of the manifest, agreement of progress and outcome, refinement of `AdvicePromise`, termination |
| `augmenter_cancellation` | the same | violation | finding 1 |
| `disclosure` | logs: every log of up to 4 bytes of all kinds with up to 2 diagnostics or one cut after 2 bytes, every log of up to 6 valid bytes, pairs of logs in every order, budgets of 0 to 5 bytes; bundles: 3 sets of items, 4 of logs, 5 formats of diagnostics, 3 of snapshots, 4 profiles whose limits one item or one byte exceeds, every approval | 556 980 | excerpts are valid, within the budget, hold the end of their diagnostic, and keep its text; disclosure within approval and limits, completeness, agreement with the program's own validation |
| `log_context_diagnostic` | valid logs of up to 5 bytes | violation | finding 2 |
| `projection_lines` | one message with a control character | violation | finding 3 |
| `diagnosis` | engine: six families of evidence (recorded facts of up to 3 runs, one log of up to 4 lines, two logs local and shared, policy with history, pairs of omissions, shared jobs), with limits of 3 messages, 3 and 4 ranges, 4 items and 3 lines; gate: 3 corpora of 2 cases, 2 repetitions, 10 ways an execution can go, 3 policies | 482 677 | reports seal, are ranked as documented, never borrow from another run, survive a cancellation whole or not at all; a promotion is earned |
| `engine_determinism` | two failure classes over four runs, diagnosed twice | violation | finding 4 |
| `engine_messages` | a log with five messages, and one that repeats its message, under the code's own limits | violation | finding 5 |
| `engine_retry` | a successful run with and without a failed notification and a message in its log | violation | finding 6 |
| `invocation` | every combination of options over 2 paths | 190 957 | truth of the status, finality of outputs, dry runs, signals, no overwriting |
| `processes` | a request of 1 to 3 units, of which 2 are accepted, a pipe of 1, buffers of 1 and 0, 2 writes; the three ways the phases end | 51 043 | whole answers, true failure codes, consumed output, return; the terminal line and the goroutine under every interleaving |
| `files` | 2 publishing processes of either kind, 1 power failure; 2 source files of up to 3 blocks, 2 accepted, 3 writes | 1 562 643 | refinement of the register, truth of results; a read is a moment |

Why these bounds are enough to be interesting. Two hypotheses and two actions are the least that
can be duplicated, swapped or dropped; two paths the least by which two of three outputs coincide
and the third differs; two writers and one outage the least for a race and a recovery, and the
theorems cover any number of writers. Six bytes hold a diagnostic between two other lines with a
window that reaches into them; two bytes are one character. A buffer of nothing and one of one
unit show both sides of a limit, and a pipe smaller than the request makes the feeder wait. Three
writes are what a mixture of two contents with matching metadata takes. The limits of the engine's
instance keep the order of the code's (4 messages, 8 and 12 ranges, 32 items, 256 lines) at a size
that logs of four lines reach and exceed: a fifth message, a list that is longer than its limit
before the next recognizer starts, a bundle that is full before its last log. Two runs are the
least with a historical one, three the least with two of them; two cases of two executions the least
in which a failed one can hide behind the ratio of the others. Symmetry is used where
writers or files are interchangeable and no temporal property is checked that it could hide:
in `files` every property is a safety property. Deadlock is checked in every run: each
specification has an explicit `Done` step at its end, so that stopping anywhere else is reported.

## 5. Fairness

- `Augmenter`: the diagnosis runs (`Diagnose`), the request deadline expires, and an adapter whose
  context is done gives up; `CommandBridge` shows the last for commands, and the runtime the
  first two. Nothing is assumed of the provider or the caller.
- `CommandBridge`: the goroutines of `Generate`, the kill after the context is done, and the
  deadline. The command, its helper, the copiers and the feeder need not take another step:
  `WaitDelay` (command.go:107) is what makes the request return.
- `Invocation`: weak fairness of the steps that wait for nobody. Those of `Waiting` wait for others,
  and nothing in the code makes these answer: the Jobman child runs without a time limit and without
  a wait delay after its kill (coreclient/client.go:225-233), so that a hung child, or a descendant
  that holds its pipes, keeps the invocation waiting, the latter even after a signal; the read of
  standard input or of a pipe notices no signal (cli.go:573-599); and whoever reads the standard
  streams may stop reading. `EndsIfAnswered` therefore is conditional: *if* each step of `Waiting` that
  stays possible is eventually taken, the invocation ends. The provider is not among them, as its
  request returns by itself (`Termination` of `Augmenter`, `Returns` of `CommandBridge`).
- `Progress`: weak fairness of the invocation and of each rendezvous, which the Go scheduler gives
  to goroutines that can proceed; none for ticks or the delay.
- `Engine`: weak fairness of the diagnosis itself; its runs check safety only, since every loop is
  over a finite list. The other modules state safety only.

## 6. Theorems

All for every value of the constants, from the named assumptions (`...Assumption`) of each module,
which TLC evaluates in the runs. Each `...Proofs` module strengthens what is proved to an
inductive invariant `IInv`, of named parts:

| module | inductive invariant | results |
|---|---|---|
| `GenerationProofs`, of `Augmenter` | what each place implies about request, answer and disclosure (`ControlInv`), and about the report built (`ReportInv`) | `TypeCorrect`, `FallbackSound`, `FindingsAuthoritative`, `ManifestIsComplete`, `ProgressIsTrue` (with what the events announced so far imply, `EventsInv`), `DeterministicActionsStay`, `AnswersSeal` (a proposal that passes `ValidProposal` builds a report that `Sealable` accepts), `ImplementsPromise` (refinement, initial states and every step) |
| `FileProofs`, of `SecureFile` | how far each writer is implies the state of its inode (`WriterInv`); every name leads to a complete synchronized inode (`NamesInv`) | `TypeCorrect`, `PublishedWhole`, `ResultTrue`, `CreationIsExclusive`, `ImplementsRegister` |
| `ProgressProofs` | where the two goroutines may meet (`MeetingInv`), what the line shows (`LineInv`), where the first error is kept (`ErrorInv`) | `TypeCorrect`, `TerminalLineIsTrue` (the line is clear when the report is written and shows the current phase), `ErrorIsReturned`, and that nothing is drawn after an error |
| `InvocationProofs` | stages passed, options that hold since, outputs delivered, the signal, the status | `TypeCorrect`, `StatusTrue` and the others of the run but liveness |
| `CommandBridgeProofs` | every unit written is in a pipe, kept, or discarded (`AccountInv`), what the streams' ends imply (`StreamInv`), and the outcome (`OutcomeInv`) | `TypeCorrect` and the safety properties of the run |
| `FileProofs`, of `SourceSnapshot` | what a file's metadata say of its content (`FileInv`, `FreshInv`), and what has been read of it (`ReadInv`, `ResultInv`) | `SnapshotTypeCorrect`, `SnapshotIsPointInTime`, `NothingStaysOpen` |
| `GenerationProofs`, of `Evaluation` | what is counted of results that all passed is perfect (`PassedInv`); a counter as high as it can be speaks for every result (`EarnedInv`), and an assessment without violations keeps the bounds of the policy (`Gate`) | `EvaluationTypeCorrect`, `PassedIsPerfect`, `PromotionEarned` |
| `EngineProofs` | candidates found so far are sound, and those of the stages passed are all there (`Progress`); a report comes from sound and complete candidates (`Outcome`) | `EngineInvariant`, `ReportAlwaysSeals`, `TrustedFactsRank`, `ReportsAreWhole`, `SharedReportsKeepToTheirRun`, `LastMessagesLead` |
| `DisclosureProofs`, of `LogContext` | the type invariant, which bounds what an attempt may take; each context is valid (`ResultInv`) and of a range of one log (`RangeInv`); what is shown and what is left keep to the limits together (`ShareInv`), each log at one place only (`OnceInv`) | `SelectTypeCorrect`, `SelectionIsValid`, `AnchorStays`, `SelectionKeepsLimits` |
| `DisclosureProofs`, of `Projection` | classes are taken in order and once (`OrderInv`, `SpentInv`), the manifest lists what is shown (`ListInv`), lists are complete (`CompleteInv`), and all that the validation compares holds as it is collected (`ContentInv`, `SealInv`) | `TypeCorrect`, `ApprovedOnly`, `CompleteOrRefused`, `PreparedIsValid` |
| `ListProofs` | none: lemmas | `NthCounts`, `PickedElements`, `AscendingOrder` (the elements at a set of positions, in order), `TotalSplits`, `TotalAppend` (sums), `Induction` and `Recursion` (a loop over a list of any length has a result, and what each of its steps keeps the result has), `KeptElements` (what passes a test, in order), `PlacesAreTaken`, `SortedElements` (a finite order has a place for each element, and the list by places is sorted) |

The properties are not inductive by themselves. That a class of the projection is within its
limits, for instance, survives the next class only because no later class adds to it, which needs
the order of the classes; that a published file is complete needs to be known of the temporary
file before it has its name.

Two arguments deserve a word. That a diagnostic lies in a context where its own text is
(`SelectionIsExact`) rests on `ContentSplits`: a log cut after a newline, or at its ends, has the
size of its parts, because no character and no run of invalid bytes spans the cut; diagnostics start
with a line, and only one that ends with a line is certain to lie in the content. That every
diagnostic line selected is valid (`SealAccepts`) is an induction over the loop of
`projectedDiagnosticLines`: `Recursion` gives the sequence of its intermediate results, `Induction`
carries the bounds on lines, bytes and text along it.

The theorems on the release gate compare two computations of the program. Violations and counters
of one execution are computed apart, in `runCase`; `PassedCounts` and `ExecutionEarns` say what each
implies of the other for one execution, and the loop only adds: a sum of parts none of which exceeds
its whole equals the whole only if each part does. That the useful diagnoses are counted against
*all* executions that require one needs `EarnedInv` to speak of the denominator too, which is
complete only when every execution asked the provider.

The theorems on the engine follow its pipeline, because no property of a report is visible in the
state before it. `EngineInv` says of each stage what the candidates collected so far are: each is
`SoundCandidate` (a code of the catalog, a priority that its code may have, support that is in the
evidence and, in a shared report on a run, belongs to that run or to the job), and those of
the loops that are over are there (`ClassesIn`, `ArtifactsIn`, `RangesIn`, together `Complete`).
Without the first part nothing is known of what a report cites, without the second nothing of what
leads it. A cancellation is why `ArtifactsIn` is claimed of the stage `enriched` only as long as the caller has not
cancelled: the artifact loop may have stopped early, and only the last look at the context
(`Settle`) makes the candidates complete. Then `RankedElements` (one candidate of every code, none
better, in a total order: `Ranked` sorts by priority, then code) turns priorities into ranks:
`TrustedFactsLead` and `LastWordLeads` compare what the tables allow a message (86 at most, and more than
84 only for the last word of a log) with the 90 and more of the exact classes. For the messages among
themselves (`LastMessagesLead`) that is not enough, as one candidate of each diagnosis remains:
`MessageIsCited` says that it cites a message, a last one where there is one, and `LastMessagesAhead`
that two diagnoses are ranked by whether one has a last message.
`ReportHolds` proves the report valid rule by rule of the codec: findings, actions, retry,
citations, references, limitations said once. That the ranges collected are of their log and in the
catalog rests on `StructuredRangesElements`, about what the recognizers find and the sort keeps.

What that assumes of evidence is `WellFormed`, which `EngineAssumption` demands of the bundles and
wrappers: an ID begins with the code it names; runs have increasing positive numbers; what describes
the job is recorded of the job; a log, or a collected range, names its kind; similar failures are
missing for one reason at most; shared jobs carry no failure classes; a bundle of the core has no
enrichment yet. These are what the core's exporter and `testdata/jobman-v2` give; the core is not in
this repository.

Loops are written with the operators of `Lists` or as recursive functions for the provers' sake: of the
folds, `SelectSeq` and `SortSeq` of the libraries they know nothing, of these the lemmas say enough.

Model-checked only: liveness (`Termination`, `Returns`, `EndsIfAnswered`), which is out of the
provers' reach, and the six findings, which no theorem could state.

## 7. Findings

1. `augmenter_cancellation`: a caller who cancels while an answer is arriving may be given a
   fallback report; the context is consulted only after `Generate` failed. SECURITY_MODEL.md:238
   says that cancellation always stops the operation.
2. `log_context_diagnostic`: a diagnostic whose last line exceeds the budget, in a log that goes
   on, selects nothing at all, although its end "is guaranteed to remain in the window".
3. `projection_lines`: a recognized message with a terminal colour or a tab inside is selected by
   the projection and refused by the request's validation, which ends the AI diagnosis; a case of
   the evaluation corpus has such a log and requires a generated cause.
4. `engine_determinism`: when two failure classes both recur over four runs, the order of a Go map
   (engine.go:738) decides which of them `secondary.repeated_failure` cites, and with it the
   citations and the identity of the report. ARCHITECTURE.md:76-78 says that fixed evidence gives
   the same `report_id`. The gate's own stability check compares fingerprints, which do not see it.
5. `engine_messages`: DETERMINISTIC_ANALYZERS.md:50-53 says that the final recognized range of a log
   is primary and earlier ones "remain separately cited findings". The enrichment stops at the first
   four messages of a log (collector.go:176), so that the message that ended a longer log is no range
   and the fourth leads instead; and of two ranges with one diagnosis the engine keeps the stronger
   only (engine.go:758-770), so that the other is cited nowhere. `FinalMessageIsPrimary` is about the
   lines of the log; it holds for a log of up to four messages with a diagnosis of their own each.
   What the code does guarantee, of the ranges collected, is `LastMessageLeads`.
6. `engine_retry`: DETERMINISTIC_ANALYZERS.md:72-73 says that success produces `not_applicable`. The
   verdict follows from the code of the primary finding (advice.go:149), and the finding of a success
   is a last resort: a successful run with a failed notification is advised `no`, and one whose log
   names a refused connection `after_delay`.

Known limits that the models show and no document denies: reading standard input does not notice a
signal, and a Jobman child that hangs, or leaves a descendant with its pipes, keeps the invocation
waiting; helpers of a provider command outlive a request whose command ended by itself; with
coarse modification times, an in-place write of equal size may leave a mixture; a published name
may be lost in a power failure; a diagnostic that `boundedEnd` cuts at its maximum of 64 KiB, within
a character of two bytes that ends the log, gets an end beyond the content (the half character alone
becomes a replacement of three bytes, the whole one stays two), which the validation of the request
refuses; the report and the exported evidence may be given one path, although
the message of the check names all three outputs (cli.go:558-559), and the report is then refused at
the end. In the engine: a shared report keeps the retry reasons of the local policy; ranges sealed
outside the program may be listed in any order, which `VerifyFailureEvidence` does not look at
(evidence.go:320-333). In the gate: some gates compare the policy's
denominator with another number than the metric was divided by (promotion.go:212-235), and content
metrics leave failed executions out, so that only the demands on the workload see them
(`PromotionIsEarned` is stated for policies that make them).

## 8. Not modelled, and assumptions

Assumed: nobody opens a named pipe in the place of
a source file; file identities are not reused and modification times not set back during a read;
names of temporary files are distinct; the diagnostics that enrichment finds in a log start with a
line, as `splitLines` gives them; the ids of a bundle's logs differ, as do those of its findings; a
source snapshot is not empty; a signal is delivered once; the labels of an evaluation case and what a
report contains of them are finite.

Assumed of the engine's inputs: items arrive sorted by identity, at most one item per code and run
where the core writes one, and at most one source context.

Not modelled, and why:

- the normalization of proposals and the heuristics on causes (`provider/codec.go`): they look into
  words, and a model that decides them by a label says nothing about them. `Augmenter` has their
  verdict (`acceptable`) as part of the answer;
- digests, identities and decoding in the report codec: a digest stands for its content;
- the mapping of HTTP status and body to failure codes, and the arguments and output limits of the
  core client: functions of one input, without state or concurrency beyond what `Augmenter` and
  `Invocation` let an adapter and the client do;
- the choice of a source file and of its lines: a function of text; the read that follows is
  `SourceSnapshot`;
- options, profiles, configuration and doctor: sequential rules without state. What they decide
  reaches the models as parameters (`approved`, `Profiles`, `ProfileLimits`, the options of
  `Invocation`);
- presentation, the layout of the support bundle, and the development tools other than the gate:
  wording, layout and build-time generation.

`PROJECT.json` names every component with its status.

## 9. Working on the project

A change of the code is followed from its lines to the definitions that `map` lists for them. The
order in which the parts were built is their order of importance: what is disclosed and accounted
for (`Augmenter`, `Projection`, `LogContext`), processes and files (`CommandBridge`, `SecureFile`,
`SourceSnapshot`), their composition (`Invocation`, `Progress`), and the deterministic result with
its gate (`Enrichment`, `ReportCodec`, `Engine`, `Evaluation`). What would add most next is to feed
`Projection` and `Augmenter` the reports of `Engine`, whose theorems say what the augmenter assumes
of its base report, instead of findings given with the evidence.
