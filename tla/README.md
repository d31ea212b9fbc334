# A verification project for AdmiTrace

AdmiTrace answers one question: for this admission request, which Webhooks
would Kubernetes 1.36.2 call, and why? It evaluates every Webhook of a
configuration against one immutable snapshot and explains each verdict with an
ordered trace. This directory holds TLA+ modules that model its core, the TLC
configurations that check them on small instances, and TLAPS proofs of the
results that matter most, for every value of the constants.

Source paths below are relative to the repository root.

## 1. Inventory

| component | non-test lines | state it keeps | operations |
| --- | ---: | --- | --- |
| `internal/contract` | 1067 | none (values) | result vocabulary, `WebhookEvaluation.Validate`, `DiscardTraceStep` |
| `internal/routing` | 661 | trace and `pending` problems of one Webhook | `ShouldCallHookPreCEL`, selectors, Exact and Equivalent rules |
| `internal/matchcondition` | 359 | one budget, one observation per condition | `Evaluate`, `preserveAuthorizationContext`, `explainResult` |
| `internal/compat/kube136` | 619 | CEL cost left, authorizer recorder | selectors, rules, exemption, condition filter, matcher reduction, defaults |
| `internal/evaluation` | 337 | the results so far | `Evaluator.Evaluate` |
| `internal/fixture` | 696 | none (immutable providers) | namespace, equivalence and authorizer lookups |
| `internal/snapshot` | 315 | target and temporary directories | `Writer.Write`, with its rollback and its deferred cleanup |
| `internal/manifest` | 1506 | the documents read so far | decoding of files, directories and stdin; one Scenario per resource and configuration; identity guard; coverage |
| `internal/adapter` | 430 | what was read so far | context resolution and its completeness |
| `internal/hydration` | 602 | client, selected context | GET-only reads with a status each |
| `internal/cli` | 1447 | the fixtures discovered and reported so far | `explain`, `test`, exit-code selection |
| `internal/scenario` | 611 | none | decoding, defaults and validation of one document |
| `internal/normalize` | 406 | none | prepared requests and Webhooks |
| `conformance/parity` | 319 | none | cases of the parity suites, `ValidateCases`, `CompareEvaluation` |
| `conformance/parity/gate`, `conformance/cmd/paritygate` | 855 | the results of the phases, a report file | the release gate: matrix, phases, coverage, exit code |
| `conformance/oracle` | test code | a control plane | observations of a real API server |
| `internal/render` | 454 | none | text and JSON output |
| `internal/resourcecatalog` | 237 | none | the embedded discovery catalogue |
| `cmd`, `hack` | 243 | none | entry point, release checks |

How they interact. `cli` decodes Scenarios (`scenario`) or manifests
(`manifest`); for manifests `adapter` collects context, offline or through
`hydration`, and `manifest.Builder` makes one Scenario for each resource and
configuration. `normalize` and `fixture` turn a Scenario into a snapshot;
`evaluation` takes its Webhooks one by one through `routing` and, when the
rules match, through `matchcondition`, which drives the CEL adapter of
`compat/kube136`. Results are validated by `contract`, guarded by `manifest`,
printed by `render` or exported by `snapshot`. Beside the program, the release
gate runs go tests that compare it with fixtures and with Kubernetes, reads
their output, and decides whether a candidate may be released. Evaluation is
sequential: a pipeline with deferred decisions. Concurrency, failure and
durability are met at the edges: two processes exporting to the same directory,
files and clusters that change while they are read, and test commands that fail.

Hard behaviours, and what would make each component correct:

* **routing**: a selector that cannot be evaluated is not acted on when it is
  met. It is deferred and settled later by whichever of several exits the
  Webhook takes. Correct when no exit forgets it, when the first problem
  controls, and when the verdict is the one a direct reading of the rules
  gives.
* **matchcondition, kube136**: conditions share one budget; a false condition
  outweighs an error, an unsupported or absent authorizer decision takes the
  result away from the failure policy, a budget overrun ends the list. Correct
  when those priorities hold for every mix, and when adding context never
  changes a determinate answer.
* **evaluation**: Webhooks share the snapshot only. Correct when nothing
  (budget, pending problems, kind) leaks from one to the next, and when every
  published evaluation meets the result contract.
* **snapshot**: a bundle is staged beside its target and renamed into place.
  Correct when nobody ever sees part of one, whatever call fails, whoever else
  writes, wherever the process or the machine stops, and when nothing is left
  behind.
* **adapter, hydration**: reads that are not atomic and partly fail. Correct
  when completeness is never overstated.
* **manifest, cli**: guards and summaries over many results. Correct when a
  result is never more definite than the identity and context behind it, every
  file and document that was given is accounted for, whatever happens to the
  files meanwhile, and the exit code reports the worst of all of them.
* **scenario, normalize**: correct when what is evaluated is what the document
  says, with the defaults of the API, and `test` and `explain` agree on it.
* **parity gate**: it decides from the output of tests it does not know. Correct
  when it passes only what was compared and agrees, and says why it does not
  pass.

`PROJECT.json` lists each hazard at its source line.

## 2. Modules

| module | models | how |
| --- | --- | --- |
| `Contract` | `contract/result.go`, `reason.go` | trace steps, evaluations and the validity rules as operators |
| `Routing` | `kube136/{selectors,rules,exemption,namespace}.go`, `routing/{selectors,exact}.go`, `fixture/{namespace,equivalence}.go` | the outcomes of one selector or one rule list |
| `MatchConditions` | `kube136/matchconditions.go`, `matchcondition/evaluator.go`, `fixture/authorizer.go` | one observation per condition, the matcher reduction, the authorizer priorities |
| `Evaluation` | `evaluation/evaluator.go`, `routing/precel.go` | the state machine, one action per pipeline stage |
| `Dispatch` | abstract | what an evaluation promises: one verdict per Webhook, no stages, no traces |
| `EvaluationProperties` | | the properties and the inductive invariant |
| `EvaluationProofs` | | proofs that the results are valid |
| `DispatchProofs` | | proofs of what is computed, and that it implements `Dispatch` |
| `SnapshotWriter` | `snapshot/snapshot.go` | one action per file-system call, for several runs |
| `AtomicExport` | abstract | what an export promises to whoever looks at the target |
| `SnapshotProperties` | | the properties and the two inductive invariants |
| `SnapshotProofs` | | its proofs |
| `IdentityGuard` | `manifest/evaluate.go` | taking an answer back when nobody said who asks, on evaluations and on verdicts |
| `Explanation` | `cli/explain.go`, `cli/exit.go`, `adapter/context.go`, `hydration/*.go`, `manifest/builder.go` | one command in resource mode: an action per cluster read, resource and result, and a cluster that changes meanwhile |
| `Judgement` | abstract | the verdict on one Webhook, without stages; used by `Dispatch`, `IdentityGuard` and `Explanation` |
| `ExplanationProperties` | | the properties |
| `ExplanationProofs` | | the invariant and proofs |
| `ExitCode` | `cli/exit.go`, `cli/explain.go` | the exit codes, their priority, and the code of one evaluation |
| `FileTree` | the files the offline commands read (external) | what a path is, and how others change it |
| `ScenarioInput` | `scenario/*.go`, `normalize/*.go`, `fixture` constructors, `kube136/{defaults,subresources}.go` | from a document to the snapshot that is evaluated: validation, defaults, preparation, as operators |
| `FixtureTest` | `cli/test.go`, `cli/scenario_input.go` | `admitrace test`: an action per argument, directory, entry and fixture |
| `ManifestInput` | `manifest/input.go`, `cli/explain.go` | `admitrace explain` up to resource mode: an action per input, directory entry and file read |
| `CommandLine` | | one run of either command, beside whoever changes the files |
| `CommandLineProperties` | | the properties |
| `CommandLineProofs` | | the invariant and proofs |
| `ParityCase` | `conformance/parity/case.go` | the cases: their validity, and the comparison with an evaluation |
| `ParityTests` | the go tests of `conformance/oracle` and `conformance/parity` | their verdicts and their output, under commands and control planes that fail |
| `ParityGate` | `conformance/parity/gate/matrix.go`, `conformance/cmd/paritygate/main.go` | the gate, one action per phase |
| `ParityGateProperties` | | the properties |
| `ParityGateProofs` | | its invariants and proofs |
| `DataLemmas` | | lemmas about sequences and numbers |
| `VerdictLemmas` | | lemmas about the verdicts of `Judgement` and the exit codes, cited by the proofs of `Evaluation`, `Explanation` and `CommandLine` |
| `MCEvaluation`, `MCSnapshot`, `MCExplanation`, `MCCommandLine`, `MCParityGate`, `Samples` | | the instances TLC checks |

`Evaluation` EXTENDS `MatchConditions` EXTENDS `Routing` EXTENDS `Contract`, as
the packages import one another; `Judgement` and with it `IdentityGuard`,
`ScenarioInput` and `Explanation` stand on `MatchConditions`; `ParityCase` stands
on `Contract`. `CommandLine` EXTENDS `FixtureTest` and `ManifestInput`, which
share `FileTree`, `ScenarioInput` and `ExitCode`. The state of a run of the
evaluator, of a command and of an export is apart, as it is in the program. What
ties them together is stated where they meet: `Explanation` and `ScenarioInput`
use the verdict of `Judgement`, which the run of `Evaluation` shows to be the one
the stages compute; `ManifestInput` ends where `Explanation` begins (`handed`);
and `Explanation` has the abstract outcomes of an export (nothing, a bundle, a
refusal).

### Evaluation

`snapshot` is the prepared input, `results` the evaluations published so far,
`stage` the routine about to run, and `trace`, `pending`, `kind`,
`observations`, `remaining` the locals of the Webhook in hand. Actions follow
the code: `CheckExemption`, `EvaluateNamespaceSelector`,
`EvaluateObjectSelector`, `EvaluateExactRules`, `EvaluateEquivalentRules`,
`StartMatchConditions`, `EvaluateCondition` (one turn of the loop of
`ForInput`) and `ReduceConditions` (the reduction, the trace and the dry-run
check). Each runs to its return, appended steps and discarded problems
included.

Data is abstracted to what the properties tell apart:

* a label selector is nil, a set of required labels, or invalid; labels are a
  set; a payload is absent, null or an object, which may fail to decode or to
  be a Namespace;
* a CEL expression is a *form*: a literal, a test of the kind it is handed, a
  disjunction or conjunction of authorizer checks, a compile error, a runtime
  error (with or without checks before it), or a form that makes the evaluator
  itself fail (`stops`);
* a cost is a small number. The real figures, 350000 for a check against a
  budget of 2.5 million, become `CheckCost = 2` and `CostBudget = 6`, so that
  the third check of a list, or its second checked condition, can be the one
  that overruns. The limit on a single call is a runtime error with queries;
* an authorizer query is a name; `SelectorQueries` and `InvalidQueries` say
  which of them the profile cannot represent or the recorder refuses.

`invalid` selectors are refused by scenario validation and reach `Evaluate`
through the package's own interface, as its tests do; a part of the snapshots
of `evaluation` uses them.

`Dispatch`, through `Judgement`, gives the verdict of a Webhook as one expression: excluded by
anything means skipped; an absent mapping means indeterminate; then the first
selector problem; then the conditions, completed and overrun, by their
priorities. It shares with `Evaluation` only the operators on data (what a
selector or a rule matches, what a condition costs and records). The order of
the stages, the deferral, the observations, their classification and reduction
are not in it, and that is what the refinement checks.

### Snapshot export

A *writer* is one run of the program. `at` is the file-system call it makes
next. A call may fail (with the error kind and the cleanup the code gives it),
and between two calls another writer may act, the process may crash (`Crash`)
or the machine may lose power (`PowerLoss`). A directory is `Absent`,
`NotDirectory` (a file or a symlink) or its set of entries; an entry is the
pair of whoever wrote it and its name, so that mixtures of two bundles and torn
files can be told from whole ones.

Durability. A rename becomes durable when the parent directory is synced; until
then `unsynced` holds the values a power loss may bring back. A staged bundle
becomes durable when its own directory is synced; of one that is not, any subset
of entries may survive. `built` is what the run was asked to write, including
empty, invalid, badly named, duplicate and Secret bundles.

Simplifications. Contents and modes of files are not modelled; a file is torn,
or complete and synced, as `writeSyncedFile` leaves it. The marshalling error
and the two checks of the caller's arguments (`snapshot.go` 141 to 146) return
before anything is touched and are left out. `os.Rename` refuses an existing
directory in its own check and the system call replaces one that is empty, so a
rename to an empty target may succeed or fail; the model allows both. On a
system that cannot sync directories `syncDirectory` reports success: what is
said of power losses assumes one that can. The temporary directories of a run
that power loss ended are never looked at again.

### Explanation

`command` is what the user asked for, `phase` the call `executeExplanation` or
`Resolver.Resolve` makes next. `Decode` refuses what is refused before anything
is read. `ConnectOffline`, `ConnectFails`, `ConnectMismatched` and
`ConnectVerified` are the four ways the profile check goes. `Discover`,
`ListValidating` and `ListMutating` are one cluster read each, `ResolveResource`
builds one resource and makes its Namespace read when it makes one, `Explain`
evaluates, guards and finalises all of them, unless one has metadata that a
request cannot have (`ExplainFails`), and `Export` is the snapshot. That a result
is invalid after the guard would end the command too; `GuardKeepsResultsValid`
shows that it is not.

`ClusterChanges` may happen between any two reads. A read returns what `cluster`
holds then, or fails with any of its statuses; `history` is every state the
cluster was in, `reads` what was asked and how it was answered (the version
request of the profile check is not in it). Completeness is the code's: `base`
for the dimensions all resources share, `contexts` for the Namespace of each,
and `FinalizeCompleteness` for what the evaluations turn out to lack.

A condition on the user holds the user it waits for and how it spells
`request.userInfo`, because the guard looks for the text. A CEL expression is
otherwise a form, as above. The commands have no equivalence mapping and no
authorizer decision to offer, as the program has no flag for them.

`Users`, `LabelSets` and `Unknowns` are not part of the behaviour: they are the
answers to questions nobody asked, which `NoVerdictGuessed` compares a
determinate verdict with.

### Commands over files

`invocation` is one command and the tree it finds; `ChangeTree` may replace a
file, a directory or a link between any two file-system calls of the command
(`Lstat`, `Stat`, `ReadDir`, `ReadFile`), at most `MaxTreeChanges` times. A text
is a sequence of lines, so that the cutting of a stream into documents (`---`
alone, `---` with something behind it, comments, nothing at all) is modelled and
not assumed. A document is a Scenario, a resource, a configuration, a Namespace,
or does not decode; a Scenario is what `ScenarioInput` validates, completes and
prepares.

`test`: `InspectFile`, `InspectOther` and `InspectDirectory` are the three fates
of an argument; `WalkRoot`, `ListDirectory`, `VisitFile` and `EndWalk` are the
walk of a directory (entries in byte order, links not followed); `EndDiscovery`
sorts what was found, `TestFixture` reads, evaluates and compares one file, and
`Summarize` folds the codes. `discovered` says for each path whether it is a
file or an error, `counted` is what `MaximumDocuments` limits.

`explain`: `ReadStdin`, `LookAt`, `ReadFile`, `ListEntries`, `InspectEntry`,
`ReadEntry` and `EndEntries` read one input; `Take` decides what it makes of the
command. The first input settles whether a Scenario is evaluated (and which
options are then refused) or the other inputs follow and all of them are handed
to resource mode.

Left out: flag parsing and `--user-extra`, the output, sizes in bytes and nesting
(a document that exceeds them does not decode), and a directory argument that
is replaced by a link between `Lstat` and `ReadDir`, which would be followed. The
path `./-` is not among the arguments.

### Parity gate

A *candidate* is all that a release decision is about: the matrix, the core
table, the fixtures of the two advanced suites, the names in the tables of the
differential and observation tests, what the product says of each case and what
Kubernetes does (`authority`). These tables are written apart and agree on
nothing but names, so the model lets each be wrong on its own.

`ParityTests` gives the verdict of every subtest of the five test functions and
turns it, with a fault, into the output of the command: whether it started, its
exit, whether its events decode, the events, and whether the two texts the gate
looks for are in it. The gate of `ParityGate` sees nothing else. `RunPhase` runs
the next phase with or without a fault: the go tool is missing, a package does
not build, a line is no event; the control plane does not come up or go down,
goes away during one subtest, or a subtest cannot remove its objects or close
its recorder; or a subtest misreads it. `Observe` knows a rejection by the API
status of an error and a skip by the absence of a call, so that a request the
server refuses for reasons of its own (`refused`: 429, 500, 503, 504) and a
configuration it has not picked up yet (`ineffective`: no test waits) look like
what the Webhook decided. `Seen` is what the tests see of `authority` under a
fault, and the history variable `observed` keeps it for each phase; no action
reads it, the properties compare with it. `CoverMatrix` is the coverage result;
`WriteReport` may fail. A phase has one fault at most. A case has one Webhook. The offline phase also runs unit and coverage tests whose subtests are
not named like cases; they are left out, and so is a report that a failing write
leaves torn.

## 3. What is checked

Model checking uses `CHECK_DEADLOCK FALSE`: the program returns when it is
done, and its models then have no further step.

| run | instance | distinct states | shows |
| --- | --- | ---: | --- |
| `evaluation` | 9 requests x 96 Webhooks x 12 fixtures and Webhooks whose selectors cannot be parsed; lists of up to 3 conditions with 16 authorizer fixtures; 3 Webhooks, two of them alike | 230,212 | every stage: valid results, ordered traces, no problem forgotten, of two problems the first controls, the priorities of errors, absent and unsupported decisions, false and overruns, more context never changes a determinate verdict, equal Webhooks agree, the failure policy decides problems of conditions only, the identity guard on each result, the verdict of `Dispatch`, every Webhook is evaluated |
| `export` | 1 writer with 6 bundles and 4 targets, 2 writers with a target absent or not empty; 1 power loss | 6,686 | whole target, no litter, a refusal loses nothing; `AtomicExport`: at most one claims the target and keeps it |
| `resource_mode` | 1 command of up to 2 resources and configurations, 5 clusters, 1 change | 72,436 | determinate verdicts are true of the cluster, exit code 0 means a complete answer, gaps and refused reads are reported, no read is made that should not be |
| `inputs` | `test` and `explain` on 8 paths that may be files, directories, links or neither, with valid and invalid documents of every kind; 1 change during the command | 119,639 | exit code 0 of `test` means every expectation was met, the code hides nothing worse, the report is exactly what was given and in order, `test` and `explain` agree, `explain` skips no document and no option, every command ends |
| `parity_gate` | 6 cases; the good candidate and every one that departs from it in up to two places; 2 faults | 910,270 | the gate passes only what agrees with what Kubernetes was seen to do, claims no comparison that was not made, reports failures and missing cases; every difference seen fails its phase, and nothing else is called a semantic mismatch |
| `rejected_under_ignore` | the stages before conditions of `evaluation` | violated | finding 1 |
| `absent_decision` | lists of up to 3 checked conditions | violated | finding 2 |
| `two_writers` | 2 writers, empty target | violated | finding 3 |
| `publish_error` | 1 writer | violated | finding 4 |
| `unseen_identity` | 1 offline command, the user spelled two ways | violated | finding 5 |
| `needless_namespace` | 1 command in a context, empty namespace selectors | violated | finding 6 |
| `refused_request` | the good candidate, 1 fault | violated | finding 7 |

Why the bounds are enough. A Webhook has at most two deferred problems, and
every exit that settles them is taken with none, one and two of them. Three
conditions are what it takes for a false one, an absent decision and an error
or an overrun to compete. Three Webhooks are two that are compared and one
between them that leaves something behind. A bundle of two files has a first, a
last, a duplicate and a partial state; two writers are enough for a race over
one target, and one power loss may happen at every point. In
resource mode one change of the cluster between any two reads is enough to make
what was read a mixture of two states (`MaxChanges = 1`); two resources and two
configurations are a first and a last, each of which may be the one that lacks
something; and `CostBudget = 9` is more than any list of that run costs, because
overruns are the matter of `evaluation` and of finding 2.

In `inputs` a limit of three documents is reached by the trees it walks, by
files given twice and by directories given beside their own subdirectories, and
`d/s` and `d/s.yaml` are a directory and the file whose name continues its own.
One change is enough to come between any two calls the commands make about a
path. In `parity_gate` six cases are the least that hold every suite, oracle
type and outcome with two core cases; two departures are enough for one table to
hide what is wrong in another, and two faults for two phases, or a phase and the
report. The proofs remove the bounds for the invariants they cover.

Fairness. Two properties are about liveness. `EveryWebhookEvaluated` assumes
`WF_vars(Next)` of the evaluator: `Evaluate` is a sequential loop in which no
step waits for anything. `CommandEnds` assumes `WF_vars(TestStep)` and
`WF_vars(ExplainStep)`: a command over files is one sequential process whose
calls return. Nothing is assumed of those who change the files. Nothing is
assumed fair in the snapshot writer, in resource mode or in the gate: a process
may be killed, a request to a cluster may take as long as it likes (the client
sets no timeout of its own), and so may a go test. Their properties are all
safety.

### Properties worth a word

* `MoreContextKeepsVerdict`: supplying fixtures never changes an answer that
  was already determinate. This is what "indeterminate, not guessed" means. It
  excepts lists that run over their budget, where the code does change its
  answer (finding 2).
* `PendingSettled`: a problem stays pending in a published trace only where an
  absent mapping leaves the rules open as well.
* `PolicyDecidesConditionProblemsOnly`: two Webhooks that differ in their
  failure policy have the same trace, and differ in their outcome only after an
  error of their conditions.
* `ImplementsAtomicExport`: an acknowledged bundle is there and stays, whatever
  fails afterwards. It holds, for any number of writers, unless two of them both
  see the target empty (`Uncontended`, finding 3).
* `RefusedLeavesTarget`: a refused run leaves the target as it was; only a
  rollback that itself fails leaves the empty directory under its backup name.

* `GuardKeepsResultsValid`: the guard works on a finished evaluation, cuts its
  trace and changes its determination. It stays valid, and is the guarded
  verdict of the evaluation it was.
* `NoVerdictGuessed`: takes every determinate verdict of a command and asks
  whether any user, any Namespace labels, any mapping and any decision that the
  command did not have would have changed it, and whether the configuration and
  the Namespace it used were there at some time while it ran. Not at *one* time:
  the reads are not atomic, and a changing cluster can show a mixture.
* `ZeroMeansComplete`: the other direction. Exit code 0 is promised to nobody
  who lost a LIST, a resource, a Webhook or an export on the way.
* `ForbiddenReadsShown`: completeness is written by the reads, overwritten by
  the evaluations, and a refusal has to survive both.
* `ZeroMeansAllMatched`: is stated of a tree that changes while it is walked. A
  file that is gone, or is a directory, by the time it is read must not fall
  out of the answer; `Judgement` and the API defaults say what each Webhook does.
* `ReportCoversArguments` and `NothingSkipped` define what was given by sets and
  filters over the tree and the lines, with no walk and no splitting in them.
  They speak of commands nobody disturbed. `NothingSkipped` excepts text behind a
  `---`, which is lost.
* `TestAgreesWithExplain`: the two commands prepare a Scenario and choose its
  code by different code.
* `PassedMeansAgreed`: no phase of the gate compares the product with Kubernetes
  for an advanced observation. One compares the product with the fixture, one
  the fixture with Kubernetes, and the gate only counts names. It assumes that
  the tables agree on the suite and oracle type of a case (`TablesAgree`), which
  they do and which no test asks for: with a matrix that calls an incomplete
  contract an observation and the other way round, the gate passes.
  Agreement is with what a phase *saw*: a request refused for another reason
  looks like a rejection, so a product that is wrong the same way passes.
* `ClaimsAreReal`: what remains of it whatever the tables say.
* `SeenDifferencesSurface`: the gate infers a mismatch from one text anywhere in
  the output; the property says that this text, the exit and the events amount to
  what the tests saw, whatever else happens in the phase.

### Findings

1. A selector that cannot be evaluated rejects the request whatever the failure
   policy says (`evaluation/evaluator.go:175`), where `contract/result.go:51`
   speaks of "failure policy rejects the request".
2. A condition that overruns its budget after asking for an absent decision
   forgets the absence (`kube136/matchconditions.go:195`), so that the result
   is determinate and the decision would change it; `docs/product/reference.md:78`
   promises `indeterminate`.
3. Two exports that both saw the empty target: the second renames the first
   one's published bundle to its backup name and removes it
   (`snapshot/snapshot.go:265`), where line 135 says non-empty targets are
   refused. Both return success. What shows at the target is still a whole
   bundle (the theorem `TargetAlwaysWhole`).
4. `ErrorKindPublish` is also returned after the bundle is in place
   (`snapshot/snapshot.go:275`), where line 42 says it means failure to claim
   the target.
5. The identity guard looks for the text `request.userInfo`
   (`manifest/evaluate.go:12`). A condition that gets at the user another way,
   such as `(request).userInfo`, is evaluated for an empty user and its verdict
   is determinate, where `docs/product/reference.md:133` says that a reached
   condition that requires a missing identity remains fail-closed.
6. The Namespace is read as soon as a Webhook has a namespace selector that is
   not nil (`adapter/context.go:316`). An empty one, which is what the API
   server stores where there was none, needs no Namespace;
   `docs/product/reference.md:123` says a selector that requires it. When the
   needless read is refused, a complete answer exits 3.
7. `Observe` makes a setup error only of a failure without an API status
   (`conformance/oracle/observation.go:67`): a request refused by an ailing API
   server becomes `rejected-before-call`, and one sent before the configuration
   took effect `skipped`. Both are counted as semantic mismatches on a product
   that agrees with Kubernetes, where `observation.go:45` speaks of "without
   conflating setup and semantics" and `conformance/parity/README.md:35` of setup
   failures and semantic mismatches reported separately. With nothing misread the
   promise holds (`ParityGateProofs!MismatchesReal`).

Seen while modelling, and stated by no property:

* `test` reads the first YAML document of a file and ignores the others.
* A document that begins on the line of its `---` is dropped by `explain`
  (`manifest/input.go:247`).
* `test` answers a fixture whose equivalence mapping crosses subresources with
  exit code 4 (`cli/test.go:260` takes every error that is not invalid input
  for an internal one), where `docs/product/reference.md:261` says 4 is for
  internal, rendering and output failures; `explain` answers it with 3.
* A fixture that expects an evaluation to be indeterminate over `INTERNAL_ERROR`
  matches it and still exits 4.
* Where a mismatch text is in the output of a phase, all of its failed
  observations are counted as semantic mismatches, also those that failed over
  the setup (`conformance/cmd/paritygate/main.go:321`).
* The observation tests of the CEL suite use other expressions than the
  fixtures of the same names.

## 4. What is proved

All proofs are checked by TLAPS with no step left open. They hold for every value
of the constants that meets the named assumptions.

| theorem | statement |
| --- | --- |
| `EvaluationProofs!Invariance` | `Spec => []IInv` |
| `EvaluationProofs!TypeCorrectness` | `Spec => []TypeOK` |
| `EvaluationProofs!ContractKept` | `Spec => []ResultsValid`: every evaluation passes `WebhookEvaluation.Validate` |
| `EvaluationProofs!GuardSafe` | `Spec => []GuardKeepsResultsValid`: the identity guard makes a valid evaluation of each of them |
| `DispatchProofs!EvaluationDetermined` | `Spec => []FInv`: every published result is the function `EvaluationOf` of its Webhook and the snapshot |
| `DispatchProofs!DispatchImplemented` | `Spec => ImplementsDispatch`: the stages pronounce the verdicts of `Dispatch`, one Webhook after the other |
| `DispatchProofs!EqualAgree` | `Spec => []EqualWebhooksAgree` |
| `DispatchProofs!TracesInOrder` | `Spec => []TraceInOrder` |
| `DispatchProofs!ProblemsSettled` | `Spec => []PendingSettled` |
| `DispatchProofs!ProblemsExplained` | `Spec => []ProblemsDiagnosed` |
| `DispatchProofs!PolicyContained` | `Spec => []PolicyDecidesConditionProblemsOnly` |
| `DispatchProofs!DeterminateIsFinal` | `Spec => []MoreContextKeepsVerdict`: more fixtures never change a determinate answer |
| `DispatchProofs!RejectedByPolicy` | if `SelectorsEvaluate`, `Spec => []RejectedOnlyUnderFail` (finding 1) |
| `DispatchProofs!AbsenceIsIndeterminate` | if `NothingOverruns`, `Spec => []AbsentFixtureIsIndeterminate` (finding 2) |
| `SnapshotProofs!Invariance` | `Spec => []IInv` |
| `SnapshotProofs!TypeCorrectness` | `Spec => []TypeOK` |
| `SnapshotProofs!TargetAlwaysWhole` | `Spec => []TargetIsWhole`: with any number of concurrent runs, crashes and power losses, only a whole bundle ever shows |
| `SnapshotProofs!NothingLeftBehind` | `Spec => []NoLitter`: a run that returned left nothing, unless a removal of its own failed |
| `SnapshotProofs!RefusalLosesNothing` | if `Uncontended`, `Spec => []RefusedLeavesTarget` |
| `SnapshotProofs!ExportIsAtomic` | if `Uncontended`, `Spec => ImplementsAtomicExport` |
| `SnapshotProofs!NonEmptyKept` | if `Uncontended`, `Spec => NonEmptyTargetKept`, which the run `two_writers` violates |
| `ExplanationProofs!ExplanationInvariant` | `Spec => []IInv` |
| `ExplanationProofs!ExplanationTypes` | `Spec => []TypeOK` |
| `ExplanationProofs!ReadsBounded` | `Spec => []ReadsWithinBoundary` |
| `ExplanationProofs!ForbiddenShown` | `Spec => []ForbiddenReadsShown` |
| `ExplanationProofs!GapsAreReported` | `Spec => []GapsReported` |
| `ExplanationProofs!ZeroIsComplete` | `Spec => []ZeroMeansComplete`: exit code 0 of resource mode is a complete answer |
| `ExplanationProofs!OriginInvariant` | `Spec => [](IInv /\ OriginInv)`: what is evaluated was on the files or in the cluster |
| `ExplanationProofs!VerdictsNotGuessed` | if `NothingHidden`, `Spec => []NoVerdictGuessed`: a determinate verdict is that of whatever the command was not told |
| `ExplanationProofs!AbsentUserDecidesNothing` | if `PlainlySpelled`, `Spec => []MissingIdentityFailsClosed` (finding 5) |
| `ExplanationProofs!NamespaceReadsNeeded` | if `NoneEmpty`, `Spec => []NamespaceReadWhenNeeded` (finding 6) |
| `CommandLineProofs!CommandLineInvariant` | `Spec => []IInv` |
| `CommandLineProofs!CommandLineTypes` | `Spec => []TypeOK` |
| `CommandLineProofs!ReportInOrder` | `Spec => []ReportOrdered` |
| `CommandLineProofs!NothingWorseHidden` | `Spec => []ExitHidesNothingWorse` |
| `CommandLineProofs!ZeroMeansMatched` | `Spec => []ZeroMeansAllMatched`: exit code 0 of `test` stands for every argument, however the files change |
| `CommandLineProofs!BothCommandsAgree` | `Spec => []TestAgreesWithExplain` |
| `CommandLineProofs!InputsInvariant` | `Spec => [](IInv /\ InputsInv)` |
| `CommandLineProofs!NothingLeftOut` | `Spec => []NothingSkipped`: `explain` takes every document of every input, once and in order |
| `CommandLineProofs!CoversInvariant` | `Spec => [](IInv /\ CoversInv)` |
| `CommandLineProofs!ReportCovers` | `Spec => []ReportCoversArguments`: `test` reports exactly what a definition by sets over the tree gives |
| `ParityGateProofs!GateInvariant` | `Spec => []IInv` |
| `ParityGateProofs!AgreedIfPassed` | `Spec => []PassedMeansAgreed`: a gate that passed means that every case of the matrix agrees with what Kubernetes was seen to do, or stays incomplete where it is to |
| `ParityGateProofs!ClaimsHold` | `Spec => []ClaimsAreReal`: whatever the tables say, no comparison is claimed that was not made |
| `ParityGateProofs!MissingNamed` | `Spec => []MissingReported`: every case no phase ran is named and counted |
| `ParityGateProofs!GateFailureInvariant` | `Spec => []FailureInv` |
| `ParityGateProofs!GateTypes` | `Spec => []TypeOK` |
| `ParityGateProofs!FailuresSurface` | `Spec => []FailureSurfaces` |
| `ParityGateProofs!DifferencesSurface` | `Spec => []SeenDifferencesSurface` |
| `ParityGateProofs!MismatchesReal` | `Spec => [](NothingMisread => MismatchMeansDifference)` (finding 7) |

### Assumptions

| assumption | says | why it holds |
| --- | --- | --- |
| `CostAssumption` | costs are natural numbers | CEL costs are unsigned |
| `SnapshotAssumption` | a snapshot and its Webhooks are records of the fields the code has; lists are sequences, condition costs naturals, a decision one of four verdicts | Go structs and slices; `fixture/authorizer.go` refuses other decisions |
| `BundlesAssumption` | bundles are sequences, the bound on power losses is a natural | slices |
| `ForeignAssumption` | what was in a directory before the runs was written by none of them | what "before" means |
| `DirectoriesAssumption` | `Absent` and `NotDirectory` are no set of entries | they stand for the absence of a directory |
| `ChangesAssumption`, `InputsAssumption` | a command has a resource, its lists and the cluster's are sequences; the embedded catalogue is not empty | the manifest decoder and `BuildScenarios` refuse a manifest without a document; the catalogue is compiled in |
| `ConfigurationsAssumption` | a Webhook that may be given or listed has the fields the code has; its conditions and their queries are lists, costs naturals | Go structs and slices |
| `TreeAssumption` | there are finitely many paths, in byte order, each after its parent; a path with a supported suffix is a path; texts are lines, and a `---` stands between two documents (`OneAfterAnother`) | a path is longer than the path of its directory; where no `---` is, the text is that of one document |
| `InvocationsAssumption`, `DocumentsAssumption` | a command is `test` or `explain` over known paths; `explain` has an input, its other options name a path or none, and `NoPath` and `NoEntry` are no paths; each Webhook of a lone configuration has a field for its name, empty or not | the two subcommands; the field is one of a Go struct |
| `GateAssumption` | a matrix and the tables of a candidate are finite, the bounds are naturals; otherwise tables, product and authority are anything | Go literals |

Some theorems have a hypothesis besides. It is no assumption on a constant that
the code justifies, but the line between a property and a finding: without it
the run named below refutes the property, with it the property is proved.

| hypothesis | says | without it | instances that satisfy it |
| --- | --- | --- | --- |
| `Uncontended` | no two exports of bundles that may be written find the same empty directory at the target | `two_writers`, finding 3 | `export` |
| `SelectorsEvaluate` | every selector of the snapshots can be evaluated for their request | `rejected_under_ignore`, finding 1 | `absent_decision` |
| `NothingOverruns` | no list of conditions exceeds the budget, with the decisions there are or with more | `absent_decision`, finding 2 | `rejected_under_ignore` |
| `PlainlySpelled` | every condition on the user has `request.userInfo` in its text | `unseen_identity`, finding 5 | `resource_mode`, `needless_namespace` |
| `NothingHidden` | `PlainlySpelled`, and no list of conditions exceeds the budget, whatever the decisions are | findings 5 and 2 | `resource_mode`, `needless_namespace` |
| `NoneEmpty` | no namespace selector is empty and there | `needless_namespace`, finding 6 | `resource_mode`, `unseen_identity` |
| `NothingMisread` | every phase so far saw what Kubernetes does (a state predicate, not a constant) | `refused_request`, finding 7 | every run of the gate without such a fault |

TLC evaluates all of them on the instances named last, as assumptions of
`MCSnapshot`, `MCEvaluation` and `MCExplanation`. `Uncontended` leaves exports
to a target that does not exist or is not empty free to race as they like, and
`NothingHidden` leaves commands without a user, failing reads and a cluster that
changes between them.

### The arguments

**Evaluation, validity.** `ResultsValid` speaks of published results and
says nothing about the trace being built, so it is not inductive. `IInv` adds
`BetweenStages`: while a Webhook is in hand its trace holds valid steps and no
terminal one, and every deferred problem points at a step that is pending.
Then discarding keeps steps valid (`DiscardPendingSound`), and a sound trace
with one terminal step is a valid evaluation (`EndedTraceValid`). Each stage is
a lemma: it ends the Webhook (`FinishKeeps`) or goes on (`ContinueKeeps`). The
long one is `ExplainValid`, over the summaries of the conditions. `GuardSafe` follows
from the invariant and says nothing new of the steps: a valid step stays valid
when it ends nothing (`UnendedSound`), so the cut trace is sound (`CutSound`),
and a sound trace with one terminal step is valid again.

**Evaluation, what it computes.** Properties of two Webhooks, or of a verdict,
need to know what the variables are and not only that they are sound. So
`DispatchProofs` writes the evaluation of one Webhook as an expression,
`EvaluationOf(w, s)`, by the way it ends: excluded (`SkippedConcludes`,
`NoMatchEnd`), left open by an absent mapping (`UnknownEnd`), decided by the
first deferred problem (`ControlledEnd`), undecodable (`UndecodedEnd`), or by
its conditions (`ConditionsEnd`). `FInv` adds to `IInv` that every result is the
`EvaluationOf` its Webhook, and that the Webhook in hand is `OnTrack`: trace,
pending problems, budget and observations are those the stages before make. Each
stage keeps it (`NamespaceTracks` to `ReduceTracks`); the loop over the conditions
spends what `Spent` says (`SpentFacts`) and has reported what `Reports` says
when it is over (`LoopOver`). From then on there are no more steps to look at:

* `EvaluationConcludes`: every way to end gives the verdict of `Judgement`, an
  ordered trace with one terminal step, settled problems and a diagnostic where
  one is due. The parts are a lemma per way to end; the long one is
  `ConditionsConclude`, where the decision over classified observations
  (`ConditionsDecided`) meets that of `ConditionsVerdict`.
  `TracesInOrder`, `ProblemsSettled` and `ProblemsExplained` follow.
* `DispatchImplemented`: a step publishes one more result, which has the verdict
  of its Webhook (`PipelinePronounces`), or changes no result.
* `EqualAgree` is then immediate. `PolicyContained` compares `EvaluationOf` of
  two Webhooks that differ in the policy: routing does not look at it
  (`PolicyNotRouted`), the reports do not (`PolicyNotReported`), and the
  decision does in one case (`PolicyDecides`).
* `DeterminateIsFinal` compares verdicts under two fixtures: what was found is
  still found (`NamespaceKept`, `RulesKept`), a condition that missed no decision
  gets the same answers (`SameAnswers`), and one that missed some leaves the
  verdict open unless another decides it (`ConditionsKept`). These lemmas speak
  of `Judgement` alone and are in `VerdictLemmas`, because resource mode needs
  them too. `AbsenceIsIndeterminate` is a case of it.
* `RejectedByPolicy`: of all that `Judgement` can say under `Ignore`, one case
  rejects (`WhoRejects`).

**The writer, wholeness.** `TargetIsWhole` is not inductive, because a power
loss may bring back an earlier target or take entries from one that was not
synced. `IInv` says that what is *or was* at the target is in `Whole`, where
only synced bundles count; that a run in the `Claiming` calls has all of its
bundle staged and synced; that the files of a growing stage are the first so
many of the bundle, so that the last one completes it with as many files as
Scenarios (the names differ, `AcceptedNames`); and, for `NoLitter`, where the
temporary directories are at each call. A bundle stays in `Whole` once it is
there (`WholeGrows`), so a step has only to keep what the invariant says of its
own writer (`StepKeeps`), and a power loss finds nothing to take
(`WholeSurvives`).

**The writer, atomicity.** Neither `RefusedLeavesTarget` nor the refinement
follows from `IInv`, which does not say whose bundle is at the target. `CInv`
does. If an empty directory is or may come back at the target, one run only may
write (`Sole`, from `Uncontended`). Only a run that found it empty is ever
between `makeBackup` and `removeBackup`. While it is, the target is what it left
there: empty, absent with the directory under the backup name, or its own
bundle. Until the parent is synced a power loss can only bring back a vacant
target, and over a bundle only while its writer has not answered "ok". A run
whose bundle is there has yet to answer, or answered "ok" or "publish". A step
keeps what `CInv` says of the bystanders because it leaves the target alone or
fills a vacant one, and who claimed a target sees none that is vacant
(`BystandersKeep`, `SettlingKeeps`). Each call is then a step of `AtomicExport`
or a stutter: `Publish` and `MoveStage` are its `Publish`, `SyncParent` its
`Acknowledge`, every error its `Refuse`, and a power loss its `Lose`.

**Resource mode.** `IInv` of `ExplanationProofs` ties four things that the code
keeps apart: the phase and the reads behind it (`ReadInv`: none before
discovery, discovery first and successful afterwards, one Namespace read for
each context at most); what the shared completeness and the contexts record of
a refusal (`ForbiddenInv`); where the configurations came from (`SourceInv`: the
files, or both LISTs at some time, unless their dimension is unavailable); and
that explanations are those built from these (`AnswerInv`). That a gap is in the
list, and that exit code 0 has none, is then a fact about
`FinalizeCompleteness` and `SelectExitCode` (`SelectedCode`, `EvaluationCode`).

`NoVerdictGuessed` asks in addition where all this came from. `OriginInv` says
it: a configuration is one of the files or was in some state of `history`
(`AuthenticInv`); a Namespace context holds what its status claims, the
Namespace of the file, of the cluster at some time, or nothing (`AnsweredInv`);
and an explanation is the evaluation of exactly these (`ExplainedInv`). Since
`history` only grows, nothing loses its origin. A verdict is then compared with
that of another user, mapping, decisions and Namespace (`JudgedTrue`). If no
condition asks for the user the Webhook is the same for everybody
(`UserUnseen`), within the budget the same conditions stop the evaluator
(`StopsAlike`), and more context keeps a determinate verdict
(`MoreKeepsVerdict`). If one asks and the user is not known, the guard has left
the verdict determinate only because the conditions were never reached, and
what comes before them does not look at the user (`UnreachedKeepsVerdict`).
`JudgedForAnyone` is the same for one scenario and needs no budget.
`NamespaceStated` closes the circle: the completeness published with the
verdict says "hydrated" or "provided" only if the context does, because a
verdict that has its Namespace never lacks it (`NamespaceAtHand`).
For `NamespaceReadsNeeded`, `RequiredInv` says that once a Namespace was read the
configurations have a selector that is not nil; they are selected before the
first resource and stay (`NoneAskedYet`).

**Commands over files.** The tree may change between any two calls, so nothing
is said of it. `IInv` of `CommandLineProofs` says that every argument is still
to come or has something kept at or below it (`CoverageInv`; for a directory in
the middle of its walk, `walk.found` or `walk.failed` is what says so); that
report and queue are together what was discovered, ascending (`QueueInv`); and
that each entry of the report has the code of the document that was read
(`Faithful`). `KeptFacts` is what sorting needs: `Kept` returns the elements at
increasing indices, and all of them.

Two properties compare a command nobody disturbs with the whole of what it was
given, and need an invariant of what is done so far. For `NothingSkipped`,
`InputsInv` says that the inputs before the one in hand hold all their documents;
that the documents read of a directory are those of its first files, and the
entries to come hold the others (`ReadSoFar`). `SplitDocuments` returns one text
for each document, because after every line it stands where the filtered lines
do (`ProgressStep`, `SplitProgress`: look at the first line at which it would
not). For `ReportCoversArguments`, `CoversInv` says that an argument
that is done is `Settled`: everything below it that is wanted was discovered. In
the middle of a walk, what is wanted below the root is below an entry still to
come, or was discovered (`Ahead`); what was discovered is selected, or in error,
and no more (`RecordInv`). A walk that finds nothing makes the argument an error,
and the definition by sets has to say so in the same cases. The first attempt at
this proof failed there, and was right to: `Fruitless`, the directories that
are an error because nothing is found below them, left out one that holds
nothing but a link which is an argument itself. TLC showed it on the arguments
`d/s` and `d/s/t.yaml`, which the instance of `inputs` has had since.

**The gate.** That the gate passes says nothing by itself of the
tests that ran phases ago, so `IInv` keeps for each result what its phase
showed: while nothing failed, the phase was *clean* (no test of it fails, and the
cases it ran are as many as the matrix has for it, `Clean`), and its result names
the cases it ran. `CleanPhase` is the step: every fault shows in the exit or in
the output, or leaves the tests as they are (`FaultsShow`), so that the tests of
a phase that did not fail passed on what they saw. A misreading changes what is
seen and no more: the subtests are the same (`SameSubtests`), and `observed` says
which of the two every agreement is with. The rest
is about one candidate all of whose phases are clean. A clean phase makes each
of its cases agree (`OfflineCompares`, `DifferentialAgrees`, `ObservationAgrees`,
`CoreAgrees`). For `ClaimsAreReal` the numbers are enough. For
`PassedMeansAgreed` the cases a phase ran are among those the matrix has for it,
because the tables agree, and are as many, so they are the same (`AllOf`); an
incomplete contract is in its fixture (`IncompleteCase`); and a core case was run
by some phase, which can only have been the core phase (`CoreCase`).
`FailureInv` adds what a gate that does *not* pass needs: every result is that of
its phase after some fault, and `failed` is whether one of them failed. Then
counting is a matter of finite sets: a phase that fails counts something, a
semantic mismatch comes from a case that was seen to differ (`DifferencesSurface`),
and with nothing misread from one that does (`MismatchesReal`).

**Recursive functions.** What a recursion computes is not unfolded. Where a
proof needs it (`SpentFacts`, `KeptFacts`, the order of `SplitDocuments`), it
says that a function with these values exists for every length, and looks at the
least length for which there is none (`DataLemmas!NatMinimum`).

### Only model-checked

* `EveryWebhookEvaluated` and `CommandEnds`: liveness, out of the prover's reach.
* What `publish_error` refutes (finding 4). The properties that the other runs
  refute are proved under the hypotheses above.

## 5. What is not modelled

* `render` and `resourcecatalog` (layout; pure data), the lookup in the embedded
  catalogue, flag parsing, `--user-extra`, byte and depth limits (a document
  beyond them does not decode), `normalize`'s cloning; transport, TLS and
  kubeconfig handling of `hydration`; the control plane, the registration of
  Webhooks and the recording of reviews in `conformance/oracle`; `cmd` and `hack`.
* In the modelled packages: internal-error branches no input reaches (nil
  mapper, unknown modes; `AuthorizationMissing` in
  `kube136/matchconditions.go` 119 to 124), the coverage rows of the parity
  package, and what is named under "Commands over files" and "Parity gate".
* CEL itself. An expression is the form of its outcome.

## 6. Plan

Written, in this order: the evaluator (`Contract` to `Evaluation`, with
`Dispatch`), the export (`SnapshotWriter`, with `AtomicExport`), resource mode
(`Explanation`), the commands over files (`CommandLine` with `FixtureTest`,
`ManifestInput` and `ScenarioInput`), the parity gate (`ParityGate`); then the
proofs of each, both refinements included, until every invariant and action
property of a passing run was a theorem. What could come next:

1. **Names** (`manifest/builder.go:360` against `snapshot.go:28`): the names of
   the entries of a bundle, to compose `Explanation` with `SnapshotWriter`.
2. **Reading two documents of a file**: `test` reads the first and ignores the
   others; a property would need a promise to compare it with.

To look at while modelling: errors of the recorder for invalid input, which are
governed by the failure policy; a false condition followed by an overrun under
`Fail`, skipped here and an error in the official matcher (comment at
`kube136/matchconditions.go:44`).
