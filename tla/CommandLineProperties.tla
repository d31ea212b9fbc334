------------------------- MODULE CommandLineProperties -------------------------
(***************************************************************************)
(* The correctness properties of CommandLine.                              *)
(***************************************************************************)
EXTENDS CommandLine

(***************************************************************************)
(* The variables hold what their declarations say, at most one of the two  *)
(* commands is at work, and no more files are counted than there may be.   *)
(***************************************************************************)
TypeOK ==
  /\ DOMAIN tree = PathSet /\ treeChanges \in 0..MaxTreeChanges
  /\ invocation.command \in {"test", "explain"}
  /\ phase \in {"idle", "inspect", "test", "done"} /\ task \in Tasks
  /\ (phase = "idle") <=> (task # "idle")
  /\ DOMAIN discovered \subseteq PathSet
  /\ \A path \in DOMAIN discovered : discovered[path] \in {"file", "error"}
  /\ counted \in 0..MaximumDocuments
  /\ \A i \in DOMAIN queue : queue[i] \in DOMAIN discovered
  /\ \A i \in DOMAIN report : report[i].path \in DOMAIN discovered
  /\ (exit = NotExited) <=> (phase # "done")
  /\ (explainExit = NotExited) <=> (task # "done")

-------------------------------------------------------------------------------
(***************************************************************************)
(* What a fixture asserts, and what is the case.                           *)
(***************************************************************************)
DecodedFixture(entry) == entry.document # NoDocument /\ Decodes(Documents[entry.document])

ScenarioOf(entry) == Documents[entry.document].scenario

Evaluated(entry) == DecodedFixture(entry) /\ Preparation(ScenarioOf(entry)) = "prepared"

Asserted(s, k) ==
  {e \in DOMAIN s.expectations : s.expectations[e].webhookName = WebhooksOf(s)[k].name}

AsAsserted(s, e, k) ==
  LET verdict  == VerdictsOn(s)[k]
      expected == s.expectations[e]
  IN /\ expected.determination = verdict.determination
     /\ expected.outcome \in {NoOutcome, verdict.outcome}
     /\ expected.reason \in {NoReason, verdict.reason}

AllAsserted(s) ==
  \A e \in DOMAIN s.expectations :
    \E k \in DOMAIN WebhooksOf(s) : e \in Asserted(s, k) /\ AsAsserted(s, e, k)

AllComplete(s) ==
  \A k \in DOMAIN WebhooksOf(s) :
    Asserted(s, k) = {} => VerdictsOn(s)[k].determination = "determinate"

(***************************************************************************)
(* The directories above a path.                                           *)
(***************************************************************************)
Above[path \in PathSet] ==
  {Parent[path]} \cup (IF Parent[path] = Top THEN {} ELSE Above[Parent[path]])

Arguments == Range(invocation.arguments)

(***************************************************************************)
(* Exit code 0 of test stands for every argument: at or below each of them *)
(* a Scenario was evaluated, and of all that were, every expectation was   *)
(* held against a Webhook of that name and met, and every Webhook nothing  *)
(* was expected of is determinate; whatever happened to the files between  *)
(* being found and being read (docs/product/reference.md, exit code 0:     *)
(* "all asserted expectations match").                                     *)
(***************************************************************************)
ZeroMeansAllMatched ==
  exit = ExitSuccess =>
    /\ \A i \in DOMAIN report :
         /\ Evaluated(report[i])
         /\ AllAsserted(ScenarioOf(report[i])) /\ AllComplete(ScenarioOf(report[i]))
    /\ \A argument \in Arguments :
         \E i \in DOMAIN report : argument \in {report[i].path} \cup Above[report[i].path]

(***************************************************************************)
(* The one exit code of many fixtures hides nothing worse than itself: an  *)
(* incomplete result is reported only when no expectation of any fixture   *)
(* is missed, and a missed one only when every fixture could be evaluated  *)
(* (docs/product/reference.md: "When multiple fixtures fail, priority is   *)
(* internal error, invalid input, expectation mismatch, incomplete         *)
(* evaluation").                                                           *)
(***************************************************************************)
ExitHidesNothingWorse ==
  /\ exit = ExitIncompleteEvaluation =>
       \A i \in DOMAIN report : Evaluated(report[i]) /\ AllAsserted(ScenarioOf(report[i]))
  /\ exit = ExitExpectationMismatch =>
       \A i \in DOMAIN report : Evaluated(report[i])

(***************************************************************************)
(* While nobody changes the files, test reports exactly those it was       *)
(* given: the files among the arguments, the regular files with a Scenario *)
(* extension below the directories among them, and an error for everything *)
(* that is neither, that cannot be listed, or that holds none (a link is   *)
(* none, even when it is an argument itself).  Given in more than one way, *)
(* a file counts once; and when there are too many, one error stands for   *)
(* all.                                                                    *)
(***************************************************************************)
Roots == {argument \in Arguments : Lstat(argument) = "directory"}

BelowRoots(path) == Above[path] \cap Roots # {}

Beneath == {path \in Supported : Lstat(path) = "file" /\ BelowRoots(path)}

Selected == {argument \in Arguments : Stat(argument) = "file"} \cup Beneath

Unlistable ==
  {path \in PathSet : /\ Lstat(path) = "directory" /\ ~CanList(path)
                      /\ path \in Roots \/ BelowRoots(path)}

Fruitless ==
  {argument \in Arguments :
     /\ Stat(argument) = "directory"
     /\ \A path \in Unlistable \cup Beneath : argument \notin {path} \cup Above[path]}

InError ==
  {argument \in Arguments : Stat(argument) \notin {"file", "directory"}} \cup Unlistable \cup Fruitless

ReportCoversArguments ==
  phase = "done" /\ treeChanges = 0 =>
    IF Cardinality(Selected) <= MaximumDocuments
    THEN /\ {report[i].path : i \in DOMAIN report} = Selected \cup InError
         /\ \A i \in DOMAIN report :
              report[i].path \in InError => report[i].code = ExitInvalidInput
    ELSE /\ Len(report) = 1
         /\ report[1].path \in Arguments /\ report[1].code = ExitInvalidInput

(***************************************************************************)
(* The fixtures are reported once each and in the byte order of their      *)
(* paths, which is not the order the directories are walked in: a          *)
(* directory comes before the file whose name continues its own            *)
(* (newTestCommand: "all discovered paths are evaluated in lexical order").*)
(***************************************************************************)
Position(path) == CHOOSE i \in DOMAIN Paths : Paths[i] = path

ReportOrdered ==
  \A i, j \in DOMAIN report :
    i < j => Position(report[i].path) < Position(report[j].path)

(***************************************************************************)
(* A Scenario that asserts nothing gets the same exit code from both       *)
(* commands, unless it cannot be prepared.                                 *)
(***************************************************************************)
TestAgreesWithExplain ==
  \A i \in DOMAIN report :
    Evaluated(report[i]) /\ ScenarioOf(report[i]).expectations = <<>> =>
      report[i].code = LegacyExitCode[report[i].document]

-------------------------------------------------------------------------------
(***************************************************************************)
(* An answer of explain, and what is handed over to resource mode, leaves  *)
(* nothing out while nobody changes the files: each option's documents are *)
(* all those of its regular files with an extension, in the order of the   *)
(* files and then of the documents, under the positions they have there;   *)
(* no option is ignored (docs/product/reference.md: "no partial output     *)
(* claims full coverage").  An "inline" line is excepted: the document     *)
(* behind it is lost.                                                      *)
(***************************************************************************)
Answered == task = "handed" \/ explainExit \in {ExitSuccess, ExitIncompleteEvaluation,
                                                ExitInternalError}

FilesOf(path) ==
  IF path # Stdin /\ Lstat(path) = "directory"
  THEN Sorted({p \in Supported : Parent[p] = path /\ Lstat(p) = "file"})
  ELSE <<path>>

DocumentsOf(path) ==
  LET texts == Kept(tree[path].lines, {line \in ToSet(tree[path].lines) : line.mark = "text"})
  IN [i \in DOMAIN texts |-> [path |-> path, index |-> i, document |-> texts[i].document]]

DocumentsGiven(path) ==
  IF path = NoPath THEN <<>>
  ELSE FlattenSeq([i \in DOMAIN FilesOf(path) |-> DocumentsOf(FilesOf(path)[i])])

PlainText == \A path \in PathSet : \A i \in DOMAIN tree[path].lines :
               tree[path].lines[i].mark # "inline"

NothingSkipped ==
  Answered /\ treeChanges = 0 /\ PlainText =>
    \A r \in Roles : inputs[r] = DocumentsGiven(options[r])

(***************************************************************************)
(* Every command comes to an end, whatever is changed under it.            *)
(***************************************************************************)
CommandEnds == <>(phase = "done" \/ task \in {"done", "handed"})

================================================================================
