------------------------------ MODULE FixtureTest ------------------------------
(***************************************************************************)
(* `admitrace test <path>...` (internal/cli/test.go): find the Scenario    *)
(* files, evaluate each, compare with what it expects, and answer for all  *)
(* of them with one exit code.                                             *)
(*                                                                         *)
(*   inspect [-> walk ...] ... -> test ... -> done                         *)
(*                                                                         *)
(* The files may change between any two of these steps.                    *)
(***************************************************************************)
EXTENDS FileTree, ScenarioInput, ExitCode

VARIABLES
  phase,           \* what the command does next, "idle" when it is not run
  arguments,       \* the arguments not inspected yet
  walk,            \* the directory being walked
  discovered,      \* for each path found, whether it is in error
  counted,         \* the files found, for the limit
  queue,           \* the paths not tested yet
  report,          \* the fixture reports, in order
  exit             \* the exit code

discovery == <<arguments, walk, discovered, counted>>
testVars  == <<phase, discovery, queue, report, exit>>

NotWalking == [root |-> Top, begun |-> FALSE, todo |-> <<>>, found |-> FALSE, failed |-> FALSE]

Walking == walk.root # Top

TestInit(first, paths) ==
  /\ phase = first
  /\ arguments = paths
  /\ walk = NotWalking
  /\ discovered = <<>>
  /\ counted = 0
  /\ queue = <<>>
  /\ report = <<>>
  /\ exit = NotExited

-------------------------------------------------------------------------------
(***************************************************************************)
(* discoverScenarios.  A path is kept once, under its latest finding; a    *)
(* file counts against the limit when its path is new, and one too many    *)
(* leaves nothing but an error at the argument it was found under.         *)
(***************************************************************************)
With(path, finding) ==
  [p \in DOMAIN discovered \cup {path} |-> IF p = path THEN finding ELSE discovered[p]]

Recount(path) == counted + 1    \* mutant: a path given twice counts twice

Count(path) == IF path \in DOMAIN discovered THEN counted ELSE counted + 1

KeepAnyway(path) ==             \* mutant: there is no limit
  /\ discovered' = With(path, "file")
  /\ counted' = Count(path)
  /\ UNCHANGED <<phase, queue>>

Keep(path) ==
  /\ Count(path) <= MaximumDocuments
  /\ discovered' = With(path, "file")
  /\ counted' = Count(path)
  /\ UNCHANGED <<phase, queue>>

Refuse(path) ==
  /\ discovered' = With(path, "error")
  /\ UNCHANGED <<phase, counted, queue>>

TooMany(path, argument) ==
  /\ Count(path) > MaximumDocuments
  /\ discovered' = [p \in {argument} |-> "error"]
  /\ phase' = "test"
  /\ queue' = <<argument>>
  /\ walk' = NotWalking
  /\ UNCHANGED <<arguments, counted>>

(***************************************************************************)
(* os.Stat of one argument: it follows a link.                             *)
(***************************************************************************)
Argument == Head(arguments)

Inspecting == phase = "inspect" /\ arguments # <<>> /\ ~Walking

NextArgument == arguments' = Tail(arguments) /\ walk' = NotWalking

InspectFile ==
  /\ Inspecting /\ Stat(Argument) = "file"
  /\ \/ Keep(Argument) /\ NextArgument
     \/ TooMany(Argument, Argument)
  /\ UNCHANGED <<report, exit>>

InspectOther ==
  /\ Inspecting /\ Stat(Argument) \notin {"file", "directory"}
  /\ Refuse(Argument) /\ NextArgument
  /\ UNCHANGED <<report, exit>>

InspectDirectory ==
  /\ Inspecting /\ Stat(Argument) = "directory"
  /\ walk' = [NotWalking EXCEPT !.root = Argument]
  /\ UNCHANGED <<phase, arguments, discovered, counted, queue, report, exit>>

-------------------------------------------------------------------------------
(***************************************************************************)
(* filepath.WalkDir and the function it calls.  The types of the entries   *)
(* are those they had when their directory was listed.  The root is looked *)
(* at once more, and this time a link is not followed.                     *)
(***************************************************************************)
Visited(entry) ==
  entry.type = "directory" \/ (entry.type = "file" /\ entry.path \in Supported)

EntriesOf(paths) ==
  LET entry(path) == [path |-> path, type |-> Lstat(path)]
      visited     == Sorted({path \in paths : Visited(entry(path))})
  IN [i \in DOMAIN visited |-> entry(visited[i])]

WalkRoot ==
  /\ Walking /\ ~walk.begun
  /\ IF Exists[walk.root]
     THEN /\ walk' = [walk EXCEPT !.begun = TRUE, !.todo = EntriesOf({walk.root})]
          /\ UNCHANGED <<phase, discovered, counted, queue>>
     ELSE /\ Refuse(walk.root)
          /\ walk' = [walk EXCEPT !.begun = TRUE, !.failed = TRUE]
  /\ UNCHANGED <<arguments, report, exit>>

Visiting(type) == Walking /\ walk.todo # <<>> /\ Head(walk.todo).type = type

ListDirectoryAgain ==           \* mutant: what cannot be listed is not left behind
  /\ Visiting("directory")
  /\ LET directory == Head(walk.todo).path
     IN IF CanList(directory)
        THEN /\ walk' = [walk EXCEPT !.todo = EntriesOf(Entries(directory)) \o Tail(@)]
             /\ UNCHANGED <<phase, discovered, counted, queue>>
        ELSE /\ Refuse(directory)
             /\ walk' = [walk EXCEPT !.failed = TRUE]
  /\ UNCHANGED <<arguments, report, exit>>

ListDirectory ==
  /\ Visiting("directory")
  /\ LET directory == Head(walk.todo).path
         rest      == Tail(walk.todo)
     IN IF CanList(directory)
        THEN /\ walk' = [walk EXCEPT !.todo = EntriesOf(Entries(directory)) \o rest]
             /\ UNCHANGED <<phase, discovered, counted, queue>>
        ELSE /\ Refuse(directory)
             /\ walk' = [walk EXCEPT !.todo = rest, !.failed = TRUE]
  /\ UNCHANGED <<arguments, report, exit>>

VisitFile ==
  /\ Visiting("file")
  /\ LET path == Head(walk.todo).path
     IN \/ /\ Keep(path)
           /\ walk' = [walk EXCEPT !.todo = Tail(@), !.found = TRUE]
           /\ UNCHANGED arguments
        \/ TooMany(path, walk.root)
  /\ UNCHANGED <<report, exit>>

EndWalk ==
  /\ Walking /\ walk.begun /\ walk.todo = <<>>
  /\ NextArgument
  /\ IF walk.found \/ walk.failed
     THEN UNCHANGED <<phase, discovered, counted, queue>>
     ELSE Refuse(walk.root)
  /\ UNCHANGED <<report, exit>>

InOrderReversed(paths) == Reverse(Sorted(paths))  \* mutant: not the order of the paths

InOrder(paths) == Sorted(paths)

EndDiscovery ==
  /\ phase = "inspect" /\ arguments = <<>>
  /\ phase' = "test"
  /\ queue' = InOrder(DOMAIN discovered)
  /\ UNCHANGED <<discovery, report, exit>>

-------------------------------------------------------------------------------
(***************************************************************************)
(* compareExpectations: a Webhook is held to what is expected of it, or    *)
(* else has to be determinate.                                             *)
(***************************************************************************)
Meets(verdict, expectation) ==
  /\ verdict.determination = expectation.determination
  /\ expectation.outcome # NoOutcome => verdict.outcome = expectation.outcome
  /\ expectation.reason # NoReason => verdict.reason = expectation.reason

ExpectationFor(webhook, s) ==
  {s.expectations[e] : e \in {f \in DOMAIN s.expectations :
                                s.expectations[f].webhookName = webhook.name}}

ComparisonCodesLenient(webhook, verdict, s) ==  \* mutant: what is not asserted is not looked at
  LET expected == ExpectationFor(webhook, s)
  IN {ExitExpectationMismatch : e \in {f \in expected : ~Meets(verdict, f)}}

ComparisonCodes(webhook, verdict, s) ==
  LET expected   == ExpectationFor(webhook, s)
      acceptable == {"determinate"} \cup {e.determination : e \in expected}
  IN {ExitExpectationMismatch : e \in {f \in expected : ~Meets(verdict, f)}}
       \cup (IF verdict.determination \in acceptable THEN {} ELSE {ExitIncompleteEvaluation})

ComparedCode(s) ==
  LET webhooks == WebhooksOf(s)
      verdicts == VerdictsOn(s)
  IN SelectExitCode(UNION {ComparisonCodes(webhooks[k], verdicts[k], s)
                             \cup {DiagnosticExitCode(verdicts[k])} : k \in DOMAIN webhooks})

(***************************************************************************)
(* evaluateFixture.  What cannot be read, decoded or prepared is classed   *)
(* by its error, and any error but an input error is an internal one.      *)
(***************************************************************************)
FixtureCode[document \in DOMAIN Documents] ==
  LET s == Documents[document].scenario
  IN IF ~Decodes(Documents[document]) THEN ExitInvalidInput
     ELSE CASE Preparation(s) = "invalid"     -> ExitInvalidInput
            [] Preparation(s) = "unsupported" -> ExitInternalError
            [] OTHER                          -> ComparedCode(s)

FixtureReport(path) ==
  LET document == IF discovered[path] = "file" /\ CanRead(path)
                  THEN FirstDocument(tree[path].lines) ELSE NoDocument
  IN [path |-> path, document |-> document,
      code |-> IF document = NoDocument THEN ExitInvalidInput ELSE FixtureCode[document]]

TestFixture ==
  /\ phase = "test" /\ queue # <<>>
  /\ report' = Append(report, FixtureReport(Head(queue)))
  /\ queue' = Tail(queue)
  /\ UNCHANGED <<phase, discovery, exit>>

(***************************************************************************)
(* summarizeTestReport.                                                    *)
(***************************************************************************)
Summarize ==
  /\ phase = "test" /\ queue = <<>>
  /\ phase' = "done"
  /\ exit' = SelectExitCode({report[i].code : i \in DOMAIN report})
  /\ UNCHANGED <<discovery, queue, report>>

TestNext ==
  \/ InspectFile \/ InspectOther \/ InspectDirectory
  \/ WalkRoot \/ ListDirectory \/ VisitFile \/ EndWalk
  \/ EndDiscovery
  \/ TestFixture
  \/ Summarize
================================================================================
