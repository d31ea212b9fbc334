------------------------------ MODULE CommandLine ------------------------------
(***************************************************************************)
(* One run of the program over files: `admitrace test` (FixtureTest) or    *)
(* `admitrace explain` up to the hand-over to resource mode                *)
(* (ManifestInput), beside whoever else changes the files.                 *)
(*                                                                         *)
(* An invocation is [command, arguments, options, tree]: the arguments are *)
(* those of test, the options those of explain, and the tree is what the   *)
(* files are when the command begins.                                      *)
(***************************************************************************)
EXTENDS FixtureTest, ManifestInput

CONSTANTS
  Invocations      \* the commands a user may give, and where

(***************************************************************************)
(* A command is given paths, in a tree that has a node for each; explain   *)
(* always has its first, and what stands for no path is none.  Every       *)
(* Webhook of a document has a field for its name.                         *)
(***************************************************************************)
ASSUME InvocationsAssumption ==
  /\ {NoPath, NoEntry} \cap PathSet = {}
  /\ \A given \in Invocations :
       /\ given.command \in {"test", "explain"}
       /\ given.arguments \in Seq(PathSet)
       /\ given.command = "explain" =>
            /\ given.options.primary \in PathSet
            /\ \A r \in Roles : given.options[r] \in PathSet \cup {NoPath}
       /\ DOMAIN given.tree = PathSet
       /\ \A path \in PathSet : WellFormedText(given.tree[path].lines)

ASSUME DocumentsAssumption ==
  \A document \in DOMAIN Documents :
    LET configurations == Documents[document].scenario.configurations
    IN Len(configurations) = 1 =>
         \A k \in DOMAIN configurations[1] : "name" \in DOMAIN configurations[1][k]

VARIABLES
  invocation       \* the command, never changed

vars == <<tree, treeChanges, testVars, explainVars, invocation>>

FirstPhase == IF invocation.command = "test" THEN "inspect" ELSE "idle"
FirstTask  == IF invocation.command = "explain" THEN "look" ELSE "idle"

Init ==
  /\ invocation \in Invocations
  /\ TreeInit(invocation.tree)
  /\ TestInit(FirstPhase, invocation.arguments)
  /\ ExplainInit(FirstTask, invocation.options)

TestStep    == TestNext /\ UNCHANGED <<tree, treeChanges, explainVars, invocation>>
ExplainStep == ExplainNext /\ UNCHANGED <<tree, treeChanges, testVars, invocation>>
ChangeTree  == TreeChanges /\ UNCHANGED <<testVars, explainVars, invocation>>

Next == TestStep \/ ExplainStep \/ ChangeTree

Spec == Init /\ [][Next]_vars

(***************************************************************************)
(* A command is one sequential process, and every call it makes of the     *)
(* file system returns.                                                    *)
(***************************************************************************)
FairSpec == Spec /\ WF_vars(TestStep) /\ WF_vars(ExplainStep)
================================================================================
