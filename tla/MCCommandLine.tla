----------------------------- MODULE MCCommandLine -----------------------------
(***************************************************************************)
(* Files and commands small enough for TLC.                                *)
(***************************************************************************)
EXTENDS CommandLineProperties, Samples, TLC

MCPaths == <<"-", "d", "d/a.yaml", "d/n.txt", "d/s", "d/s.yaml", "d/s/t.yaml", "f.txt">>

MCParent ==
  [path \in PathSet |->
     CASE path \in {"-", "d", "f.txt"} -> Top [] path = "d/s/t.yaml" -> "d/s" [] OTHER -> "d"]

MCSupported == {"d/a.yaml", "d/s.yaml", "d/s/t.yaml"}

-------------------------------------------------------------------------------
(***************************************************************************)
(* Scenarios.  The request creates a Deployment in a Namespace of which    *)
(* nothing is known; the first Webhook is called, the second needs the     *)
(* Namespace, the third is skipped by its condition.                       *)
(***************************************************************************)
CreateDeployment ==
  Request("CREATE", "apps/Deployment", Deployments, TRUE, "prod",
          Payload({"app"}), NoPayload("absent"))

Condition(form) == [name |-> "c", blank |-> FALSE] @@ form

Called   == [name |-> "called"] @@ OpenWebhook("nil", <<Condition(Literal(TRUE))>>)
Needing  == [Called EXCEPT !.name = "needing", !.namespaceSelector = Labels({"env"})]
Skipped  == [Called EXCEPT !.name = "skipped", !.matchConditions = <<Condition(Literal(FALSE))>>]
Asking   == [Called EXCEPT !.name = "asking",
                           !.matchConditions = <<Condition(Ask("any", <<"q1">>))>>]
Elsewhere == [Called EXCEPT !.name = "elsewhere", !.matchPolicy = "nil",
                            !.rules = <<[Rule({"extensions"}, "*") EXCEPT !.scope = "nil"]>>]

Expect(name, determination, outcome, reason) ==
  [webhookName |-> name, determination |-> determination, outcome |-> outcome, reason |-> reason]

ExpectCalled  == Expect("called", "determinate", "called", "MATCH_CONDITIONS_TRUE")
ExpectSkipped == Expect("skipped", "determinate", "skipped", NoReason)
ExpectNeeding == Expect("needing", "indeterminate", NoOutcome, "NAMESPACE_CONTEXT_MISSING")

Scenario(webhooks, expectations) ==
  [header |-> TRUE, configurations |-> <<webhooks>>, request |-> CreateDeployment,
   scope |-> "Namespaced", namespace |-> <<>>, equivalence |-> <<>>, authorization |-> <<>>,
   expectations |-> expectations]

Plain == Scenario(<<Called>>, <<>>)

DeploymentReference == [gvr |-> Deployments, subresource |-> ""]

OldTarget == [gvr |-> OldDeployments, subresource |-> "", kind |-> "extensions/Deployment"]

MappingOf(request, equivalents) ==
  [request |-> request, equivalents |-> equivalents, listed |-> TRUE]

OldMapping == MappingOf(DeploymentReference, <<OldTarget>>)

Crossing == MappingOf(DeploymentReference, <<[OldTarget EXCEPT !.subresource = "scale"]>>)

Decision(query, verdict) == [query |-> query, verdict |-> verdict]

(***************************************************************************)
(* The Scenarios that matter to an exit code, by what is wrong with them.  *)
(***************************************************************************)
GoodScenarios ==
  [called    |-> Scenario(<<Called, Skipped>>, <<ExpectSkipped, ExpectCalled>>),
   silent    |-> Scenario(<<Called, Skipped>>, <<>>),
   unknown   |-> Scenario(<<Skipped, Needing>>, <<>>),
   asserted  |-> Scenario(<<Needing>>, <<ExpectNeeding>>),
   mapped    |-> [Scenario(<<Elsewhere, Asking>>, <<>>) EXCEPT
                    !.equivalence = <<OldMapping>>, !.authorization = <<Decision("q1", "deny")>>],
   missed    |-> Scenario(<<Called>>, <<[ExpectCalled EXCEPT !.outcome = "skipped"]>>),
   misread   |-> Scenario(<<Called>>, <<[ExpectCalled EXCEPT !.reason = "RULE_MATCH"]>>),
   open      |-> Scenario(<<Called, Needing>>, <<ExpectCalled>>),
   both      |-> Scenario(<<Skipped, Needing>>, <<[ExpectSkipped EXCEPT !.outcome = "called"]>>),
   surprise  |-> Scenario(<<Needing>>, <<[ExpectNeeding EXCEPT !.determination = "unsupported"]>>),
   internal  |-> [Scenario(<<Called>>, <<Expect("called", "indeterminate", NoOutcome, NoReason)>>)
                    EXCEPT !.request.object.decodes = FALSE],
   crossing  |-> [Plain EXCEPT !.equivalence = <<Crossing>>],
   crossing2 |-> [Plain EXCEPT !.equivalence = <<Crossing>>,
                               !.authorization = <<Decision("q1", "maybe")>>]]

InvalidScenarios ==
  [header     |-> [Plain EXCEPT !.header = FALSE],
   twice      |-> [Plain EXCEPT !.configurations = <<@[1], @[1]>>],
   unexpected |-> Scenario(<<Called>>, <<ExpectCalled, ExpectSkipped>>),
   repeated   |-> Scenario(<<Called>>, <<ExpectCalled, ExpectCalled>>),
   outcome    |-> Scenario(<<Needing>>, <<[ExpectNeeding EXCEPT !.outcome = "skipped"]>>),
   operation  |-> [Plain EXCEPT !.request.operation = "PATCH"],
   scope      |-> [Plain EXCEPT !.scope = "*"],
   namesake   |-> Scenario(<<Called, Called>>, <<>>),
   policy     |-> Scenario(<<[Called EXCEPT !.failurePolicy = "Maybe"]>>, <<>>),
   selector   |-> Scenario(<<[Called EXCEPT !.objectSelector = InvalidSelector]>>, <<>>),
   conditions |-> Scenario(<<[Called EXCEPT !.matchConditions = @ \o @]>>, <<>>),
   blank      |-> Scenario(<<[Called EXCEPT !.matchConditions[1].blank = TRUE]>>, <<>>),
   rule       |-> Scenario(<<[Called EXCEPT !.rules[1].scope = "Galaxy"]>>, <<>>),
   payload    |-> [Plain EXCEPT !.request.object = NoPayload("malformed")],
   namespace  |-> [Plain EXCEPT !.namespace = <<[name |-> "", labels |-> {}]>>],
   mappings   |-> [Plain EXCEPT !.equivalence = <<OldMapping, OldMapping>>],
   kinds      |-> [Plain EXCEPT !.equivalence =
                     <<Crossing, MappingOf([DeploymentReference EXCEPT !.gvr = Nodes],
                                           <<OldTarget, [OldTarget EXCEPT !.kind = ""]>>)>>],
   decisions  |-> [Plain EXCEPT !.authorization = <<Decision("q1", "allow"), Decision("q1", "deny")>>]]

Document(class, scenario) ==
  [decodes |-> TRUE, class |-> class, conforms |-> TRUE, scenario |-> scenario]

OtherDocuments ==
  [resource      |-> Document("resource", Plain),
   configuration |-> Document("configuration", Plain),
   misspelt      |-> [Document("configuration", Plain) EXCEPT !.conforms = FALSE],
   home          |-> Document("namespace", Plain),
   broken        |-> [Document("scenario", Plain) EXCEPT !.decodes = FALSE],
   extra         |-> [Document("scenario", Plain) EXCEPT !.conforms = FALSE]]

Scenarios == GoodScenarios @@ InvalidScenarios

MCDocuments ==
  [name \in DOMAIN Scenarios |-> Document("scenario", Scenarios[name])] @@ OtherDocuments

-------------------------------------------------------------------------------
(***************************************************************************)
(* Files.                                                                  *)
(***************************************************************************)
Line(mark)     == [mark |-> mark, document |-> NoDocument]
Text(document) == [mark |-> "text", document |-> document]
Comment        == Line("comment")
Separator      == Line("separator")
Inline(document) == [mark |-> "inline", document |-> document]

File(lines) == [kind |-> "file", readable |-> TRUE, lines |-> lines]
Holding(document) == File(<<Text(document)>>)
Unreadable(node) == [node EXCEPT !.readable = FALSE]
LinkTo(lines) == [File(lines) EXCEPT !.kind = "file-link"]
Directory == [kind |-> "directory", readable |-> TRUE, lines |-> <<>>]
Odd(kind) == [Directory EXCEPT !.kind = kind]

TreeWith(nodes) == [path \in PathSet |-> IF path \in DOMAIN nodes THEN nodes[path] ELSE NoNode]

TestTree(first, second) ==
  TreeWith("d" :> Directory @@ "d/s" :> Directory @@ "d/a.yaml" :> Holding(first)
             @@ "d/n.txt" :> Holding("called") @@ "d/s/t.yaml" :> Holding(second))

NoOptions ==
  [primary |-> NoPath, explicitly |-> FALSE, webhookConfig |-> NoPath,
   namespaceObject |-> NoPath, context |-> FALSE, operation |-> "CREATE",
   user |-> FALSE, supplemental |-> FALSE, snapshotOut |-> FALSE]

Testing(given, files) ==
  [command |-> "test", arguments |-> given, options |-> NoOptions, tree |-> files]

Explaining(given, files) ==
  [command |-> "explain", arguments |-> <<>>, options |-> given, tree |-> files]

(***************************************************************************)
(* Tests of two fixtures, one beside and one below the other directory.    *)
(***************************************************************************)
FixtureTests ==
  {Testing(<<"d">>, TestTree(first, second)) :
     first, second \in DOMAIN GoodScenarios \cup {"unexpected", "extra"}}
  \cup {Testing(<<"f.txt">>, TreeWith("f.txt" :> Holding(name))) : name \in DOMAIN MCDocuments}

(***************************************************************************)
(* Tests of few fixtures in a tree where anything is possible.             *)
(***************************************************************************)
OddNodes ==
  {NoNode, Odd("directory-link"), Odd("dangling-link"), Odd("special"),
   LinkTo(<<Text("called")>>), Unreadable(Holding("called")), Unreadable(Directory), Directory,
   File(<<>>), File(<<Comment, Separator, Separator, Text("called")>>),
   File(<<Comment, Separator, Text("silent"), Separator, Text("missed")>>)}

FullTree == [TestTree("called", "silent") EXCEPT !["d/s.yaml"] = Holding("asserted"),
                                                 !["f.txt"] = Holding("open")]

OddTrees == {[FullTree EXCEPT ![path] = node] : path \in PathSet \ {"-"}, node \in OddNodes}

ArgumentLists ==
  {<<"d">>, <<"f.txt">>, <<"d", "f.txt">>, <<"f.txt", "d">>, <<"d/a.yaml", "d">>, <<"d", "d/s">>,
   <<"d/s", "d/s/t.yaml">>, <<"d/s", "f.txt", "d/s.yaml">>}

TreeTests == {Testing(given, files) : given \in ArgumentLists, files \in OddTrees}

(***************************************************************************)
(* Explanations.                                                           *)
(***************************************************************************)
OptionsOf(primaries, webhookConfigs, namespaceObjects, contexts) ==
  {[NoOptions EXCEPT !.primary = p, !.webhookConfig = w, !.namespaceObject = n, !.context = c] :
     p \in primaries, w \in webhookConfigs, n \in namespaceObjects, c \in contexts}

Explanations ==
  {Explaining([NoOptions EXCEPT !.primary = path], TreeWith(path :> Holding(name))) :
     path \in {"f.txt", "-"}, name \in DOMAIN MCDocuments}
  \cup {Explaining(given, TreeWith("f.txt" :> Holding("silent"))) :
          given \in {[NoOptions EXCEPT !.primary = "f.txt", !.explicitly = TRUE],
                     [NoOptions EXCEPT !.primary = "f.txt", !.operation = "UPDATE"],
                     [NoOptions EXCEPT !.primary = "f.txt", !.user = TRUE],
                     [NoOptions EXCEPT !.primary = "f.txt", !.snapshotOut = TRUE],
                     [NoOptions EXCEPT !.primary = "f.txt", !.webhookConfig = "f.txt"]}}

ResourceTexts ==
  {<<Text("resource")>>, <<Comment, Separator, Text("resource"), Comment>>,
   <<Text("resource"), Separator, Text("resource")>>,
   <<Text("resource"), Separator, Text("silent")>>,
   <<Separator, Text("silent")>>,
   <<Text("resource"), Separator>>, <<Separator, Comment, Separator, Text("resource")>>,
   <<Text("resource"), Separator, Text("broken")>>, <<Text("resource"), Inline("resource")>>,
   <<Text("home"), Separator, Text("misspelt")>>, <<Comment>>, <<>>}

ManifestTree(first, second) ==
  TreeWith("d" :> Directory @@ "d/s" :> Directory @@ "d/a.yaml" :> first
             @@ "d/n.txt" :> Holding("broken") @@ "d/s.yaml" :> second
             @@ "d/s/t.yaml" :> Holding("configuration")
             @@ "-" :> Holding("resource") @@ "f.txt" :> Holding("home"))

ManifestTrees ==
  {ManifestTree(File(first), File(second)) :
     first \in ResourceTexts, second \in {<<Text("resource")>>, <<Text("resource"), Separator, Text("resource")>>}}
  \cup {ManifestTree(first, Holding("resource")) : first \in OddNodes}
  \cup {[ManifestTree(Holding("resource"), Holding("resource")) EXCEPT ![path] = node] :
          path \in {"d", "d/s", "f.txt"}, node \in OddNodes}

Manifests ==
  {Explaining(given, files) :
     given \in OptionsOf({"d", "d/a.yaml"}, {"d/s"}, {"f.txt"}, {FALSE})
                 \cup OptionsOf({"d"}, {NoPath}, {NoPath}, BOOLEAN)
                 \cup OptionsOf({"-"}, {"d/s/t.yaml", "-"}, {NoPath, "f.txt"}, {FALSE})
                 \cup {[NoOptions EXCEPT !.primary = "d", !.context = TRUE, !.supplemental = TRUE]},
     files \in ManifestTrees}

MCInvocations == FixtureTests \cup TreeTests \cup Explanations \cup Manifests

(***************************************************************************)
(* What others do to the files.                                            *)
(***************************************************************************)
Change(path, node) == [path |-> path, node |-> node]

MCChanges ==
  {Change("d", NoNode), Change("d/a.yaml", NoNode), Change("d/a.yaml", LinkTo(<<Text("resource")>>)),
   Change("d/s.yaml", Holding("missed")), Change("d/s", Unreadable(Directory))}
================================================================================
