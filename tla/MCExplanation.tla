----------------------------- MODULE MCExplanation -----------------------------
(***************************************************************************)
(* Commands and clusters small enough for TLC.                             *)
(***************************************************************************)
EXTENDS ExplanationProperties, Samples

Secrets == [group |-> "", version |-> "v1", resource |-> "secrets"]
Widgets == [group |-> "example.com", version |-> "v1", resource |-> "widgets"]

Mapping(gvr, namespaced) == [gvr |-> gvr, namespaced |-> namespaced]

MCCatalog ==
  [apps |-> Mapping(Deployments, TRUE), node |-> Mapping(Nodes, FALSE),
   secret |-> Mapping(Secrets, TRUE)]

Discovered ==       \* a custom resource besides the built-in ones
  [gvk \in {"apps", "node", "secret", "widget"} |->
     IF gvk = "widget" THEN Mapping(Widgets, TRUE) ELSE MCCatalog[gvk]]

-------------------------------------------------------------------------------
(***************************************************************************)
(* Resources.                                                              *)
(***************************************************************************)
Resource(gvk, namespace) ==
  [gvk |-> gvk, class |-> "resource", named |-> TRUE, name |-> "n",
   namespace |-> namespace, object |-> Payload({}), secret |-> (gvk = "secret")]

Deployment == Resource("apps", "prod")

ResourceLists ==
  {<<Deployment>>, <<Deployment, Resource("node", "")>>, <<Resource("secret", "prod"), Deployment>>}

OddResourceLists ==
  {<<Resource("node", "")>>,
   <<Resource("node", "prod")>>,
   <<Resource("apps", "")>>,
   <<Resource("widget", "prod")>>,
   <<Deployment, [Deployment EXCEPT !.named = FALSE]>>,
   <<Deployment, [Deployment EXCEPT !.class = "namespace"]>>,
   <<[Deployment EXCEPT !.object.decodes = FALSE], Deployment>>,
   <<Deployment, [Deployment EXCEPT !.object = NoPayload("malformed")]>>}

-------------------------------------------------------------------------------
(***************************************************************************)
(* Configurations: one that needs the Namespace, one that needs the user,  *)
(* one that needs what no command can offer, and one that needs nothing.   *)
(***************************************************************************)
UserIs(user, spelling) ==
  [form |-> "user-is", user |-> user, spelling |-> spelling,
   value |-> FALSE, kind |-> "", queries |-> <<>>, cost |-> 1]

InEnv(conditions) ==
  Webhook(Labels({"env"}), NilSelector, <<Rule({"*"}, "*")>>, "Exact", "Fail", conditions)

Anywhere(conditions) == [InEnv(conditions) EXCEPT !.namespaceSelector = NilSelector]

Configuration(webhooks) == [webhooks |-> webhooks, wellFormed |-> TRUE]

OfNamespace == Configuration(<<InEnv(<<>>), Anywhere(<<>>)>>)

OfUser ==
  Configuration(<<Anywhere(<<UserIs("alice", "plain")>>),
                  InEnv(<<Literal(FALSE), UserIs("alice", "plain")>>)>>)

OfNobody ==
  Configuration(<<Anywhere(<<Ask("any", <<"q1">>)>>),
                  [Anywhere(<<>>) EXCEPT !.rules = <<Rule({"extensions"}, "*")>>,
                                         !.matchPolicy = "Equivalent"]>>)

OfNothing == Configuration(<<Anywhere(<<Literal(TRUE)>>)>>)

Broken == {Configuration(<<Webhook(NilSelector, InvalidSelector, <<>>, "Exact", "Fail", <<>>)>>),
           [OfNothing EXCEPT !.wellFormed = FALSE]}

-------------------------------------------------------------------------------
(***************************************************************************)
(* Clusters: they differ in their lists, in the labels of the Namespace    *)
(* and whether it is there, and in what they serve.                        *)
(***************************************************************************)
Cluster(first, second, namespaces) ==
  [exact |-> TRUE, discovery |-> Discovered, validating |-> first, mutating |-> second,
   namespaces |-> namespaces]

Prod(labels) == [n \in {"prod"} |-> labels]

MCClusters ==
  {Cluster(<<OfNamespace>>, <<OfNothing>>, Prod({"env"})),
   Cluster(<<OfNamespace, OfUser>>, <<>>, Prod({})),
   Cluster(<<>>, <<OfNobody>>, Nothing),
   [Cluster(<<>>, <<>>, Nothing) EXCEPT !.discovery = Nothing],
   [Cluster(<<OfNothing>>, <<>>, Nothing) EXCEPT !.exact = FALSE]}

-------------------------------------------------------------------------------
(***************************************************************************)
(* Commands.                                                               *)
(***************************************************************************)
CommandsOf(resources, webhookConfigs, namespaceObjects, users, contextFlags, snapshotFlags) ==
  [resources: resources, webhookConfig: webhookConfigs, namespaceObject: namespaceObjects,
   user: users, supplemental: {FALSE}, operation: {"CREATE"}, context: contextFlags,
   snapshotOut: snapshotFlags]

Files == {<<OfNamespace>>, <<OfNobody, OfUser>>, <<OfNothing>>} \cup {<<b>> : b \in Broken}

AnyUser == {"", "alice"}

Plain == CHOOSE c \in CommandsOf({<<Deployment>>}, {<<OfNothing>>}, {Nothing}, {""}, {FALSE}, {FALSE}) : TRUE

Unacceptable ==
  {[Plain EXCEPT !.webhookConfig = <<>>], [Plain EXCEPT !.operation = "UPDATE"],
   [Plain EXCEPT !.supplemental = TRUE]}

MCCommands ==
       CommandsOf(ResourceLists \cup OddResourceLists, Files,
                  {Nothing, Prod({"env"}), [n \in {"other"} |-> {}]},
                  AnyUser, {FALSE}, BOOLEAN)
  \cup CommandsOf(ResourceLists \cup OddResourceLists, {<<OfNamespace>>, <<OfNothing, OfUser>>},
                  {Nothing}, {""}, {TRUE}, {FALSE})
  \cup CommandsOf(ResourceLists, {<<>>}, {Nothing, Prod({"env"})}, AnyUser, {TRUE}, {FALSE})
  \cup CommandsOf({<<Deployment>>}, {<<>>}, {Nothing}, AnyUser, {TRUE}, {TRUE})
  \cup Unacceptable

MCUsers == {"alice", "bob"}

MCLabelSets == {{}, {"env"}}

DeploymentCandidates(gvr) ==
  [r \in {[gvr |-> gvr, subresource |-> ""]} |->
     <<[gvr |-> OldDeployments, subresource |-> "", kind |-> "extensions/Deployment"]>>]

MCUnknowns ==
  [equivalents: {Nothing, DeploymentCandidates(Deployments), DeploymentCandidates(Secrets)},
   authorization: {Nothing, [q \in {"q1"} |-> "allow"], [q \in {"q1"} |-> "deny"]}]

(***************************************************************************)
(* For the two violations: a condition that spells the user another way,   *)
(* and selectors as the API server completes them.                         *)
(***************************************************************************)
WrappedCommands ==
  CommandsOf({<<Deployment>>},
             {<<Configuration(<<Anywhere(<<UserIs("alice", spelling)>>)>>)>> :
                spelling \in {"plain", "wrapped"}},
             {Nothing}, AnyUser, {FALSE}, {FALSE})

ContextCommands ==
  CommandsOf({<<Deployment>>}, {<<>>}, {Nothing}, {""}, {TRUE}, {FALSE})

CompletedClusters ==
  {Cluster(<<Configuration(<<[Anywhere(<<>>) EXCEPT !.namespaceSelector = Labels({})]>>)>>,
           <<>>, Prod(labels)) : labels \in MCLabelSets}

(***************************************************************************)
(* What is proved of commands that hide nothing (VerdictsNotGuessed,       *)
(* AbsentUserDecidesNothing) or of selectors that are not empty            *)
(* (NamespaceReadsNeeded) is proved of every run but the one that shows    *)
(* that it needs the hypothesis.                                           *)
(***************************************************************************)
ASSUME HypothesisAssumption == Commands # WrappedCommands => NothingHidden

ASSUME SelectorAssumption == Clusters # CompletedClusters => NoneEmpty
=============================================================================
