----------------------------- MODULE MCEvaluation -----------------------------
(***************************************************************************)
(* Snapshots small enough for TLC, in families: one that varies what comes *)
(* before the conditions, one that varies the conditions, one that varies  *)
(* the configuration around a Webhook.                                     *)
(***************************************************************************)
EXTENDS EvaluationProperties, Samples

MCExemptKinds == {"ValidatingWebhookConfiguration"}

-------------------------------------------------------------------------------
CreateDeployment ==
  Request("CREATE", "apps/Deployment", Deployments, TRUE, "prod",
          Payload({"app"}), NoPayload("absent"))

UndecodableDeployment == [CreateDeployment EXCEPT !.object.decodes = FALSE]

RoutingRequests ==
  {CreateDeployment,
   Request("UPDATE", "apps/Deployment", Deployments, TRUE, "prod",
           Payload({}), Payload({"app"})),
   Request("DELETE", "apps/Deployment", Deployments, TRUE, "prod",
           NoPayload("absent"), NoPayload("null")),
   Request("CREATE", "Namespace", NamespaceGVR, FALSE, "",
           Payload({"env"}), NoPayload("absent")),
   Request("UPDATE", "Namespace", NamespaceGVR, FALSE, "",
           NoPayload("null"), Payload({"app"})),
   [Request("CREATE", "Namespace", NamespaceGVR, FALSE, "",
            Payload({"app"}), NoPayload("absent")) EXCEPT !.object.asNamespace = FALSE],
   Request("DELETE", "Namespace", NamespaceGVR, FALSE, "",
           NoPayload("absent"), NoPayload("absent")),
   Request("CREATE", "Node", Nodes, FALSE, "", Payload({}), NoPayload("absent")),
   Request("UPDATE", "ValidatingWebhookConfiguration", Nodes, FALSE, "",
           Payload({}), Payload({}))}

-------------------------------------------------------------------------------
(***************************************************************************)
(* Every way to combine some configurations (sequences of Webhooks),       *)
(* requests and fixtures.  A family of snapshots is a set of records, so   *)
(* that TLC decides membership one field at a time.                        *)
(***************************************************************************)
SnapshotsOf(configurations, requests, namespaces, equivalents, authorization) ==
  [webhooks: configurations, request: requests, namespaces: namespaces,
   equivalents: equivalents, authorization: authorization]

ContextsOf(namespaces, equivalents, authorization) ==
  [namespaces: namespaces, equivalents: equivalents, authorization: authorization]

-------------------------------------------------------------------------------
(***************************************************************************)
(* Routing: every combination of selectors, rules and policies, against    *)
(* requests for namespaced, cluster-scoped, Namespace and exempt resources *)
(* and fixtures that have, lack or contradict what is looked for.          *)
(***************************************************************************)
DeploymentReference == [gvr |-> Deployments, subresource |-> ""]

Candidate(resource, kindName) == [gvr |-> resource, subresource |-> "", kind |-> kindName]

NamespaceFixtures ==
  {Nothing, [n \in {"prod"} |-> {"env"}], [n \in {"prod"} |-> {}], [n \in {"n"} |-> {"env"}]}

EquivalenceFixtures ==
  {Nothing,
   [r \in {DeploymentReference} |-> <<>>],
   [r \in {DeploymentReference} |-> <<Candidate(Deployments, "apps/Deployment"),
                                      Candidate(OldDeployments, "extensions/Deployment")>>]}

RoutingContexts == ContextsOf(NamespaceFixtures, EquivalenceFixtures, {Nothing})

RoutingWebhooks ==
  {<<Webhook(n, o, rules, matchPolicy, failurePolicy, <<>>)>> :
     n \in {NilSelector, Labels({}), Labels({"env"})},
     o \in {NilSelector, Labels({"app"})},
     rules \in {<<>>, <<Rule({"*"}, "Namespaced")>>, <<Rule({"batch"}, "*"), Rule({"*"}, "Cluster")>>,
                <<Rule({"extensions"}, "*")>>},
     matchPolicy \in {"Exact", "Equivalent"},
     failurePolicy \in Policies}

RoutingSnapshots ==
  SnapshotsOf(RoutingWebhooks, RoutingRequests,
              NamespaceFixtures, EquivalenceFixtures, {Nothing})

(***************************************************************************)
(* Selectors LabelSelectorAsSelector refuses.  Scenario validation does    *)
(* not let one through; Evaluate takes any Snapshot, and its tests pass    *)
(* them.                                                                   *)
(***************************************************************************)
BrokenWebhooks ==
  {<<Webhook(n, o, rules, matchPolicy, failurePolicy, <<>>)>> :
     n \in {InvalidSelector, Labels({"env"})},
     o \in {InvalidSelector, NilSelector, Labels({"app"})},
     rules \in {<<Rule({"*"}, "*")>>, <<Rule({"extensions"}, "*")>>},
     matchPolicy \in {"Exact", "Equivalent"},
     failurePolicy \in Policies}

BrokenSelectorSnapshots ==
  SnapshotsOf(BrokenWebhooks, RoutingRequests,
              NamespaceFixtures, EquivalenceFixtures, {Nothing})

AllRoutingSnapshots == RoutingSnapshots \cup BrokenSelectorSnapshots

-------------------------------------------------------------------------------
(***************************************************************************)
(* Conditions: up to three of them, over two queries the fixture answers   *)
(* or does not and one it cannot represent, with a budget that two checks  *)
(* or two checked conditions exceed.                                       *)
(***************************************************************************)
Answers == {"allow", "deny", "error"}

AuthorizationFixtures == UNION {[asked -> Answers] : asked \in SUBSET {"q1", "q2"}}

ConditionContexts == ContextsOf({Nothing}, {Nothing}, AuthorizationFixtures)

Conditions ==
  {Literal(TRUE), Literal(FALSE), Form("runtime-error"), Form("compile-error"),
   Form("stops"), Ask("runtime-error", <<"q1">>), Ask("any", <<"q1", "q2">>), Ask("all", <<"q1", "q2">>),
   Ask("any", <<"q2">>), Ask("all", <<"withSelector", "q1">>), Ask("any", <<"malformed">>)}

FewConditions ==
  {Literal(TRUE), Literal(FALSE), Form("runtime-error"),
   Ask("any", <<"q1">>), Ask("all", <<"q2">>), Ask("all", <<"q1", "q2">>)}

ConditionLists ==
  {<<>>} \cup {<<c>> : c \in Conditions} \cup {<<c, d>> : c, d \in Conditions}
         \cup {<<c, d, e>> : c, d, e \in FewConditions}

DryRunConfigurations ==
  {<<[OpenWebhook("Fail", <<cond>>) EXCEPT !.sideEffects = effects]>> :
     cond \in Conditions, effects \in {"nil", "Unknown", "NoneOnDryRun"}}

ConditionSnapshots ==
  LET over(configurations, requests) ==
        SnapshotsOf(configurations, requests, {Nothing}, {Nothing}, AuthorizationFixtures)
  IN    over({<<OpenWebhook(p, cs)>> : p \in Policies, cs \in ConditionLists},
             {CreateDeployment})
   \cup over(DryRunConfigurations,
             {[CreateDeployment EXCEPT !.dryRun = TRUE], UndecodableDeployment})

(***************************************************************************)
(* Conditions that need decisions the fixture may not have, and nothing    *)
(* else that could go wrong.                                               *)
(***************************************************************************)
DecisionFixtures == UNION {[asked -> {"allow", "deny"}] : asked \in SUBSET {"q1", "q2"}}

DecisionContexts == ContextsOf({Nothing}, {Nothing}, DecisionFixtures)

DecisionLists ==
  UNION {[1..n -> {Ask("any", <<"q1">>), Ask("any", <<"q2", "q1">>)}] : n \in 1..3}

DecisionSnapshots ==
  SnapshotsOf({<<OpenWebhook(p, cs)>> : p \in Policies, cs \in DecisionLists},
              {CreateDeployment}, {Nothing}, {Nothing}, DecisionFixtures)

-------------------------------------------------------------------------------
(***************************************************************************)
(* Configurations of three Webhooks: two alike, or alike but for their     *)
(* failure policy, around one that leaves something behind.                *)
(***************************************************************************)
KindRules == <<Rule({"batch"}, "*"), Rule({"extensions"}, "*")>>

Disturbing ==
  {Webhook(Labels({"env"}), Labels({"app"}), KindRules, "Equivalent", "Fail", <<Literal(TRUE)>>),
   Webhook(Labels({"env"}), Labels({"other"}), KindRules, "Exact", "Fail", <<>>),
   OpenWebhook("Ignore", <<Ask("any", <<"q1", "q2">>), Literal(FALSE)>>)}

Repeated ==
  {Webhook(n, NilSelector, KindRules, "Equivalent", "Fail", <<c, d>>) :
     n \in {NilSelector, Labels({"env"})},
     c \in {KindIs("apps/Deployment"), KindIs("extensions/Deployment"), Ask("any", <<"q1">>)},
     d \in {Literal(TRUE), Form("runtime-error"), Ask("all", <<"q2", "q1">>), Ask("any", <<"q2">>)}}

Mappings ==
  {Nothing, [r \in {DeploymentReference} |->
               <<Candidate(OldDeployments, "extensions/Deployment")>>]}

Authorizations ==
  {Nothing, [q \in {"q1"} |-> "deny"], [q \in {"q1", "q2"} |-> "allow"],
   [q \in {"q1", "q2"} |-> IF q = "q1" THEN "allow" ELSE "error"]}

ConfigurationNamespaces == {Nothing, [x \in {"prod"} |-> {"env"}]}

ConfigurationContexts == ContextsOf(ConfigurationNamespaces, Mappings, Authorizations)

ConfigurationSnapshots ==
  SnapshotsOf({<<w, d, [w EXCEPT !.failurePolicy = p]>> :
                 w \in Repeated, d \in Disturbing, p \in Policies} \cup {<<>>},
              {CreateDeployment}, ConfigurationNamespaces, Mappings, Authorizations)

-------------------------------------------------------------------------------
(***************************************************************************)
(* All of them, and every fixture one of them may be compared across.      *)
(***************************************************************************)
AllSnapshots == AllRoutingSnapshots \cup ConditionSnapshots \cup ConfigurationSnapshots

AllContexts == RoutingContexts \cup ConditionContexts \cup ConfigurationContexts

(***************************************************************************)
(* The two sentences of the documentation that a run refutes are proved    *)
(* under a hypothesis each (RejectedByPolicy, AbsenceIsIndeterminate).     *)
(* The snapshots that refute the one satisfy the hypothesis of the other.  *)
(***************************************************************************)
ASSUME SelectorsAssumption == Contexts = DecisionContexts => SelectorsEvaluate

ASSUME BudgetAssumption == Contexts = RoutingContexts => NothingOverruns
=============================================================================
