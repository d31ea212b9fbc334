-------------------------------- MODULE Samples --------------------------------
(***************************************************************************)
(* The pieces the instances for TLC are made of.                           *)
(***************************************************************************)
EXTENDS Routing

Deployments    == [group |-> "apps", version |-> "v1", resource |-> "deployments"]
OldDeployments == [group |-> "extensions", version |-> "v1beta1", resource |-> "deployments"]
Nodes          == [group |-> "", version |-> "v1", resource |-> "nodes"]

Nothing == <<>>     \* the fixture with no entry

(***************************************************************************)
(* Payloads and requests.                                                  *)
(***************************************************************************)
NoPayload(state) == [state |-> state, labels |-> {}, asNamespace |-> FALSE, decodes |-> FALSE]

Payload(labels) == [state |-> "object", labels |-> labels, asNamespace |-> TRUE, decodes |-> TRUE]

Request(operation, kindName, resource, namespaced, namespace, object, oldObject) ==
  [operation |-> operation, kind |-> kindName, resource |-> resource, subresource |-> "",
   namespaced |-> namespaced, namespace |-> namespace, name |-> "n",
   object |-> object, oldObject |-> oldObject, dryRun |-> FALSE]

(***************************************************************************)
(* Webhooks.                                                               *)
(***************************************************************************)
NilSelector     == [form |-> "nil", labels |-> {}]
Labels(labels)  == [form |-> "labels", labels |-> labels]
InvalidSelector == [form |-> "invalid", labels |-> {}]

Rule(groups, scope) ==
  [operations |-> {"CREATE", "UPDATE", "DELETE"}, apiGroups |-> groups,
   apiVersions |-> {"*"}, resources |-> {<<"*", "">>}, scope |-> scope]

Literal(value) ==
  [form |-> "literal", value |-> value, kind |-> "", queries |-> <<>>, cost |-> 1]
Form(form)     == [Literal(FALSE) EXCEPT !.form = form]
KindIs(name)   == [Form("kind-is") EXCEPT !.kind = name]
Ask(form, queries) == [Form(form) EXCEPT !.queries = queries]

Webhook(namespaceSelector, objectSelector, rules, matchPolicy, failurePolicy,
        matchConditions) ==
  [namespaceSelector |-> namespaceSelector, objectSelector |-> objectSelector,
   rules |-> rules, matchPolicy |-> matchPolicy, failurePolicy |-> failurePolicy,
   matchConditions |-> matchConditions, sideEffects |-> "None"]

OpenWebhook(failurePolicy, matchConditions) ==
  Webhook(NilSelector, NilSelector, <<Rule({"*"}, "*")>>, "Equivalent",
          failurePolicy, matchConditions)

Policies == {"Fail", "Ignore"}
=============================================================================
