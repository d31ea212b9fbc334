------------------------------- MODULE Routing --------------------------------
(***************************************************************************)
(* What the pre-CEL stages of one Webhook compute from the request, the    *)
(* Webhook and the fixtures: the two selectors, the rules and the          *)
(* equivalent candidates (internal/routing, internal/compat/kube136 and    *)
(* internal/fixture).  Everything here is a function of its arguments; the *)
(* order in which the stages run is in Evaluation.                         *)
(*                                                                         *)
(* A label selector is [form, labels].  Its form is "nil", "labels" (it    *)
(* asks for the labels in the set, and is empty when the set is) or        *)
(* "invalid" (LabelSelectorAsSelector refuses it).                         *)
(***************************************************************************)
EXTENDS Contract

CONSTANTS
  ExemptKinds      \* the admission configuration kinds Kubernetes never routes

(***************************************************************************)
(* The Namespace object whose labels a namespace selector looks at comes   *)
(* from the request, from the fixture, or is not needed at all             *)
(* (NamespaceContextModeFor).  The test is on the resource name alone; the *)
(* fixture key below also looks at the group.                              *)
(***************************************************************************)
IsNamespaceResource(request) == request.resource.resource = "namespaces"

NamespaceContextModeFor(request) ==
  CASE /\ IsNamespaceResource(request)
       /\ request.subresource = ""
       /\ request.operation \in {"CREATE", "UPDATE"}       -> "request-object"
    [] ~request.namespaced /\ ~IsNamespaceResource(request) -> "not-required"
    [] OTHER                                               -> "fixture"

NamespaceFixtureLookupName(request) ==
  IF /\ request.resource.group = ""
     /\ IsNamespaceResource(request)
     /\ request.namespace = ""
  THEN request.name
  ELSE request.namespace

(***************************************************************************)
(* ContextFor: [err, labels], where err is "none", "missing-context" (no   *)
(* fixture entry) or "evaluation-error" (the Namespace request object is   *)
(* absent, null or not a Namespace).                                       *)
(***************************************************************************)
NamespaceContextFor(request, namespaces) ==
  LET name == NamespaceFixtureLookupName(request)
      failed(err) == [err |-> err, labels |-> {}]
  IN CASE NamespaceContextModeFor(request) = "request-object" ->
            IF request.object.state = "object" /\ request.object.asNamespace
            THEN [err |-> "none", labels |-> request.object.labels]
            ELSE failed("evaluation-error")
       [] OTHER ->
            IF name \in DOMAIN namespaces
            THEN [err |-> "none", labels |-> namespaces[name]]
            ELSE failed("missing-context")

(***************************************************************************)
(* The outcome of a selector stage.                                        *)
(***************************************************************************)
SelectorProblems == {"evaluation-error", "missing-context"}
SelectorOutcomes == {"match", "no-match"} \cup SelectorProblems

MatchOutcome(matched) == IF matched THEN "match" ELSE "no-match"

EmptySelector(selector) == selector.form = "labels" /\ selector.labels = {}

MatchNamespaceSelector(webhook, request, namespaces) ==
  LET selector == webhook.namespaceSelector
      context  == NamespaceContextFor(request, namespaces)
  IN CASE NamespaceContextModeFor(request) = "not-required" -> "match"
       [] NamespaceContextModeFor(request) # "not-required" ->
            CASE selector.form = "nil"       -> "match"
              [] selector.form = "invalid"   -> "evaluation-error"
              [] EmptySelector(selector)     -> "match"
              [] OTHER -> IF context.err # "none" THEN context.err
                          ELSE MatchOutcome(selector.labels \subseteq context.labels)

(***************************************************************************)
(* The object selector matches object or oldObject.  A payload that is     *)
(* absent or null cannot satisfy a selector that is not empty.             *)
(***************************************************************************)
PayloadMatches(selector, payload) ==
  payload.state = "object" /\ selector.labels \subseteq payload.labels

MatchObjectSelector(webhook, request) ==
  LET selector == webhook.objectSelector
  IN CASE selector.form = "nil"     -> "match"
       [] selector.form = "invalid" -> "evaluation-error"
       [] OTHER -> MatchOutcome(\/ EmptySelector(selector)
                                \/ PayloadMatches(selector, request.object)
                                \/ PayloadMatches(selector, request.oldObject))

(***************************************************************************)
(* One rule against a resource (the staging rules.Matcher).  A rule names  *)
(* sets of operations, groups, versions and <<resource, subresource>>      *)
(* pairs, "*" being any; a Namespace counts as cluster-scoped.             *)
(***************************************************************************)
NamespaceGVR == [group |-> "", version |-> "v1", resource |-> "namespaces"]

Covers(names, name) == "*" \in names \/ name \in names

ScopeMatches(rule, request, resource) ==
  LET clusterScoped == resource = NamespaceGVR \/ ~request.namespaced
  IN CASE rule.scope = "*"          -> TRUE
       [] rule.scope = "Namespaced" -> ~clusterScoped
       [] rule.scope = "Cluster"    -> clusterScoped

ExactRuleMatches(rule, request, resource, subresource) ==
  /\ ScopeMatches(rule, request, resource)
  /\ Covers(rule.operations, request.operation)
  /\ Covers(rule.apiGroups, resource.group)
  /\ Covers(rule.apiVersions, resource.version)
  /\ \E pattern \in rule.resources :
       /\ pattern[1] \in {"*", resource.resource}
       /\ pattern[2] \in {"*", subresource}

MatchExactRules(webhook, request) ==
  \E i \in DOMAIN webhook.rules :
    ExactRuleMatches(webhook.rules[i], request,
                     request.resource, request.subresource)

(***************************************************************************)
(* The equivalence fixture: a partial function from a resource reference   *)
(* to its ordered candidates.  The candidate with the request's own GVR    *)
(* was already tried by the Exact pass.                                    *)
(***************************************************************************)
RequestReference(request) ==
  [gvr |-> request.resource, subresource |-> request.subresource]

CandidateMatches(rule, request, candidate) ==
  /\ candidate.gvr # request.resource
  /\ ExactRuleMatches(rule, request, candidate.gvr, candidate.subresource)

EquivalentMatches(webhook, request, candidates) ==
  {match \in (DOMAIN webhook.rules) \X (DOMAIN candidates) :
     CandidateMatches(webhook.rules[match[1]], request, candidates[match[2]])}

(***************************************************************************)
(* matchEquivalentRules tries every candidate against a rule before it     *)
(* goes to the next rule, so the rule order decides before the candidate   *)
(* order does.  The invocation carries the kind the conditions will see.   *)
(***************************************************************************)
Precedes(a, b) == a[1] < b[1] \/ (a[1] = b[1] /\ a[2] <= b[2])

EquivalentInvocation(webhook, request, candidates) ==
  LET matches == EquivalentMatches(webhook, request, candidates)
      first   == CHOOSE m \in matches : \A other \in matches : Precedes(m, other)
  IN candidates[first[2]].kind

IsExemptAdmissionConfigurationResource(request) == request.kind \in ExemptKinds
=============================================================================
