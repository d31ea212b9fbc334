----------------------------- MODULE ScenarioInput -----------------------------
(***************************************************************************)
(* From the text of a Scenario to the snapshot that is evaluated           *)
(* (internal/scenario, internal/normalize, internal/fixture,               *)
(* evaluation.SnapshotFromScenario).                                       *)
(*                                                                         *)
(* A Scenario is [header, configurations, request, scope, namespace,       *)
(* equivalence, authorization, expectations].  Its header is TRUE when     *)
(* apiVersion, kind, name and compatibility profile are the expected ones. *)
(* configurations holds the Webhooks of each configuration the document    *)
(* has; exactly one is right.  The three fixtures are sequences, as        *)
(* written; so is what is expected.                                        *)
(***************************************************************************)
EXTENDS Judgement, SequencesExt

CONSTANTS
  MaximumDocuments,                 \* the documents of one command
  MaximumWebhookMatchConditions     \* the conditions of one Webhook

ASSUME LimitsAssumption ==
  MaximumDocuments \in Nat /\ MaximumWebhookMatchConditions \in Nat

(***************************************************************************)
(* Validate: the field rules of a Webhook configuration.  A pointer that   *)
(* may be left out is "nil" here.                                          *)
(***************************************************************************)
NoneEqual(values) == IsInjective(values)

Operations == {"CREATE", "UPDATE", "DELETE", "CONNECT"}

MatchConditionsValid(conditions) ==
  /\ Len(conditions) <= MaximumWebhookMatchConditions
  /\ NoneEqual([k \in DOMAIN conditions |-> conditions[k].name])
  /\ \A k \in DOMAIN conditions : conditions[k].name # "" /\ ~conditions[k].blank

RulesValid(rules) ==
  \A r \in DOMAIN rules :
    /\ rules[r].scope \in {"nil", "*", "Cluster", "Namespaced"}
    /\ rules[r].operations \subseteq Operations \cup {"*"}

WebhooksValid(webhooks) ==
  /\ NoneEqual([k \in DOMAIN webhooks |-> webhooks[k].name])
  /\ \A k \in DOMAIN webhooks :
       LET w == webhooks[k] IN
         /\ w.name # ""
         /\ w.failurePolicy \in {"nil", "Fail", "Ignore"}
         /\ w.matchPolicy \in {"nil", "Exact", "Equivalent"}
         /\ "invalid" \notin {w.namespaceSelector.form, w.objectSelector.form}
         /\ MatchConditionsValid(w.matchConditions)
         /\ RulesValid(w.rules)

(***************************************************************************)
(* Validate: what is expected names configured Webhooks, each once, and    *)
(* speaks the vocabulary of results.                                       *)
(***************************************************************************)
ExpectationsValid(expectations, webhooks) ==
  /\ NoneEqual([e \in DOMAIN expectations |-> expectations[e].webhookName])
  /\ \A e \in DOMAIN expectations :
       /\ \E k \in DOMAIN webhooks : webhooks[k].name = expectations[e].webhookName
       /\ ExpectationValid(expectations[e])

ValidUnnamed(s) ==              \* mutant: the names expected are not looked up
  /\ s.header
  /\ Len(s.configurations) = 1
  /\ WebhooksValid(s.configurations[1])
  /\ s.request.operation \in Operations
  /\ s.scope \in {"Cluster", "Namespaced"}
  /\ \A e \in DOMAIN s.expectations : ExpectationValid(s.expectations[e])

Valid(s) ==
  /\ s.header
  /\ Len(s.configurations) = 1
  /\ WebhooksValid(s.configurations[1])
  /\ s.request.operation \in Operations
  /\ s.scope \in {"Cluster", "Namespaced"}
  /\ ExpectationsValid(s.expectations, s.configurations[1])

(***************************************************************************)
(* Decode of one document, a record [decodes, class, conforms, scenario]:  *)
(* whether it is an object within the limits, what it says it is, and      *)
(* whether it has the fields of that and no others.                        *)
(***************************************************************************)
Decodes(document) ==
  /\ document.decodes /\ document.class = "scenario" /\ document.conforms
  /\ Valid(document.scenario)

(***************************************************************************)
(* ApplyDefaults.                                                          *)
(***************************************************************************)
Default(value, otherwise) == IF value = "nil" THEN otherwise ELSE value

WithDefaults(w) ==
  [w EXCEPT !.failurePolicy = Default(@, "Fail"),
            !.matchPolicy   = Default(@, "Equivalent"),
            !.rules = [r \in DOMAIN @ |-> [@[r] EXCEPT !.scope = Default(@, "*")]]]

-------------------------------------------------------------------------------
(***************************************************************************)
(* SnapshotFromScenario: what is wrong with the payloads and with the      *)
(* fixtures.  An unsupported mapping must not hide an ill-formed one, but  *)
(* it does hide what is wrong with the authorization fixture, which is     *)
(* built last.                                                             *)
(***************************************************************************)
PayloadsMalformed(request) == "malformed" \in {request.object.state, request.oldObject.state}

NamespaceUnnamed(namespace) == \E n \in DOMAIN namespace : namespace[n].name = ""

Named(reference) == reference.gvr.version # "" /\ reference.gvr.resource # ""

TargetKey(target) == [gvr |-> target.gvr, subresource |-> target.subresource]

EquivalenceIllFormed(mappings) ==
  LET targets(m) == {mappings[m].equivalents[t] : t \in DOMAIN mappings[m].equivalents}
      all        == UNION {targets(m) : m \in DOMAIN mappings}
      keys(m)    == [t \in DOMAIN mappings[m].equivalents |->
                       TargetKey(mappings[m].equivalents[t])]
  IN \/ ~NoneEqual([m \in DOMAIN mappings |-> mappings[m].request])
     \/ \E m \in DOMAIN mappings :
          ~mappings[m].listed \/ ~Named(mappings[m].request) \/ ~NoneEqual(keys(m))
     \/ \E target \in all : ~Named(target) \/ target.kind = ""
     \/ \E a, b \in all : TargetKey(a) = TargetKey(b) /\ a.kind # b.kind

CrossesSubresources(mappings) ==
  \E m \in DOMAIN mappings : \E t \in DOMAIN mappings[m].equivalents :
    mappings[m].equivalents[t].subresource # mappings[m].request.subresource

AuthorizationIllFormed(decisions) ==
  \/ ~NoneEqual([d \in DOMAIN decisions |-> decisions[d].query])
  \/ \E d \in DOMAIN decisions :
       decisions[d].verdict \notin {"allow", "deny", "no-opinion", "error"}

Preparation(s) ==
  IF \/ PayloadsMalformed(s.request)
     \/ NamespaceUnnamed(s.namespace)
     \/ EquivalenceIllFormed(s.equivalence) THEN "invalid"
  ELSE IF CrossesSubresources(s.equivalence) THEN "unsupported"
  ELSE IF AuthorizationIllFormed(s.authorization) THEN "invalid"
  ELSE "prepared"

(***************************************************************************)
(* The snapshot: the defaulted Webhooks in their order, the request, and   *)
(* the fixtures as the functions they are looked up in.                    *)
(***************************************************************************)
Lookup(fixture, key, value) ==
  [k \in {fixture[e][key] : e \in DOMAIN fixture} |->
     fixture[CHOOSE e \in DOMAIN fixture : fixture[e][key] = k][value]]

WebhooksOf(s) == [k \in DOMAIN s.configurations[1] |-> WithDefaults(s.configurations[1][k])]

SnapshotOf(s) ==
  [webhooks      |-> WebhooksOf(s),
   request       |-> [s.request EXCEPT !.namespaced = (s.scope = "Namespaced")],
   namespaces    |-> Lookup(s.namespace, "name", "labels"),
   equivalents   |-> Lookup(s.equivalence, "request", "equivalents"),
   authorization |-> Lookup(s.authorization, "query", "verdict")]

VerdictsOn(s) ==
  LET snapshot == SnapshotOf(s)
  IN [k \in DOMAIN snapshot.webhooks |-> VerdictOf(snapshot.webhooks[k], snapshot)]
================================================================================
