------------------------------ MODULE Explanation ------------------------------
(***************************************************************************)
(* Resource mode of `admitrace explain` (internal/cli/explain.go,          *)
(* internal/adapter, internal/hydration, internal/manifest): one command   *)
(* that gathers its inputs from files and, when a context is selected,     *)
(* from a cluster that goes on changing; evaluates every resource against  *)
(* every configuration; and says with its exit code whether to rely on the *)
(* answer.                                                                 *)
(*                                                                         *)
(*   decode -> connect [-> discover] [-> validating -> mutating]           *)
(*     [-> resources ...] -> explain [-> export] -> done                   *)
(*                                                                         *)
(* A command is [resources, webhookConfig, namespaceObject, user,          *)
(* supplemental, operation, context, snapshotOut].  Its webhookConfig is a *)
(* sequence of configurations, empty when the flag is absent; its          *)
(* namespaceObject is a Namespace fixture of at most one entry.            *)
(* A resource is [gvk, class, named, name, namespace, object, secret].     *)
(* A configuration is [webhooks, wellFormed].                              *)
(* A cluster is [exact, discovery, validating, mutating, namespaces].      *)
(***************************************************************************)
EXTENDS IdentityGuard, ExitCode, Functions

CONSTANTS
  Commands,        \* the commands a user may give
  Clusters,        \* the states the selected cluster may be in
  Catalog,         \* the embedded mapping of a GVK to [gvr, namespaced]
  MaxChanges       \* how often the cluster changes during one command

ASSUME ChangesAssumption == MaxChanges \in Nat

VARIABLES
  command,         \* the command, never changed
  cluster,         \* the cluster as it is now
  history,         \* the states it was in since the command began
  phase,           \* what the command does next
  profile,         \* how the compatibility profile was matched
  resolver,        \* the GVK mapping in use, without entries when there is none
  validating,      \* what the first of the two LISTs returned
  configurations,  \* the configurations to evaluate
  base,            \* the completeness all resources share
  incomplete,      \* whether they also share a diagnostic
  contexts,        \* for each resource resolved so far, its Namespace context
  reads,           \* the reads made of the cluster, in order
  explanations,    \* what the command prints
  published,       \* whether it exported a bundle
  exit             \* its exit code

inputs   == <<command, cluster, history>>
gathered == <<profile, resolver, validating, configurations, base, incomplete, reads>>
produced == <<explanations, published>>

vars == <<inputs, phase, gathered, contexts, produced, exit>>

Phases == {"decode", "connect", "discover", "validating", "mutating",
           "resources", "explain", "export", "done"}

Reading == {"connect", "discover", "validating", "mutating", "resources"}

Empty == <<>>            \* the fixture, or the mapping, with no entry

(***************************************************************************)
(* A manifest without a document is refused before there is a command, and *)
(* the embedded mapping is a literal of the sources.                       *)
(***************************************************************************)
ASSUME InputsAssumption ==
  /\ Catalog # Empty
  /\ \A c \in Commands :
       /\ c.resources \in Seq(Range(c.resources)) /\ c.resources # <<>>
       /\ c.webhookConfig \in Seq(Range(c.webhookConfig))
  /\ \A k \in Clusters :
       /\ k.validating \in Seq(Range(k.validating))
       /\ k.mutating \in Seq(Range(k.mutating))

(***************************************************************************)
(* The configurations there may be, on files or in the cluster.  A Webhook *)
(* has its fields, and its conditions are a list; so are the queries of a  *)
(* condition, which costs a natural number.                                *)
(***************************************************************************)
Offered ==
  (UNION {Range(c.webhookConfig) : c \in Commands})
    \cup (UNION {Range(k.validating) \cup Range(k.mutating) : k \in Clusters})

WellFormedWebhook(webhook) ==
  LET conditions == webhook.matchConditions IN
    /\ {"namespaceSelector", "objectSelector", "rules", "matchPolicy", "matchConditions"}
         \subseteq DOMAIN webhook
    /\ conditions \in Seq(Range(conditions))
    /\ \A k \in DOMAIN conditions :
         /\ {"form", "queries", "cost"} \subseteq DOMAIN conditions[k]
         /\ conditions[k].queries \in Seq(Range(conditions[k].queries))
         /\ conditions[k].cost \in Nat

ASSUME ConfigurationsAssumption ==
  \A configuration \in Offered :
    \A k \in DOMAIN configuration.webhooks : WellFormedWebhook(configuration.webhooks[k])

-------------------------------------------------------------------------------
(***************************************************************************)
(* Vocabularies.                                                           *)
(***************************************************************************)
CompletenessStatuses ==
  {"provided", "hydrated", "not-required", "missing", "forbidden", "unsupported"}

Unavailable == {"missing", "forbidden", "unsupported"}

Dimensions == {"configuration", "discovery", "namespace", "identity",
               "equivalence", "authorization"}

ReadFailures == {"forbidden", "not-found", "unavailable", "malformed"}
ReadStatuses == {"success", "empty"} \cup ReadFailures

DiagnosticCodes == {"ADAPTER_INCOMPLETE", "PROFILE_MISMATCH",
                    "IDENTITY_CONTEXT_MISSING", "SNAPSHOT_REFUSED"}

-------------------------------------------------------------------------------
(***************************************************************************)
(* Decoding and connecting.                                                *)
(***************************************************************************)
OptionalContextStatus(provided) == IF provided THEN "provided" ELSE "not-required"

Identified(c) == c.user # ""

Init ==
  /\ command \in Commands
  /\ cluster \in Clusters
  /\ history = {cluster}
  /\ phase = "decode"
  /\ profile = "none"
  /\ resolver = Empty
  /\ validating = [status |-> "empty", items |-> <<>>]
  /\ configurations = <<>>
  /\ base = [d \in Dimensions |->
               IF d = "identity" THEN OptionalContextStatus(Identified(command))
                                 ELSE "not-required"]
  /\ incomplete = FALSE
  /\ contexts = <<>>
  /\ reads = <<>>
  /\ explanations = <<>>
  /\ published = FALSE
  /\ exit = NotExited

Abort(code) == phase' = "done" /\ exit' = code

(***************************************************************************)
(* Everything that is refused before anything is read: no source of        *)
(* configurations, an operation other than CREATE, a document that is no   *)
(* resource, identity flags without a user.                                *)
(***************************************************************************)
Acceptable(c) ==
  /\ c.webhookConfig # <<>> \/ c.context
  /\ c.operation = "CREATE"
  /\ \A i \in DOMAIN c.resources : c.resources[i].class = "resource"
  /\ c.supplemental => Identified(c)

Decode ==
  /\ phase = "decode"
  /\ \/ Acceptable(command) /\ phase' = "connect" /\ UNCHANGED exit
     \/ ~Acceptable(command) /\ Abort(ExitInvalidInput)
  /\ UNCHANGED <<inputs, gathered, contexts, produced>>

(***************************************************************************)
(* The resources are built only against a mapping and at least one         *)
(* configuration.                                                          *)
(***************************************************************************)
SkipBuilding ==
  /\ phase' = "explain"
  /\ contexts' = [i \in DOMAIN command.resources |->
                    [namespaces |-> Empty, status |-> "not-required",
                     incomplete |-> FALSE]]

ProceedUnresolved(found, selected) ==   \* mutant: the mapping is not looked at
  IF selected = <<>> THEN SkipBuilding
  ELSE phase' = "resources" /\ UNCHANGED contexts

Proceed(found, selected) ==
  IF found = Empty \/ selected = <<>> THEN SkipBuilding
  ELSE phase' = "resources" /\ UNCHANGED contexts

(***************************************************************************)
(* Configurations from files suppress the LISTs; without them, discovery   *)
(* has to have worked before the cluster is asked.                         *)
(***************************************************************************)
ListsWantedAnyway(ready) == command.webhookConfig = <<>>  \* mutant: ready or not

ListsWanted(ready) == command.webhookConfig = <<>> /\ ready

SettleDiscovery(found, status) ==
  LET ready == status \in {"provided", "hydrated"}
  IN /\ resolver' = found
     /\ configurations' = command.webhookConfig
     /\ incomplete' = ~ready
     /\ base' = [base EXCEPT
                   !["discovery"] = status,
                   !["configuration"] =
                     IF command.webhookConfig # <<>> THEN "provided" ELSE "missing"]
     /\ IF ListsWanted(ready) THEN phase' = "validating" /\ UNCHANGED contexts
        ELSE Proceed(found, command.webhookConfig)

ConnectOffline ==
  /\ phase = "connect"
  /\ ~command.context
  /\ profile' = "declared"
  /\ SettleDiscovery(Catalog, "provided")
  /\ UNCHANGED <<inputs, validating, reads, produced, exit>>

(***************************************************************************)
(* A context that cannot be resolved is invalid input; a server that       *)
(* cannot be reached, or does not tell its version, leaves the evaluation  *)
(* incomplete.                                                             *)
(***************************************************************************)
ConnectFails ==
  /\ phase = "connect"
  /\ command.context
  /\ \E code \in {ExitInvalidInput, ExitIncompleteEvaluation} : Abort(code)
  /\ UNCHANGED <<inputs, gathered, contexts, produced>>

ConnectVerified ==
  /\ phase = "connect"
  /\ command.context
  /\ cluster.exact
  /\ profile' = "verified"
  /\ phase' = "discover"
  /\ UNCHANGED <<inputs, resolver, validating, configurations, base, incomplete,
                 reads, contexts, produced, exit>>

-------------------------------------------------------------------------------
(***************************************************************************)
(* The reads of the cluster.  Each may fail whatever the cluster holds.    *)
(***************************************************************************)
Read(call, resource, status) ==
  [call |-> call, resource |-> resource, status |-> status]

DiscoveryStatus(status) ==
  CASE status = "success"   -> "hydrated"
    [] status = "forbidden" -> "forbidden"
    [] OTHER                -> "unsupported"

Discover ==
  /\ phase = "discover"
  /\ \E status \in ReadFailures \cup
                   {IF cluster.discovery = Empty THEN "empty" ELSE "success"} :
       /\ reads' = Append(reads, Read("discovery", 0, status))
       /\ SettleDiscovery(IF status = "success" THEN cluster.discovery ELSE Empty,
                          DiscoveryStatus(status))
  /\ UNCHANGED <<inputs, profile, validating, produced, exit>>

ListResults(items) ==
  {[status |-> IF items = <<>> THEN "empty" ELSE "success", items |-> items]}
    \cup {[status |-> failure, items |-> <<>>] : failure \in ReadFailures}

ListValidating ==
  /\ phase = "validating"
  /\ validating' \in ListResults(cluster.validating)
  /\ reads' = Append(reads, Read("validating", 0, validating'.status))
  /\ phase' = "mutating"
  /\ UNCHANGED <<inputs, profile, resolver, configurations, base, incomplete,
                 contexts, produced, exit>>

CombinedByCount(first, second, count) ==  \* mutant: what was read is all there is
  CASE "forbidden" \in {first, second} -> "forbidden"
    [] OTHER -> IF count > 0 THEN "hydrated" ELSE "missing"

CombinedConfigurationStatus(first, second, count) ==
  CASE "forbidden" \in {first, second} -> "forbidden"
    [] {first, second} \cap {"forbidden", "malformed"} = {"malformed"} -> "unsupported"
    [] OTHER -> IF count > 0 /\ {first, second} \subseteq {"success", "empty"}
                THEN "hydrated" ELSE "missing"

(***************************************************************************)
(* What one LIST returned is kept when the other one failed.               *)
(***************************************************************************)
ListMutating ==
  /\ phase = "mutating"
  /\ \E result \in ListResults(cluster.mutating) :
       LET listed == validating.items \o result.items
           status == CombinedConfigurationStatus(validating.status, result.status,
                                                 Len(listed))
       IN /\ reads' = Append(reads, Read("mutating", 0, result.status))
          /\ configurations' = listed
          /\ base' = [base EXCEPT !["configuration"] = status]
          /\ incomplete' = (status # "hydrated")
          /\ Proceed(resolver, listed)
  /\ UNCHANGED <<inputs, profile, resolver, validating, produced, exit>>

-------------------------------------------------------------------------------
(***************************************************************************)
(* Building the Scenarios of one resource.                                 *)
(***************************************************************************)
ConfigurationsHaveNamespaceSelector ==
  \E c \in DOMAIN configurations :
    \E k \in DOMAIN configurations[c].webhooks :
      configurations[c].webhooks[k].namespaceSelector.form # "nil"

NamespaceRequired(resource) ==
  resolver[resource.gvk].namespaced /\ ConfigurationsHaveNamespaceSelector

NamespaceStatus(status) ==
  CASE status = "success"   -> "hydrated"
    [] status = "forbidden" -> "forbidden"
    [] status = "malformed" -> "unsupported"
    [] OTHER                -> "missing"

GetResults(name) ==
  IF name \in DOMAIN cluster.namespaces
  THEN {"success"} \cup (ReadFailures \ {"not-found"}) ELSE ReadFailures

(***************************************************************************)
(* resolveNamespace: the outcomes it may have for a resource, and the read *)
(* it makes, if any.  A Namespace file wins over the cluster, and is held  *)
(* back from a resource that needs none.                                   *)
(***************************************************************************)
NamespaceOutcomes(i) ==
  LET resource == command.resources[i]
      required == NamespaceRequired(resource)
      name     == resource.namespace
      outcome(namespaces, status, calls) ==
        [context |-> [namespaces |-> namespaces, status |-> status,
                      incomplete |-> status \in Unavailable],
         calls   |-> calls]
      fetched(status) ==
        outcome(IF status = "success" THEN [n \in {name} |-> cluster.namespaces[n]]
                                      ELSE Empty,
                NamespaceStatus(status), <<Read("namespace", i, status)>>)
  IN CASE command.namespaceObject # Empty ->
            {outcome(IF required THEN command.namespaceObject ELSE Empty, "provided", <<>>)}
       [] OTHER ->
            IF ~required THEN {outcome(Empty, "not-required", <<>>)}
            ELSE IF ~command.context \/ name = "" THEN {outcome(Empty, "missing", <<>>)}
            ELSE {fetched(status) : status \in GetResults(name)}

ScopeValid(resource, namespaces) ==
  /\ resolver[resource.gvk].namespaced \/ resource.namespace = ""
  /\ DOMAIN namespaces \subseteq {resource.namespace} \ {""}

(***************************************************************************)
(* The field rules of a Scenario, as far as the routing depends on them.   *)
(***************************************************************************)
ConfigurationValid(configuration) ==
  /\ configuration.wellFormed
  /\ \A k \in DOMAIN configuration.webhooks :
       /\ configuration.webhooks[k].namespaceSelector.form # "invalid"
       /\ configuration.webhooks[k].objectSelector.form # "invalid"

BuildResource(i, outcome) ==
  /\ reads' = reads \o outcome.calls
  /\ IF /\ ScopeValid(command.resources[i], outcome.context.namespaces)
        /\ \A c \in DOMAIN configurations : ConfigurationValid(configurations[c])
     THEN /\ contexts' = Append(contexts, outcome.context)
          /\ phase' = IF i = Len(command.resources) THEN "explain" ELSE "resources"
          /\ UNCHANGED exit
     ELSE Abort(ExitInvalidInput) /\ UNCHANGED contexts

ResolveResource ==
  LET i        == Len(contexts) + 1
      resource == command.resources[i]
      refuse(code) == Abort(code) /\ UNCHANGED <<reads, contexts>>
  IN /\ phase = "resources"
     /\ \/ ~resource.named /\ refuse(ExitInvalidInput)
        \/ /\ resource.named
           /\ resource.gvk \notin DOMAIN resolver
           /\ refuse(ExitIncompleteEvaluation)
        \/ /\ resource.named
           /\ resource.gvk \in DOMAIN resolver
           /\ \E outcome \in NamespaceOutcomes(i) : BuildResource(i, outcome)
     /\ UNCHANGED <<inputs, profile, resolver, validating, configurations, base,
                    incomplete, produced>>

-------------------------------------------------------------------------------
(***************************************************************************)
(* Evaluating and explaining one resource.  The command never has an       *)
(* equivalence mapping or an authorizer decision to offer.                 *)
(***************************************************************************)
RequestFor(resource, resolution) ==
  [operation |-> "CREATE", kind |-> resource.gvk, resource |-> resolution.gvr,
   subresource |-> "", namespaced |-> resolution.namespaced,
   namespace |-> resource.namespace, name |-> resource.name,
   object |-> resource.object,
   oldObject |-> [state |-> "absent", labels |-> {}, asNamespace |-> FALSE,
                  decodes |-> FALSE],
   dryRun |-> FALSE]

Scenario(resource, namespaces) ==
  [request |-> RequestFor(resource, resolver[resource.gvk]), namespaces |-> namespaces,
   equivalents |-> Empty, authorization |-> Empty]

JudgeUnguarded(webhook, scenario) ==    \* mutant: nobody is somebody
  VerdictOf(ForUser(webhook, command.user), scenario)

Judge(webhook, scenario) ==
  LET verdict == VerdictOf(ForUser(webhook, command.user), scenario)
  IN IF ~Identified(command) /\ WebhookRequiresIdentity(webhook)
     THEN Guarded(verdict) ELSE verdict

EvaluationsOf(i) ==
  IF resolver = Empty THEN <<>>
  ELSE LET scenario == Scenario(command.resources[i], contexts[i].namespaces)
       IN [c \in DOMAIN configurations |->
             [configuration |-> configurations[c],
              verdicts |-> [k \in DOMAIN configurations[c].webhooks |->
                              Judge(configurations[c].webhooks[k], scenario)]]]

VerdictsOf(evaluations) ==
  UNION {{evaluations[c].verdicts[k] : k \in DOMAIN evaluations[c].verdicts} :
           c \in DOMAIN evaluations}

Reasons(evaluations) == {verdict.reason : verdict \in VerdictsOf(evaluations)}

AlwaysMissing(status) == "missing"     \* mutant: the reason why is lost

MissingUnlessUnavailable(status) ==
  IF status \in {"forbidden", "unsupported"} THEN status ELSE "missing"

DimensionOf(reason) ==
  CASE reason = "NAMESPACE_CONTEXT_MISSING"     -> "namespace"
    [] reason = "IDENTITY_CONTEXT_MISSING"      -> "identity"
    [] reason = "EQUIVALENCE_CONTEXT_MISSING"   -> "equivalence"
    [] reason = "AUTHORIZATION_CONTEXT_MISSING" -> "authorization"
    [] OTHER                                   -> "none"

FinalizeByFirst(completeness, evaluations) ==  \* mutant: the first configuration only
  LET lacking == {DimensionOf(reason) : reason \in Reasons(SubSeq(evaluations, 1, 1))}
  IN [d \in Dimensions |->
        IF d \notin lacking THEN completeness[d]
        ELSE IF d = "namespace" THEN MissingUnlessUnavailable(completeness[d])
        ELSE "missing"]

FinalizeCompleteness(completeness, evaluations) ==
  LET lacking == {DimensionOf(reason) : reason \in Reasons(evaluations)}
  IN [d \in Dimensions |->
        IF d \notin lacking THEN completeness[d]
        ELSE IF d = "namespace" THEN MissingUnlessUnavailable(completeness[d])
        ELSE "missing"]

DiagnosticsOf(i, evaluations) ==
  (IF incomplete \/ contexts[i].incomplete
      \/ "AUTHORIZATION_CONTEXT_MISSING" \in Reasons(evaluations)
   THEN {"ADAPTER_INCOMPLETE"} ELSE {})
  \cup ({"IDENTITY_CONTEXT_MISSING"} \cap Reasons(evaluations))

ExplanationOf(i) ==
  LET evaluations == EvaluationsOf(i)
  IN [profile      |-> profile,
      completeness |-> FinalizeCompleteness(
                         [base EXCEPT !["namespace"] = contexts[i].status], evaluations),
      diagnostics  |-> DiagnosticsOf(i, evaluations),
      evaluations  |-> evaluations]

-------------------------------------------------------------------------------
(***************************************************************************)
(* The exit code.  One explanation counts as incomplete as soon as it has  *)
(* a diagnostic or lacks a dimension; its evaluations are looked at after  *)
(* that, and the first that is not clean decides.                          *)
(***************************************************************************)
ManifestExplanationExitCode(explanation) ==
  LET code(c)  == EvaluationExitCode(VerdictsOf(<<explanation.evaluations[c]>>))
      unclean  == {c \in DOMAIN explanation.evaluations : code(c) # ExitSuccess}
  IN IF \/ explanation.diagnostics # {}
        \/ \E d \in Dimensions : explanation.completeness[d] \in Unavailable
     THEN ExitIncompleteEvaluation
     ELSE IF unclean = {} THEN ExitSuccess
     ELSE code(CHOOSE c \in unclean : \A other \in unclean : c <= other)

ExecutionExitCode(explained) ==
  SelectExitCode({ManifestExplanationExitCode(explained[i]) : i \in DOMAIN explained})

Finish(explained) == phase' = "done" /\ exit' = ExecutionExitCode(explained)

(***************************************************************************)
(* A server outside the profile ends the command with explanations that    *)
(* hold no evaluation.  Nothing is exported then.                          *)
(***************************************************************************)
MismatchExplanation ==
  [profile      |-> "mismatch",
   completeness |-> [base EXCEPT
                       !["discovery"] = "unsupported",
                       !["configuration"] =
                         IF command.webhookConfig # <<>> THEN "provided" ELSE "missing"],
   diagnostics  |-> {"PROFILE_MISMATCH"},
   evaluations  |-> <<>>]

ConnectMismatched ==
  /\ phase = "connect"
  /\ command.context
  /\ ~cluster.exact
  /\ profile' = "mismatch"
  /\ explanations' = [i \in DOMAIN command.resources |-> MismatchExplanation]
  /\ Finish(explanations')
  /\ UNCHANGED <<inputs, resolver, validating, configurations, base, incomplete,
                 reads, contexts, published>>

(***************************************************************************)
(* evaluateResolvedResources.  Metadata that pass for a manifest but not   *)
(* for a request, like labels that are no strings, end the command when    *)
(* the first Scenario with that resource is prepared.                      *)
(***************************************************************************)
Prepared(resource) ==
  \/ resolver = Empty \/ configurations = <<>>           \* no Scenario was built
  \/ resource.object.state # "malformed"

AllPrepared == \A i \in DOMAIN command.resources : Prepared(command.resources[i])

ExplainFails ==
  /\ phase = "explain"
  /\ ~AllPrepared
  /\ Abort(ExitInvalidInput)
  /\ UNCHANGED <<inputs, gathered, contexts, produced>>

Explain ==
  /\ phase = "explain"
  /\ AllPrepared
  /\ explanations' = [i \in DOMAIN command.resources |-> ExplanationOf(i)]
  /\ IF command.snapshotOut THEN phase' = "export" /\ UNCHANGED exit
                            ELSE Finish(explanations')
  /\ UNCHANGED <<inputs, gathered, contexts, published>>

(***************************************************************************)
(* Exporting (SnapshotWriter).  A refusal that names a resource, of a      *)
(* Secret or of a file that was not written, is noted with that resource,  *)
(* any other with all of them.                                             *)
(***************************************************************************)
RefusalsOf(explained) ==
  LET all     == DOMAIN explained
      secrets == {i \in all : command.resources[i].secret}
  IN IF \A i \in all : explained[i].evaluations = <<>> THEN {all}
     ELSE IF secrets # {} THEN {{CHOOSE i \in secrets : \A j \in secrets : i <= j}}
     ELSE {{}, all} \cup {{i} : i \in all}

ApplySnapshotRefusal(explained, refused) ==
  [i \in DOMAIN explained |->
     IF i \in refused
     THEN [explained[i] EXCEPT !.diagnostics = @ \cup {"SNAPSHOT_REFUSED"}]
     ELSE explained[i]]

Export ==
  /\ phase = "export"
  /\ \E refused \in RefusalsOf(explanations) :
       /\ published' = (refused = {})
       /\ explanations' = ApplySnapshotRefusal(explanations, refused)
  /\ Finish(explanations')
  /\ UNCHANGED <<inputs, gathered, contexts>>

-------------------------------------------------------------------------------
(***************************************************************************)
(* The cluster does not wait for the command.                              *)
(***************************************************************************)
ClusterChanges ==
  /\ phase \in Reading
  /\ command.context
  /\ Cardinality(history) <= MaxChanges
  /\ cluster' \in Clusters \ history
  /\ history' = history \cup {cluster'}
  /\ UNCHANGED <<command, phase, gathered, contexts, produced, exit>>

Next ==
  \/ Decode
  \/ ConnectOffline \/ ConnectFails \/ ConnectMismatched \/ ConnectVerified
  \/ Discover
  \/ ListValidating \/ ListMutating
  \/ ResolveResource
  \/ Explain \/ ExplainFails
  \/ Export
  \/ ClusterChanges

Spec == Init /\ [][Next]_vars
=============================================================================
