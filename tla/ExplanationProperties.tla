------------------------- MODULE ExplanationProperties -------------------------
(***************************************************************************)
(* The correctness properties of Explanation.                              *)
(***************************************************************************)
EXTENDS Explanation

CONSTANTS
  Users,           \* who might have sent the request
  LabelSets,       \* the labels a Namespace that was not read might have
  Unknowns         \* the mappings and decisions a command cannot offer:
                   \* [equivalents, authorization]

(***************************************************************************)
(* The variables hold what their declarations say, and a phase finds the   *)
(* inputs it needs: there is a mapping and a configuration to build with,  *)
(* and a Namespace context for every resource to explain.                  *)
(***************************************************************************)
ReadEntry ==
  [call: {"discovery", "validating", "mutating", "namespace"}, resource: Nat,
   status: ReadStatuses]

TypeOK ==
  /\ command \in Commands
  /\ cluster \in history /\ history \subseteq Clusters
  /\ phase \in Phases
  /\ profile \in {"none", "declared", "verified", "mismatch"}
  /\ validating.status \in ReadStatuses
  /\ base \in [Dimensions -> CompletenessStatuses]
  /\ incomplete \in BOOLEAN
  /\ reads \in Seq(ReadEntry)
  /\ Len(contexts) <= Len(command.resources)
  /\ \A i \in DOMAIN contexts : contexts[i].status \in CompletenessStatuses
  /\ \A i \in DOMAIN explanations :
       /\ explanations[i].completeness \in [Dimensions -> CompletenessStatuses]
       /\ explanations[i].diagnostics \subseteq DiagnosticCodes
  /\ published \in BOOLEAN
  /\ exit \in {NotExited, ExitSuccess, ExitInvalidInput, ExitIncompleteEvaluation,
               ExitInternalError}
  /\ phase = "resources" => resolver # Empty /\ configurations # <<>>
  /\ phase = "explain" => Len(contexts) = Len(command.resources)
  /\ (exit = NotExited) <=> (phase # "done")

-------------------------------------------------------------------------------
(***************************************************************************)
(* A determinate verdict is true of the cluster: it is the verdict on a    *)
(* configuration that was supplied or was there, with the Namespace that   *)
(* was supplied or was there, and no answer to anything that was not       *)
(* asked, be it the user, the labels of a Namespace, an equivalence        *)
(* mapping or a decision, would change it.  The cluster may change between *)
(* the reads, so what is there is what was there at some time during the   *)
(* command (docs/product/reference.md: a forbidden or unavailable read     *)
(* "never becomes a guessed match or skip").                               *)
(***************************************************************************)
Authentic(configuration) ==
  \/ configuration \in Range(command.webhookConfig)
  \/ \E state \in history :
       configuration \in Range(state.validating) \cup Range(state.mutating)

PossibleUsers == IF Identified(command) THEN {command.user} ELSE Users

TrueWith(webhook, verdict, i, namespaces) ==
  \A user \in PossibleUsers, unknown \in Unknowns :
    Agrees(verdict,
           VerdictOf(ForUser(webhook, user),
                     [Scenario(command.resources[i], namespaces) EXCEPT
                        !.equivalents = unknown.equivalents,
                        !.authorization = unknown.authorization]))

TrueOf(webhook, verdict, i) ==
  CASE explanations[i].completeness["namespace"] = "hydrated" ->
         \E state \in history : TrueWith(webhook, verdict, i, state.namespaces)
    [] explanations[i].completeness["namespace"] = "provided" ->
         TrueWith(webhook, verdict, i, command.namespaceObject)
    [] OTHER ->
         \A labels \in LabelSets :
           TrueWith(webhook, verdict, i,
                    [n \in {command.resources[i].namespace} |-> labels])

NoVerdictGuessed ==
  \A i \in DOMAIN explanations :
    \A c \in DOMAIN explanations[i].evaluations :
      LET evaluation == explanations[i].evaluations[c]
          webhooks   == evaluation.configuration.webhooks
      IN /\ Authentic(evaluation.configuration)
         /\ \A k \in DOMAIN webhooks :
              evaluation.verdicts[k].determination = "determinate" =>
                TrueOf(webhooks[k], evaluation.verdicts[k], i)

(***************************************************************************)
(* When that is so for any commands and clusters: the conditions that ask  *)
(* for the user spell it the way the guard looks for, and an evaluator     *)
(* never stops because of what the conditions cost, whatever the decisions *)
(* are.  Without the first a user nobody named decides, without the second *)
(* a decision nobody supplied.                                             *)
(***************************************************************************)
SpelledPlain(webhook) ==
  \A k \in DOMAIN webhook.matchConditions :
    OnUser(webhook.matchConditions[k]) => webhook.matchConditions[k].spelling = "plain"

WithinBudget(webhook) ==
  \A user \in Users \cup {c.user : c \in Commands},
     authorization \in {Empty} \cup {unknown.authorization : unknown \in Unknowns} :
    \A k \in DOMAIN webhook.matchConditions :
      ~(Spent(ForUser(webhook, user), [authorization |-> authorization])[k] > CostBudget)

PlainlySpelled ==
  \A configuration \in Offered :
    \A k \in DOMAIN configuration.webhooks : SpelledPlain(configuration.webhooks[k])

NothingHidden ==
  /\ PlainlySpelled
  /\ \A configuration \in Offered :
       \A k \in DOMAIN configuration.webhooks : WithinBudget(configuration.webhooks[k])

(***************************************************************************)
(* Exit code 0 stands for a complete answer: every resource is explained   *)
(* against every configuration of the files, or of both LISTs as the       *)
(* cluster had them when it was asked; every Webhook has a determinate     *)
(* verdict; and an export that was asked for took place.                   *)
(***************************************************************************)
AllConfigurations(selected) ==
  IF command.webhookConfig # <<>> THEN selected = command.webhookConfig
  ELSE \E first, second \in history : selected = first.validating \o second.mutating

ZeroMeansComplete ==
  exit = ExitSuccess =>
    /\ Len(explanations) = Len(command.resources)
    /\ command.snapshotOut => published
    /\ \A i \in DOMAIN explanations :
         LET evaluations == explanations[i].evaluations IN
           /\ AllConfigurations([c \in DOMAIN evaluations |-> evaluations[c].configuration])
           /\ \A verdict \in VerdictsOf(evaluations) :
                verdict.determination = "determinate"

(***************************************************************************)
(* What a verdict lacks is on the list of what the explanation lacks, and  *)
(* the exit code says so, whichever configuration and whichever resource   *)
(* it was (FinalizeCompleteness, manifestExplanationExitCode).             *)
(***************************************************************************)
GapsReported ==
  \A i \in DOMAIN explanations :
    \A verdict \in VerdictsOf(explanations[i].evaluations) :
      verdict.determination # "determinate" =>
        /\ phase = "done" => exit \in {ExitIncompleteEvaluation, ExitInternalError}
        /\ DimensionOf(verdict.reason) \in Dimensions =>
             explanations[i].completeness[DimensionOf(verdict.reason)] \in Unavailable

(***************************************************************************)
(* A read that was forbidden stays forbidden up to the explanation of      *)
(* every resource it was made for, whatever else fails or is found to be   *)
(* missing later (docs/product/reference.md: "A forbidden/unavailable read *)
(* is represented in contextCompleteness").                                *)
(***************************************************************************)
DimensionRead(call) ==
  CASE call = "discovery" -> "discovery"
    [] call = "namespace" -> "namespace"
    [] OTHER              -> "configuration"

ForbiddenReadsShown ==
  \A r \in DOMAIN reads : \A i \in DOMAIN explanations :
    reads[r].status = "forbidden" /\ reads[r].resource \in {0, i} =>
      explanations[i].completeness[DimensionRead(reads[r].call)] = "forbidden"

(***************************************************************************)
(* The cluster is asked only when a context is selected and its version is *)
(* the exact one; files suppress the reads they stand for; nothing is      *)
(* asked again, or asked after discovery failed                            *)
(* (docs/product/reference.md, "Context source precedence and safety       *)
(* boundary").                                                             *)
(***************************************************************************)
ReadsWithinBoundary ==
  /\ reads # <<>> => command.context /\ profile = "verified"
  /\ \A r \in DOMAIN reads :
       /\ r = 1 <=> reads[r].call = "discovery"
       /\ r > 1 => reads[1].status = "success"
       /\ reads[r].call \in {"validating", "mutating"} => command.webhookConfig = <<>>
       /\ reads[r].call = "namespace" => command.namespaceObject = Empty
       /\ \A s \in DOMAIN reads :
            r # s => <<reads[r].call, reads[r].resource>> # <<reads[s].call, reads[s].resource>>

-------------------------------------------------------------------------------
(***************************************************************************)
(* What the documentation says and the code does not do.                   *)
(*                                                                         *)
(* docs/product/reference.md: "one Namespace GET per resource when a       *)
(* selected namespace selector requires it".  The adapter asks for the     *)
(* Namespace as soon as a Webhook has a selector that is not nil; the      *)
(* empty selector, which the API server puts where there is none, needs no *)
(* Namespace.                                                              *)
(***************************************************************************)
SelectorNeedsNamespace ==
  \E c \in DOMAIN configurations : \E k \in DOMAIN configurations[c].webhooks :
    LET selector == configurations[c].webhooks[k].namespaceSelector
    IN selector.form # "nil" /\ ~EmptySelector(selector)

NamespaceReadWhenNeeded ==
  \A r \in DOMAIN reads : reads[r].call = "namespace" => SelectorNeedsNamespace

(***************************************************************************)
(* It holds where no selector is empty and there.                          *)
(***************************************************************************)
NoneEmpty ==
  \A configuration \in Offered : \A k \in DOMAIN configuration.webhooks :
    LET selector == configuration.webhooks[k].namespaceSelector
    IN selector.form # "nil" => ~EmptySelector(selector)

(***************************************************************************)
(* docs/product/reference.md: "If a reached condition requires missing     *)
(* identity, authorization, equivalence, or Namespace context, the result  *)
(* remains fail-closed."  A condition that gets at the user by another     *)
(* spelling than request.userInfo is evaluated for the empty user, and the *)
(* verdict is one that a user would change.  It holds where every          *)
(* condition spells it that way (PlainlySpelled).                          *)
(***************************************************************************)
MissingIdentityFailsClosed ==
  \A i \in DOMAIN explanations :
    ~Identified(command) =>
      \A c \in DOMAIN explanations[i].evaluations :
        LET evaluation == explanations[i].evaluations[c]
            webhooks   == evaluation.configuration.webhooks
        IN \A k \in DOMAIN webhooks :
             evaluation.verdicts[k].determination = "determinate" =>
               \A user \in Users :
                 Agrees(evaluation.verdicts[k],
                        VerdictOf(ForUser(webhooks[k], user),
                                  Scenario(command.resources[i], contexts[i].namespaces)))
=============================================================================
