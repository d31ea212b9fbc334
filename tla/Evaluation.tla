------------------------------ MODULE Evaluation ------------------------------
(***************************************************************************)
(* Evaluator.Evaluate (internal/evaluation): every configured Webhook is   *)
(* taken through the routing pipeline, in configuration order, against one *)
(* immutable snapshot.                                                     *)
(*                                                                         *)
(*   exemption -> namespaceSelector -> objectSelector -> exactRules        *)
(*     [-> equivalentRules] -> matchConditions -> conditions               *)
(*                                                                         *)
(* A stage ends the Webhook with a result, or goes on to the next stage.   *)
(* A selector that cannot be evaluated does neither: it leaves a pending   *)
(* step in the trace, to be settled once the rules are known.              *)
(***************************************************************************)
EXTENDS MatchConditions

CONSTANTS
  Snapshots        \* the prepared snapshots Evaluate may be called with

VARIABLES
  snapshot,        \* the input, never changed
  stage,           \* the stage about to run
  trace,           \* the steps of the current Webhook
  pending,         \* its deferred selector problems, in order
  kind,            \* the kind its conditions see: that of the invocation
  observations,    \* what its conditions reported so far
  remaining,       \* the CEL budget they have left
  results          \* the evaluations of the Webhooks before it

vars == <<snapshot, stage, trace, pending, kind, observations, remaining, results>>

PipelineStages == {"exemption", "namespaceSelector", "objectSelector",
                   "exactRules", "equivalentRules", "matchConditions",
                   "conditions", "done"}

NoKind == "no-kind"

webhook == snapshot.webhooks[Len(results) + 1]
request == snapshot.request

(***************************************************************************)
(* What the constants have to be for the types below: a snapshot and a     *)
(* Webhook have their fields, a condition costs a natural number, and a    *)
(* decision of the fixture is one of four.                                 *)
(***************************************************************************)
Verdicts == {"allow", "deny", "no-opinion", "error"}

SnapshotFields == {"webhooks", "request", "namespaces", "equivalents", "authorization"}

WebhookFields == {"namespaceSelector", "objectSelector", "rules", "matchPolicy",
                  "failurePolicy", "matchConditions", "sideEffects"}

ASSUME SnapshotAssumption ==
  \A s \in Snapshots :
    /\ s = [field \in SnapshotFields |-> s[field]]
    /\ s.webhooks \in Seq({s.webhooks[i] : i \in DOMAIN s.webhooks})
    /\ \A i \in DOMAIN s.webhooks :
         LET conditions == s.webhooks[i].matchConditions IN
           /\ s.webhooks[i] = [field \in WebhookFields |-> s.webhooks[i][field]]
           /\ conditions \in Seq({conditions[k] : k \in DOMAIN conditions})
           /\ \A k \in DOMAIN conditions :
                LET queries == conditions[k].queries IN
                  /\ conditions[k].cost \in Nat
                  /\ queries \in Seq({queries[q] : q \in DOMAIN queries})
    /\ \A q \in DOMAIN s.authorization : s.authorization[q] \in Verdicts

Init ==
  /\ snapshot \in Snapshots
  /\ stage = IF snapshot.webhooks = <<>> THEN "done" ELSE "exemption"
  /\ trace = <<>> /\ pending = <<>> /\ kind = NoKind
  /\ observations = <<>> /\ remaining = 0
  /\ results = <<>>

-------------------------------------------------------------------------------
(***************************************************************************)
(* How a Webhook ends.  A diagnostic is [code, severity].                  *)
(***************************************************************************)
Evaluated(determination, outcome, steps, diagnostics) ==
  [determination |-> determination, outcome |-> outcome,
   trace |-> steps, diagnostics |-> diagnostics]

FinishBy(evaluation, last) ==
  /\ results' = Append(results, evaluation)
  /\ stage' = IF last THEN "done" ELSE "exemption"
  /\ trace' = evaluation.trace
  /\ UNCHANGED snapshot

FinishLate(evaluation) ==       \* mutant: the loop runs once too often
  FinishBy(evaluation, Len(results) = Len(snapshot.webhooks))

FinishEarly(evaluation) ==      \* mutant: the loop leaves out the last Webhook
  FinishBy(evaluation, Len(results) + 2 >= Len(snapshot.webhooks))

Finish(evaluation) ==
  FinishBy(evaluation, Len(results) + 1 = Len(snapshot.webhooks))

SkippedResult(steps) ==
  Finish(Evaluated("determinate", "skipped", steps, <<>>))

Severity(err) == IF err = "missing-context" THEN "warning" ELSE "error"

(***************************************************************************)
(* completeProblem, for the two problems a scenario can raise before CEL:  *)
(* an error of the Kubernetes evaluation rejects the request, whatever the *)
(* failure policy; absent context leaves the Webhook undetermined.  The    *)
(* terminal step is the last one.                                          *)
(***************************************************************************)
CompleteProblem(steps, err) ==
  LET diagnostics == <<[code |-> steps[Len(steps)].reason, severity |-> Severity(err)]>>
  IN IF err = "evaluation-error"
     THEN Finish(Evaluated("determinate", "rejected-before-call", steps, diagnostics))
     ELSE Finish(Evaluated("indeterminate", NoOutcome, steps, diagnostics))

-------------------------------------------------------------------------------
(***************************************************************************)
(* ShouldCallHookPreCEL: the exemption, which starts the trace.            *)
(***************************************************************************)
StartPipeline ==
  /\ trace' = <<>>
  /\ stage' = "namespaceSelector"
  /\ UNCHANGED <<snapshot, results>>

SkipExempt ==
  SkippedResult(<<Step("admissionConfigurationExemption", "no-match",
                       "ADMISSION_CONFIGURATION_EXCLUDED", TRUE)>>)

CheckNoExemption ==             \* mutant: no precheck
  /\ stage = "exemption" /\ StartPipeline
  /\ pending' = <<>> /\ UNCHANGED <<kind, observations, remaining>>

CheckExemptionKeepingPending == \* mutant: pending outlives its Webhook
  /\ stage = "exemption"
  /\ IF IsExemptAdmissionConfigurationResource(request) THEN SkipExempt ELSE StartPipeline
  /\ UNCHANGED <<pending, kind, observations, remaining>>

CheckExemption ==
  /\ stage = "exemption"
  /\ pending' = <<>>
  /\ IF IsExemptAdmissionConfigurationResource(request) THEN SkipExempt ELSE StartPipeline
  /\ UNCHANGED <<kind, observations, remaining>>

(***************************************************************************)
(* appendSelector: a problem is kept, not acted on.                        *)
(***************************************************************************)
ProblemResult(outcome) ==
  IF outcome = "missing-context" THEN "indeterminate" ELSE "error"

SelectorReason(selector, outcome) ==
  LET reasons == [namespaceSelector |->
                    [match |-> "NAMESPACE_SELECTOR_MATCH", noMatch |-> "NAMESPACE_SELECTOR_NO_MATCH"],
                  objectSelector |->
                    [match |-> "OBJECT_SELECTOR_MATCH", noMatch |-> "OBJECT_SELECTOR_NO_MATCH"]]
  IN CASE outcome = "match"           -> reasons[selector].match
       [] outcome = "no-match"        -> reasons[selector].noMatch
       [] outcome = "missing-context" -> "NAMESPACE_CONTEXT_MISSING"
       [] OTHER                       -> "KUBERNETES_EVALUATION_ERROR"

PendingStep(selector, outcome) ==
  [Step(selector, ProblemResult(outcome), PendingReason, FALSE) EXCEPT !.pending = TRUE]

SelectorMatched(selector, next) ==
  /\ trace' = Append(trace, Step(selector, "match", SelectorReason(selector, "match"), FALSE))
  /\ stage' = next
  /\ UNCHANGED <<snapshot, pending, kind, observations, remaining, results>>

SelectorDeferred(selector, outcome, next) ==
  /\ trace' = Append(trace, PendingStep(selector, outcome))
  /\ pending' = Append(pending, [index |-> Len(trace) + 1, selector |-> selector,
                                 outcome |-> outcome])
  /\ stage' = next
  /\ UNCHANGED <<snapshot, kind, observations, remaining, results>>

DiscardTraceStepKeepingReason(step) ==  \* mutant: only the flags change
  [step EXCEPT !.pending = FALSE, !.discarded = TRUE]

DiscardTraceStep(step) ==
  [step EXCEPT !.pending = FALSE, !.discarded = TRUE, !.reason = DiscardedReason]

DiscardPending(steps, problems) ==
  [i \in DOMAIN steps |->
     IF \E p \in DOMAIN problems : problems[p].index = i
     THEN DiscardTraceStep(steps[i]) ELSE steps[i]]

SelectorExcluded(selector) ==
  /\ SkippedResult(DiscardPending(
       Append(trace, Step(selector, "no-match", SelectorReason(selector, "no-match"), TRUE)),
       pending))
  /\ UNCHANGED <<pending, kind, observations, remaining>>

EvaluateSelector(selector, outcome, next) ==
  /\ stage = selector
  /\ \/ outcome = "match" /\ SelectorMatched(selector, next)
     \/ outcome = "no-match" /\ SelectorExcluded(selector)
     \/ outcome \in SelectorProblems /\ SelectorDeferred(selector, outcome, next)

EvaluateNamespaceSelector ==
  EvaluateSelector("namespaceSelector",
                   MatchNamespaceSelector(webhook, request, snapshot.namespaces),
                   "objectSelector")

EvaluateObjectSelector ==
  EvaluateSelector("objectSelector", MatchObjectSelector(webhook, request), "exactRules")

-------------------------------------------------------------------------------
(***************************************************************************)
(* applicableResult: once the rules match, the first pending problem       *)
(* controls the Webhook and the others are discarded.                      *)
(***************************************************************************)
ProblemStage(selector) ==
  IF selector = "namespaceSelector" THEN "namespaceSelectorProblem"
                                    ELSE "objectSelectorProblem"

LastPending == pending[Len(pending)]    \* mutant: the latest problem controls

Controlling == pending[1]

Applicable(steps, invocationKind) ==
  IF pending = <<>>
  THEN /\ trace' = steps
       /\ kind' = invocationKind
       /\ stage' = "matchConditions"
       /\ UNCHANGED <<snapshot, results>>
  ELSE LET terminal == Step(ProblemStage(Controlling.selector),
                            ProblemResult(Controlling.outcome),
                            SelectorReason(Controlling.selector, Controlling.outcome), TRUE)
       IN /\ CompleteProblem(Append(DiscardPending(steps, Tail(pending)), terminal),
                             Controlling.outcome)
          /\ UNCHANGED kind

NoMatchEnds(ruleStage, matched, terminal) ==  \* mutant: any no-match is terminal
  IF matched THEN Step(ruleStage, "match", "RULE_MATCH", FALSE)
             ELSE Step(ruleStage, "no-match", "RULE_NO_MATCH", TRUE)

RuleStep(ruleStage, matched, terminal) ==
  IF matched THEN Step(ruleStage, "match", "RULE_MATCH", terminal)
             ELSE Step(ruleStage, "no-match", "RULE_NO_MATCH", terminal)

RulesExcluded(ruleStage) ==
  /\ SkippedResult(Append(DiscardPending(trace, pending), RuleStep(ruleStage, FALSE, TRUE)))
  /\ UNCHANGED kind

EvaluateExactRules ==
  /\ stage = "exactRules"
  /\ LET matched == MatchExactRules(webhook, request)
     IN \/ /\ matched
           /\ Applicable(Append(trace, RuleStep("exactRules", TRUE, FALSE)), request.kind)
        \/ /\ ~matched /\ webhook.matchPolicy # "Equivalent"
           /\ RulesExcluded("exactRules")
        \/ /\ ~matched /\ webhook.matchPolicy = "Equivalent"
           /\ trace' = Append(trace, RuleStep("exactRules", FALSE, FALSE))
           /\ stage' = "equivalentRules"
           /\ UNCHANGED <<snapshot, kind, results>>
  /\ UNCHANGED <<pending, observations, remaining>>

(***************************************************************************)
(* matchEquivalentRules: a mapping the fixture does not have ends the      *)
(* Webhook at once, its pending problems left as they are.                 *)
(***************************************************************************)
EquivalenceMissingSkips ==      \* mutant: no mapping, no equivalent rule
  SkippedResult(Append(trace, RuleStep("equivalentRules", FALSE, TRUE)))

EquivalenceMissing ==
  CompleteProblem(Append(trace, Step("equivalentRules", "indeterminate",
                                     "EQUIVALENCE_CONTEXT_MISSING", TRUE)),
                  "missing-context")

EvaluateEquivalentRules ==
  /\ stage = "equivalentRules"
  /\ LET reference  == RequestReference(request)
         known      == reference \in DOMAIN snapshot.equivalents
         candidates == snapshot.equivalents[reference]
         matched    == known /\ EquivalentMatches(webhook, request, candidates) # {}
     IN \/ ~known /\ EquivalenceMissing /\ UNCHANGED kind
        \/ known /\ ~matched /\ RulesExcluded("equivalentRules")
        \/ /\ matched
           /\ Applicable(Append(trace, RuleStep("equivalentRules", TRUE, FALSE)),
                         EquivalentInvocation(webhook, request, candidates))
  /\ UNCHANGED <<pending, observations, remaining>>

-------------------------------------------------------------------------------
(***************************************************************************)
(* matchcondition.Evaluator.Evaluate: the attributes are built first; a    *)
(* payload that does not decode is an internal problem of this Webhook.    *)
(***************************************************************************)
Undecodable(payload) == payload.state = "object" /\ ~payload.decodes

AttributesFail(r) == Undecodable(r.object) \/ Undecodable(r.oldObject)

StartMatchConditionsWith(budget) ==
  /\ stage = "matchConditions"
  /\ IF AttributesFail(request)
     THEN /\ Finish(Evaluated("indeterminate", NoOutcome,
                Append(trace, Step("matchConditions", "indeterminate", "INTERNAL_ERROR", TRUE)),
                <<[code |-> "INTERNAL_ERROR", severity |-> "error"]>>))
          /\ UNCHANGED <<observations, remaining>>
     ELSE /\ observations' = <<>>
          /\ remaining' = budget
          /\ stage' = "conditions"
          /\ UNCHANGED <<snapshot, trace, results>>
  /\ UNCHANGED <<pending, kind>>

StartMatchConditions == StartMatchConditionsWith(CostBudget)

(***************************************************************************)
(* The loop of ForInput over one shared budget.  A failed evaluator is     *)
(* seen in its observation: only a failure reports a cost problem, or a    *)
(* runtime problem of a form that stops.                                   *)
(***************************************************************************)
Failed ==
  /\ observations # <<>>
  /\ LET k == Len(observations)
     IN \/ observations[k].problem = "cost"
        \/ webhook.matchConditions[k].form = "stops"

EvaluateCondition ==
  /\ stage = "conditions"
  /\ Len(observations) < Len(webhook.matchConditions)
  /\ ~Failed
  /\ LET condition     == webhook.matchConditions[Len(observations) + 1]
         authorization == snapshot.authorization
     IN /\ observations' = Append(observations,
                                  Observe(condition, authorization, kind, remaining))
        /\ remaining' = IF EvaluatorFails(condition, authorization, remaining)
                        THEN remaining
                        ELSE remaining - ConditionCost(condition, authorization)
  /\ UNCHANGED <<snapshot, stage, trace, pending, kind, results>>

(***************************************************************************)
(* The reduction, and the dry-run check Evaluate makes of a call.          *)
(***************************************************************************)
ErrorDiagnostics(summary) ==    \* mutant: only an error is explained
  IF summary.step.result # "error" THEN <<>>
  ELSE <<[code |-> summary.step.reason, severity |-> "error"]>>

ConditionDiagnostics(summary) ==
  IF summary.step.result \in {"true", "false"} THEN <<>>
  ELSE <<[code |-> summary.step.reason,
          severity |-> IF summary.step.result = "error" THEN "error" ELSE "warning"]>>

DryRunUnsupported == request.dryRun /\ webhook.sideEffects \notin {"nil", "None", "NoneOnDryRun"}

DryRunUnsupportedAfter(steps) ==
  Evaluated("unsupported", NoOutcome,
            Append(steps, Step("dryRunSideEffects", "unsupported",
                               "CAPABILITY_OUTSIDE_PROFILE", TRUE)),
            <<[code |-> "CAPABILITY_OUTSIDE_PROFILE", severity |-> "warning"]>>)

MarkDryRunUnsupported(steps) ==
  DryRunUnsupportedAfter([steps EXCEPT ![Len(steps)].terminal = FALSE])

Explain(decision, classified) ==
  LET summary == Summary(decision, classified)
      steps   == trace \o [i \in DOMAIN classified |-> ObservationStep(classified[i])]
                       \o <<summary.step>>
  IN IF summary.outcome # "called"
     THEN Evaluated(summary.determination, summary.outcome, steps,
                    ConditionDiagnostics(summary))
     ELSE IF DryRunUnsupported THEN MarkDryRunUnsupported(steps)
     ELSE Evaluated(summary.determination, summary.outcome, steps,
                    <<[code |-> "CAPABILITY_OUTSIDE_PROFILE", severity |-> "info"]>>)

ReduceConditions ==
  /\ stage = "conditions"
  /\ Failed \/ Len(observations) = Len(webhook.matchConditions)
  /\ LET classified == ClassifyAll(observations)
         decision   == Decide(observations, Failed, webhook.failurePolicy)
     IN Finish(Explain(PreserveAuthorizationContext(decision, classified), classified))
  /\ UNCHANGED <<pending, kind, observations, remaining>>

-------------------------------------------------------------------------------
Next ==
  \/ CheckExemption
  \/ EvaluateNamespaceSelector
  \/ EvaluateObjectSelector
  \/ EvaluateExactRules
  \/ EvaluateEquivalentRules
  \/ StartMatchConditions
  \/ EvaluateCondition
  \/ ReduceConditions

Spec == Init /\ [][Next]_vars

(***************************************************************************)
(* Evaluate is a loop that nothing blocks: as long as it can take a step,  *)
(* it takes one.                                                           *)
(***************************************************************************)
FairSpec == Spec /\ WF_vars(Next)
=============================================================================
