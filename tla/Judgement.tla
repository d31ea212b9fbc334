------------------------------- MODULE Judgement -------------------------------
(***************************************************************************)
(* The verdict on one Webhook and one snapshot, said without stages,       *)
(* traces or deferred problems.  A verdict says whether it is determinate, *)
(* what happens to the Webhook, for which reason, and whether the match    *)
(* conditions were reached at all.                                         *)
(***************************************************************************)
EXTENDS MatchConditions

Verdict(determination, outcome, reason, reached) ==
  [determination |-> determination, outcome |-> outcome, reason |-> reason,
   reached |-> reached]

Decided(outcome, reason, reached) == Verdict("determinate", outcome, reason, reached)
Undecided(reason, reached)        == Verdict("indeterminate", NoOutcome, reason, reached)
Unsupported ==
  Verdict("unsupported", NoOutcome, "CAPABILITY_OUTSIDE_PROFILE", TRUE)

(***************************************************************************)
(* Two verdicts that say the same of the Webhook.                          *)
(***************************************************************************)
Agrees(a, b) == a.determination = b.determination /\ a.outcome = b.outcome

(***************************************************************************)
(* A fixture that answers more, and what the other answers alike.          *)
(***************************************************************************)
Extends(more, less) ==
  DOMAIN less \subseteq DOMAIN more /\ \A x \in DOMAIN less : more[x] = less[x]

(***************************************************************************)
(* The verdict an evaluation amounts to.                                   *)
(***************************************************************************)
VerdictIn(evaluation) ==
  Verdict(evaluation.determination, evaluation.outcome,
          TerminalReasonCode(evaluation.trace),
          \E i \in DOMAIN evaluation.trace : evaluation.trace[i].stage = "matchConditions")

(***************************************************************************)
(* Whether the rules select the request, and the kind they hand it over    *)
(* as.  They are "unknown" when that hangs on an absent mapping.           *)
(***************************************************************************)
Rules(w, s) ==
  LET reference == RequestReference(s.request)
  IN IF MatchExactRules(w, s.request) THEN "match"
     ELSE IF w.matchPolicy # "Equivalent" THEN "no-match"
     ELSE IF reference \notin DOMAIN s.equivalents THEN "unknown"
     ELSE MatchOutcome(EquivalentMatches(w, s.request, s.equivalents[reference]) # {})

InvocationKind(w, s) ==
  IF MatchExactRules(w, s.request) THEN s.request.kind
  ELSE EquivalentInvocation(w, s.request, s.equivalents[RequestReference(s.request)])

(***************************************************************************)
(* The conditions.  Those that complete are the ones before the first that *)
(* stops the evaluator, on its own account or because the costs so far     *)
(* exceed the budget.                                                      *)
(***************************************************************************)
Spent(w, s) ==
  LET conditions == w.matchConditions
      spent[k \in 0..Len(conditions)] ==
        IF k = 0 THEN 0
        ELSE spent[k - 1] + ConditionCost(conditions[k], s.authorization)
  IN spent

Stopping(w, s) ==
  {k \in DOMAIN w.matchConditions :
     w.matchConditions[k].form = "stops" \/ Spent(w, s)[k] > CostBudget}

Completed(w, s) ==
  {k \in DOMAIN w.matchConditions : \A j \in Stopping(w, s) : k < j}

Overruns(w, s) == Stopping(w, s) # {}

(***************************************************************************)
(* Why the failure policy decides: the reason of the first condition with  *)
(* a problem.                                                              *)
(***************************************************************************)
BrokenReason(w, s, k) ==
  CASE k \notin Completed(w, s) /\ w.matchConditions[k].form # "stops" -> "CEL_COST_BUDGET_EXCEEDED"
    [] k \in Completed(w, s) /\ w.matchConditions[k].form = "compile-error" -> "CEL_COMPILE_ERROR"
    [] k \in Completed(w, s) /\ RecordedErrors(w.matchConditions[k], s.authorization) # {} ->
         "CEL_AUTHORIZATION_ERROR"
    [] OTHER -> "CEL_RUNTIME_ERROR"

FirstBroken(broken) == CHOOSE k \in broken : \A j \in broken : k <= j

ConditionsVerdict(w, s) ==
  LET errors(k)  == RecordedErrors(w.matchConditions[k], s.authorization)
      completed  == Completed(w, s)
      broken     == Stopping(w, s) \cup
                      {k \in completed :
                         \/ w.matchConditions[k].form \in {"runtime-error", "compile-error"}
                         \/ errors(k) # {}}
      isFalse(k) == /\ k \notin broken
                    /\ ~Holds(w.matchConditions[k], s.authorization, InvocationKind(w, s))
  IN IF \E k \in completed : isFalse(k) THEN Decided("skipped", "MATCH_CONDITION_FALSE", TRUE)
     ELSE IF \E k \in completed : "unsupported" \in errors(k) THEN Unsupported
     ELSE IF \E k \in completed : "missing" \in errors(k)
          THEN Undecided("AUTHORIZATION_CONTEXT_MISSING", TRUE)
     ELSE IF broken # {}
          THEN Decided(IF w.failurePolicy = "Fail" THEN "rejected-before-call" ELSE "skipped",
                       BrokenReason(w, s, FirstBroken(broken)), TRUE)
     ELSE IF s.request.dryRun /\ w.sideEffects \notin {"nil", "None", "NoneOnDryRun"}
          THEN Unsupported
     ELSE Decided("called", "MATCH_CONDITIONS_TRUE", TRUE)

(***************************************************************************)
(* A Webhook that anything excludes is skipped, whatever else is unknown   *)
(* or broken.  Of the Webhooks the rules select, the first selector that   *)
(* cannot be evaluated decides before a condition is looked at.            *)
(***************************************************************************)
Undecoded(payload) == payload.state = "object" /\ ~payload.decodes

VerdictOf(w, s) ==
  LET namespaceSelector == MatchNamespaceSelector(w, s.request, s.namespaces)
      objectSelector    == MatchObjectSelector(w, s.request)
      controlling       == IF namespaceSelector \in SelectorProblems THEN namespaceSelector
                                                                     ELSE objectSelector
  IN IF IsExemptAdmissionConfigurationResource(s.request)
     THEN Decided("skipped", "ADMISSION_CONFIGURATION_EXCLUDED", FALSE)
     ELSE IF namespaceSelector = "no-match"
          THEN Decided("skipped", "NAMESPACE_SELECTOR_NO_MATCH", FALSE)
     ELSE IF objectSelector = "no-match"
          THEN Decided("skipped", "OBJECT_SELECTOR_NO_MATCH", FALSE)
     ELSE IF Rules(w, s) = "no-match" THEN Decided("skipped", "RULE_NO_MATCH", FALSE)
     ELSE IF Rules(w, s) = "unknown" THEN Undecided("EQUIVALENCE_CONTEXT_MISSING", FALSE)
     ELSE IF controlling = "missing-context"
          THEN Undecided("NAMESPACE_CONTEXT_MISSING", FALSE)
     ELSE IF controlling = "evaluation-error"
          THEN Decided("rejected-before-call", "KUBERNETES_EVALUATION_ERROR", FALSE)
     ELSE IF Undecoded(s.request.object) \/ Undecoded(s.request.oldObject)
          THEN Undecided("INTERNAL_ERROR", TRUE)
     ELSE ConditionsVerdict(w, s)
=============================================================================
