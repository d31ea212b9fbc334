---------------------------- MODULE MatchConditions ---------------------------
(***************************************************************************)
(* The matchConditions stage of one Webhook: what one CEL condition        *)
(* reports, and how the reports are reduced to a decision and a trace      *)
(* (internal/compat/kube136/matchconditions.go, internal/matchcondition,   *)
(* internal/fixture/authorizer.go).                                        *)
(*                                                                         *)
(* A condition is [form, value, kind, queries, cost].  Its form is         *)
(*   "literal"        it evaluates to value                                *)
(*   "kind-is"        it asks whether the object it sees has this kind     *)
(*   "any", "all"     it asks whether the queries, checked from left to    *)
(*                    right as || and && do, are allowed                   *)
(*   "runtime-error"  it raises an error of its own, after its queries     *)
(*   "compile-error"  it does not compile, and is never run                *)
(*   "stops"          the evaluator fails, and runs nothing after it       *)
(***************************************************************************)
EXTENDS Routing, FiniteSets

CONSTANTS
  SelectorQueries,  \* the authorizer queries that carry a selector
  InvalidQueries,   \* the authorizer queries that are not well formed
  CheckCost,        \* what CEL charges for one authorizer check
  CostBudget        \* what the conditions of one Webhook may cost together

ASSUME CostAssumption == CheckCost \in Nat /\ CostBudget \in Nat

(***************************************************************************)
(* Authorize replays the fixture.  A selector is refused before the query  *)
(* is validated, and a decision is looked up last.                         *)
(***************************************************************************)
AuthorizationErrors == {"unsupported", "invalid", "missing", "error"}

Authorize(query, authorization) ==
  CASE query \in SelectorQueries        -> "unsupported"
    [] query \in InvalidQueries \ SelectorQueries -> "invalid"
    [] OTHER -> IF query \in DOMAIN authorization THEN authorization[query]
                                                  ELSE "missing"

Allowed(query, authorization) == Authorize(query, authorization) = "allow"

(***************************************************************************)
(* The queries a condition gets to ask, the errors its recorder keeps, and *)
(* what the condition costs.  CEL goes on after a check that failed: the   *)
(* answer just is not "allowed".                                           *)
(***************************************************************************)
Asked(condition, authorization) ==
  LET decides(k) ==
        Allowed(condition.queries[k], authorization) <=> condition.form = "any"
  IN {k \in DOMAIN condition.queries :
        /\ condition.form # "compile-error"
        /\ \A j \in DOMAIN condition.queries : decides(j) => k <= j}

RecordedErrors(condition, authorization) ==
  AuthorizationErrors \cap
    {Authorize(condition.queries[k], authorization) :
       k \in Asked(condition, authorization)}

ConditionCost(condition, authorization) ==
  IF condition.form = "compile-error" THEN 0
  ELSE condition.cost + CheckCost * Cardinality(Asked(condition, authorization))

Holds(condition, authorization, kind) ==
  LET allowed(k) == Allowed(condition.queries[k], authorization)
  IN CASE condition.form = "literal" -> condition.value
       [] condition.form = "kind-is" -> condition.kind = kind
       [] condition.form = "any"     -> \E k \in DOMAIN condition.queries : allowed(k)
       [] condition.form = "all"     -> \A k \in DOMAIN condition.queries : allowed(k)

(***************************************************************************)
(* One turn of the loop of ForInput: what is observed of a condition.      *)
(* When the evaluator itself fails, the condition's recorder is not read.  *)
(***************************************************************************)
Problems == {"none", "compile", "runtime", "cost", "authorization",
             "authorization-missing", "authorization-unsupported"}

Observation == [value: {"true", "false", "nil"}, problem: Problems,
                errors: SUBSET AuthorizationErrors]

Problem(problem, errors) == [value |-> "nil", problem |-> problem, errors |-> errors]

OverBudget(condition, authorization, remaining) ==
  ConditionCost(condition, authorization) > remaining

EvaluatorFails(condition, authorization, remaining) ==
  \/ condition.form = "stops"
  \/ OverBudget(condition, authorization, remaining)

Observe(condition, authorization, kind, remaining) ==
  LET errors == RecordedErrors(condition, authorization)
  IN CASE condition.form = "stops" -> Problem("runtime", {})
       [] condition.form # "stops" ->
            CASE OverBudget(condition, authorization, remaining) -> Problem("cost", {})
              [] OTHER ->
                   IF condition.form = "compile-error" THEN Problem("compile", {})
                   ELSE IF errors # {} THEN Problem("authorization", errors)
                   ELSE IF condition.form = "runtime-error" THEN Problem("runtime", {})
                   ELSE [value   |-> IF Holds(condition, authorization, kind)
                                     THEN "true" ELSE "false",
                         problem |-> "none", errors |-> {}]

(***************************************************************************)
(* Matcher.Match of the staging library over the same conditions: a false  *)
(* one decides, and otherwise the failure policy decides on an error.  A   *)
(* failed evaluator hides the values the conditions before it had.         *)
(***************************************************************************)
SomeFalse(observations) ==
  \E i \in DOMAIN observations : observations[i].value = "false"

SomeProblem(observations) ==
  \E i \in DOMAIN observations : observations[i].problem # "none"

Match(observations, failed, failurePolicy) ==
  LET byPolicy == IF failurePolicy = "Fail" THEN "error" ELSE "no-match"
  IN CASE failed  -> byPolicy
       [] ~failed -> IF SomeFalse(observations) THEN "no-match"
                     ELSE IF SomeProblem(observations) THEN byPolicy
                     ELSE "match"

Decisions == {"call", "skip-false", "reject", "skip-error",
              "indeterminate", "unsupported"}

ByMatcher(matched) ==
  CASE matched = "error" -> "reject"
    [] matched = "match" -> "call"
    [] OTHER             -> "skip-error"

Decide(observations, failed, failurePolicy) ==
  IF SomeFalse(observations) THEN "skip-false"
  ELSE ByMatcher(Match(observations, failed, failurePolicy))

(***************************************************************************)
(* preserveAuthorizationContext: an authorization problem whose cause is   *)
(* an absent decision or an unsupported query takes the decision away from *)
(* the failure policy, unless a condition is false on its own.             *)
(***************************************************************************)
Classify(observation) ==
  [observation EXCEPT !.problem =
     IF @ # "authorization" THEN @
     ELSE IF "unsupported" \in observation.errors THEN "authorization-unsupported"
     ELSE IF "missing" \in observation.errors THEN "authorization-missing"
     ELSE @]

ClassifyAll(observations) ==
  [i \in DOMAIN observations |-> Classify(observations[i])]

Observed(observations, problem) ==
  \E i \in DOMAIN observations : observations[i].problem = problem

PreserveRejection(decision, observations) ==    \* mutant: under Fail only
  IF decision = "reject" /\ Observed(observations, "authorization-missing")
  THEN "indeterminate" ELSE decision

PreserveAuthorizationContext(decision, observations) ==
  IF decision = "skip-false" THEN decision
  ELSE IF Observed(observations, "authorization-unsupported") THEN "unsupported"
  ELSE IF Observed(observations, "authorization-missing") THEN "indeterminate"
  ELSE decision

(***************************************************************************)
(* explainResult: one step for each observation and a terminal summary.    *)
(***************************************************************************)
ProblemReason(problem) ==
  CASE problem = "compile"                   -> "CEL_COMPILE_ERROR"
    [] problem = "runtime"                   -> "CEL_RUNTIME_ERROR"
    [] problem = "cost"                      -> "CEL_COST_BUDGET_EXCEEDED"
    [] problem = "authorization"             -> "CEL_AUTHORIZATION_ERROR"
    [] problem = "authorization-unsupported" -> "CAPABILITY_OUTSIDE_PROFILE"
    [] problem = "authorization-missing"     -> "AUTHORIZATION_CONTEXT_MISSING"
    [] OTHER                                 -> "INTERNAL_ERROR"

Step(stage, result, reason, terminal) ==
  [stage |-> stage, result |-> result, reason |-> reason,
   terminal |-> terminal, pending |-> FALSE, discarded |-> FALSE]

ObservationStep(observation) ==
  LET step(result, reason) == Step("matchConditions", result, reason, FALSE)
      reason == ProblemReason(observation.problem)
  IN CASE observation.problem = "authorization-unsupported" -> step("unsupported", reason)
       [] observation.problem = "authorization-missing"     -> step("indeterminate", reason)
       [] OTHER -> CASE observation.value = "true"  -> step("true", "MATCH_CONDITION_TRUE")
                     [] observation.value = "false" -> step("false", "MATCH_CONDITION_FALSE")
                     [] OTHER                       -> step("error", reason)

ControllingReason(observations) ==
  LET problems == {i \in DOMAIN observations : observations[i].problem # "none"}
      first    == CHOOSE i \in problems : \A j \in problems : i <= j
  IN IF problems = {} THEN "INTERNAL_ERROR"
     ELSE ProblemReason(observations[first].problem)

Summary(decision, observations) ==
  LET terminal(determination, outcome, result, reason) ==
        [determination |-> determination, outcome |-> outcome,
         step |-> Step("matchConditions", result, reason, TRUE)]
      controlling == ControllingReason(observations)
  IN CASE decision = "call" ->
            terminal("determinate", "called", "true", "MATCH_CONDITIONS_TRUE")
       [] decision = "skip-false" ->
            terminal("determinate", "skipped", "false", "MATCH_CONDITION_FALSE")
       [] decision = "reject" ->
            terminal("determinate", "rejected-before-call", "error", controlling)
       [] decision = "skip-error" ->
            terminal("determinate", "skipped", "error", controlling)
       [] decision = "indeterminate" ->
            terminal("indeterminate", NoOutcome, "indeterminate", "AUTHORIZATION_CONTEXT_MISSING")
       [] OTHER ->
            terminal("unsupported", NoOutcome, "unsupported", "CAPABILITY_OUTSIDE_PROFILE")
=============================================================================
