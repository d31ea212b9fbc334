------------------------------- MODULE Contract -------------------------------
(***************************************************************************)
(* The result vocabulary every component of AdmiTrace speaks, and the      *)
(* validity rules a published Webhook evaluation has to satisfy            *)
(* (internal/contract/result.go, internal/contract/reason.go).             *)
(*                                                                         *)
(* Source paths, input summaries and display messages are left out: no     *)
(* rule below looks at them.  The sequence number of a step is its         *)
(* position in the trace.                                                  *)
(***************************************************************************)
EXTENDS Naturals, Sequences

Determinations == {"determinate", "indeterminate", "unsupported"}

Outcomes == {"called", "skipped", "rejected-before-call"}

NoOutcome == "no-outcome"      \* the nil *Outcome

TraceResults == {"match", "no-match", "true", "false", "error",
                 "indeterminate", "unsupported", "not-run"}

(***************************************************************************)
(* The reason registry, by disposition.                                    *)
(***************************************************************************)
PendingReason   == "EVALUATION_PROBLEM_PENDING"
DiscardedReason == "EVALUATION_PROBLEM_DISCARDED"
NotRunReason    == "STAGE_NOT_RUN"

CompletedReasons ==
  {"ADMISSION_CONFIGURATION_EXCLUDED", "AUTHORIZATION_CONTEXT_MISSING",
   "CEL_AUTHORIZATION_ERROR", "CEL_COMPILE_ERROR", "CEL_COST_BUDGET_EXCEEDED",
   "CEL_RUNTIME_ERROR", "CAPABILITY_OUTSIDE_PROFILE",
   "EQUIVALENCE_CONTEXT_MISSING", "INTERNAL_ERROR", "IDENTITY_CONTEXT_MISSING",
   "INVALID_INPUT", "KUBERNETES_EVALUATION_ERROR", "MATCH_CONDITIONS_TRUE",
   "MATCH_CONDITION_FALSE", "MATCH_CONDITION_TRUE", "NAMESPACE_CONTEXT_MISSING",
   "NAMESPACE_SELECTOR_MATCH", "NAMESPACE_SELECTOR_NO_MATCH",
   "OBJECT_SELECTOR_MATCH", "OBJECT_SELECTOR_NO_MATCH", "RULE_MATCH",
   "RULE_NO_MATCH"}

ReasonCodes == CompletedReasons \cup {PendingReason, DiscardedReason, NotRunReason}

Stages == {"admissionConfigurationExemption", "namespaceSelector",
           "objectSelector", "exactRules", "equivalentRules",
           "namespaceSelectorProblem", "objectSelectorProblem",
           "matchConditions", "dryRunSideEffects"}

TraceStep == [stage: Stages, result: TraceResults, reason: ReasonCodes,
              terminal: BOOLEAN, pending: BOOLEAN, discarded: BOOLEAN]

(***************************************************************************)
(* TraceStep.Validate: a step that is being deferred says so in its reason *)
(* and in its flags, and only a completed step may be terminal.            *)
(***************************************************************************)
DeferredProblemResults == {"error", "indeterminate"}

StepValid(step) ==
  /\ ~(step.pending /\ step.discarded)
  /\ step.terminal =>
       ~step.pending /\ ~step.discarded /\ step.result # "not-run"
  /\ \/ /\ step.reason \in CompletedReasons
        /\ ~step.pending /\ ~step.discarded /\ step.result # "not-run"
     \/ /\ step.reason = PendingReason
        /\ step.pending /\ ~step.discarded
        /\ step.result \in DeferredProblemResults
     \/ /\ step.reason = DiscardedReason
        /\ ~step.pending /\ step.discarded
        /\ step.result \in DeferredProblemResults
     \/ /\ step.reason = NotRunReason
        /\ ~step.pending /\ ~step.discarded /\ step.result = "not-run"

(***************************************************************************)
(* validateTerminalResult and validateEvaluationOutcome.                   *)
(***************************************************************************)
TerminalResultValid(determination, result) ==
  \/ /\ determination = "determinate"
     /\ result \notin {"indeterminate", "unsupported", "not-run"}
  \/ determination = "indeterminate" /\ result = "indeterminate"
  \/ determination = "unsupported" /\ result = "unsupported"

OutcomeValid(determination, outcome) ==
  IF determination = "determinate" THEN outcome \in Outcomes
                                   ELSE outcome = NoOutcome

(***************************************************************************)
(* WebhookEvaluation.Validate: a determinate result has exactly one        *)
(* terminal step.  The code asks for it of determinate results only.       *)
(***************************************************************************)
TerminalSteps(trace) == {i \in DOMAIN trace : trace[i].terminal}

ExactlyOneTerminal(trace) ==
  \E i \in TerminalSteps(trace) : TerminalSteps(trace) = {i}

EvaluationValid(evaluation) ==
  /\ evaluation.determination \in Determinations
  /\ OutcomeValid(evaluation.determination, evaluation.outcome)
  /\ \A i \in DOMAIN evaluation.trace :
       LET step == evaluation.trace[i] IN
         /\ StepValid(step)
         /\ step.terminal =>
              TerminalResultValid(evaluation.determination, step.result)
  /\ evaluation.determination = "determinate" =>
       ExactlyOneTerminal(evaluation.trace)

(***************************************************************************)
(* The reason a result ends with: that of the last terminal step.          *)
(***************************************************************************)
NoReason == "no-reason"        \* no terminal step; in an expectation, none expected

TerminalReasonCode(trace) ==
  LET terminal == TerminalSteps(trace)
  IN IF terminal = {} THEN NoReason
     ELSE trace[CHOOSE i \in terminal : \A j \in terminal : j <= i].reason

(***************************************************************************)
(* WebhookExpectation.Validate: what may be expected of an evaluation.     *)
(***************************************************************************)
ExpectationValid(expectation) ==
  /\ expectation.determination \in Determinations
  /\ expectation.outcome # NoOutcome =>
       expectation.determination = "determinate" /\ expectation.outcome \in Outcomes
  /\ expectation.reason \in ReasonCodes \cup {NoReason}
=============================================================================
