----------------------------- MODULE IdentityGuard -----------------------------
(***************************************************************************)
(* What resource mode does to an evaluation whose conditions ask who sent  *)
(* the request when nobody said so (internal/manifest/evaluate.go).  The   *)
(* evaluator is given an empty user then, and its answer is taken back     *)
(* afterwards.                                                             *)
(*                                                                         *)
(* A condition on the user is [form |-> "user-is", user, spelling, ...].   *)
(* Its spelling is "plain" when the expression has request.userInfo in it, *)
(* and "wrapped" when it gets there another way, such as                   *)
(* (request).userInfo.                                                     *)
(***************************************************************************)
EXTENDS Judgement

OnUser(condition) == condition.form = "user-is"

(***************************************************************************)
(* The Webhook as the evaluator sees it once the user is known.            *)
(***************************************************************************)
ForUser(webhook, user) ==
  LET known(condition) ==
        IF OnUser(condition)
        THEN [condition EXCEPT !.form = "literal", !.value = (condition.user = user)]
        ELSE condition
  IN [webhook EXCEPT !.matchConditions = [k \in DOMAIN @ |-> known(@[k])]]

(***************************************************************************)
(* webhookRequiresIdentity: a search of the expressions for the text of a  *)
(* reference.                                                              *)
(***************************************************************************)
WebhookRequiresIdentity(webhook) ==
  \E k \in DOMAIN webhook.matchConditions :
    /\ OnUser(webhook.matchConditions[k])
    /\ webhook.matchConditions[k].spelling = "plain"

(***************************************************************************)
(* markMissingIdentity: the trace is cut before its first step of the      *)
(* conditions, and ends there.  An evaluation that did not come so far is  *)
(* left alone.                                                             *)
(***************************************************************************)
ConditionSteps(trace) == {i \in DOMAIN trace : trace[i].stage = "matchConditions"}

IdentityMissing(steps) ==
  [determination |-> "indeterminate", outcome |-> NoOutcome,
   trace |-> Append(steps, Step("matchConditions", "indeterminate",
                                "IDENTITY_CONTEXT_MISSING", TRUE)),
   diagnostics |-> <<[code |-> "IDENTITY_CONTEXT_MISSING", severity |-> "warning"]>>]

MarkUncut(evaluation) ==        \* mutant: the trace is not cut
  IF ConditionSteps(evaluation.trace) = {} THEN evaluation
  ELSE IdentityMissing(evaluation.trace)

MarkMissingIdentity(evaluation) ==
  LET steps   == evaluation.trace
      reached == ConditionSteps(steps)
      first   == CHOOSE i \in reached : \A j \in reached : i <= j
  IN IF reached = {} THEN evaluation
     ELSE IdentityMissing([i \in 1..(first - 1) |-> [steps[i] EXCEPT !.terminal = FALSE]])

(***************************************************************************)
(* The same of a verdict.                                                  *)
(***************************************************************************)
Guarded(verdict) ==
  IF verdict.reached THEN Undecided("IDENTITY_CONTEXT_MISSING", TRUE) ELSE verdict
=============================================================================
