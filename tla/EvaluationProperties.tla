------------------------- MODULE EvaluationProperties -------------------------
(***************************************************************************)
(* The correctness properties of Evaluation.                               *)
(***************************************************************************)
EXTENDS Evaluation, IdentityGuard

CONSTANTS
  Contexts         \* the fixtures an evaluation is compared across:
                   \* [namespaces, equivalents, authorization]

D == INSTANCE Dispatch
       WITH input    <- snapshot,
            verdicts <- [i \in DOMAIN results |-> VerdictIn(results[i])]

(***************************************************************************)
(* The variables hold what their declarations say.                         *)
(***************************************************************************)
Diagnostic == [code: ReasonCodes, severity: {"info", "warning", "error"}]

WebhookEvaluation ==
  [determination: Determinations, outcome: Outcomes \cup {NoOutcome},
   trace: Seq(TraceStep), diagnostics: Seq(Diagnostic)]

PendingSelector ==
  [index: Nat \ {0}, selector: {"namespaceSelector", "objectSelector"},
   outcome: SelectorProblems]

TypeOK ==
  /\ snapshot \in Snapshots
  /\ stage \in PipelineStages
  /\ trace \in Seq(TraceStep)
  /\ pending \in Seq(PendingSelector)
  /\ observations \in Seq(Observation)
  /\ remaining \in 0..CostBudget
  /\ results \in Seq(WebhookEvaluation)
  /\ Len(results) <= Len(snapshot.webhooks)
  /\ stage # "done" => Len(results) < Len(snapshot.webhooks)

(***************************************************************************)
(* Every evaluation Evaluate returns passes WebhookEvaluation.Validate:    *)
(* an outcome exactly when determinate, one terminal step that agrees with *)
(* the determination, and no step half way between pending and discarded.  *)
(***************************************************************************)
ResultsValid == \A i \in DOMAIN results : EvaluationValid(results[i])

(***************************************************************************)
(* What makes the two invariants above inductive: while a Webhook is being *)
(* evaluated its trace holds sound steps and no terminal one, and every    *)
(* deferred problem points at the step that is pending for it.             *)
(***************************************************************************)
Sound(steps) ==
  \A i \in DOMAIN steps : StepValid(steps[i]) /\ ~steps[i].terminal

PointsAtPending(problems, steps) ==
  \A p \in DOMAIN problems :
    /\ problems[p].index \in DOMAIN steps
    /\ steps[problems[p].index].pending

BetweenStages ==
  stage \notin {"exemption", "done"} => Sound(trace) /\ PointsAtPending(pending, trace)

IInv == TypeOK /\ ResultsValid /\ BetweenStages

(***************************************************************************)
(* The trace reads in the order the pipeline runs, and ends the Webhook at *)
(* its terminal step, whether or not the result is determinate             *)
(* (sequenceTrace, resequence, markDryRunUnsupported).                     *)
(***************************************************************************)
StageRank(name) ==
  CASE name = "admissionConfigurationExemption" -> 1
    [] name = "namespaceSelector"               -> 2
    [] name = "objectSelector"                  -> 3
    [] name = "exactRules"                      -> 4
    [] name = "equivalentRules"                 -> 5
    [] name \in {"namespaceSelectorProblem", "objectSelectorProblem"} -> 6
    [] name = "matchConditions"                 -> 7
    [] OTHER                                    -> 8

TraceInOrder ==
  \A i \in DOMAIN results :
    LET steps == results[i].trace IN
      /\ TerminalSteps(steps) = {Len(steps)}
      /\ \A a, b \in DOMAIN steps :
           a < b => \/ StageRank(steps[a].stage) < StageRank(steps[b].stage)
                    \/ steps[a].stage = "matchConditions" /\ steps[b].stage = "matchConditions"

(***************************************************************************)
(* A selector problem does not stay pending by accident: it is discarded   *)
(* when the Webhook is excluded, settled by the problem step the Webhook   *)
(* ends with, or left open only where an absent equivalence mapping leaves *)
(* the rules open too (discardPending, applicableResult).                  *)
(***************************************************************************)
PendingSettled ==
  \A i \in DOMAIN results :
    LET steps == results[i].trace
        last  == steps[Len(steps)]
        open  == {k \in DOMAIN steps : steps[k].pending}
    IN \/ open = {}
       \/ last.stage = "equivalentRules" /\ last.result = "indeterminate"
       \/ \E k \in open : /\ open = {k}
                          /\ last.stage = ProblemStage(steps[k].stage)
                          /\ last.result = steps[k].result
                          /\ \A j \in 1..(k - 1) : ~steps[j].discarded

(***************************************************************************)
(* A Webhook nobody can call says why: an evaluation that is rejected or   *)
(* is not determinate carries one diagnostic, with the reason of the step  *)
(* it ended at (completeProblem, terminalReason, markDryRunUnsupported).   *)
(***************************************************************************)
ProblemsDiagnosed ==
  \A i \in DOMAIN results :
    LET e == results[i] IN
      e.determination # "determinate" \/ e.outcome = "rejected-before-call" =>
        /\ Len(e.diagnostics) = 1
        /\ e.diagnostics[1].code = e.trace[Len(e.trace)].reason
        /\ e.diagnostics[1].severity # "info"

(***************************************************************************)
(* Supplying more fixtures never changes an answer that was already        *)
(* determinate: what is absent can only leave a Webhook undetermined.      *)
(* Conditions that run over their budget are excepted, see                 *)
(* AbsentFixtureIsIndeterminate.                                           *)
(***************************************************************************)
WithContext(s, context) ==
  [s EXCEPT !.namespaces    = context.namespaces,
            !.equivalents   = context.equivalents,
            !.authorization = context.authorization]

MoreContext(s) ==
  {WithContext(s, context) : context \in
     {c \in Contexts : /\ Extends(c.namespaces, s.namespaces)
                       /\ Extends(c.equivalents, s.equivalents)
                       /\ Extends(c.authorization, s.authorization)}}

MoreContextKeepsVerdict ==
  \A i \in DOMAIN results :
    LET w == snapshot.webhooks[i] IN
      results[i].determination = "determinate" /\ ~Overruns(w, snapshot) =>
        \A s \in MoreContext(snapshot) :
          ~Overruns(w, s) => Agrees(VerdictOf(w, s), VerdictIn(results[i]))

(***************************************************************************)
(* Nothing one Webhook leaves behind reaches another: the budget, the      *)
(* pending problems, the observations and the trace start anew, so equal   *)
(* Webhooks of one configuration get equal evaluations.                    *)
(***************************************************************************)
EqualWebhooksAgree ==
  \A i, j \in DOMAIN results :
    snapshot.webhooks[i] = snapshot.webhooks[j] => results[i] = results[j]

(***************************************************************************)
(* The failure policy decides one thing only: whether a problem of the     *)
(* conditions rejects the request or skips the Webhook.  Everything else   *)
(* about two Webhooks that differ in it is the same.                       *)
(***************************************************************************)
PolicyDecidesConditionProblemsOnly ==
  \A i, j \in DOMAIN results :
    LET fail   == results[i]
        ignore == results[j]
        last   == fail.trace[Len(fail.trace)]
    IN /\ snapshot.webhooks[i].failurePolicy = "Fail"
       /\ snapshot.webhooks[j] = [snapshot.webhooks[i] EXCEPT !.failurePolicy = "Ignore"]
       => /\ fail.determination = ignore.determination
          /\ fail.trace = ignore.trace
          /\ fail.outcome # ignore.outcome =>
               /\ fail.outcome = "rejected-before-call" /\ ignore.outcome = "skipped"
               /\ last.stage = "matchConditions" /\ last.result = "error"

(***************************************************************************)
(* Taking an answer back for want of an identity leaves a valid            *)
(* evaluation, whatever the conditions had said before, and changes        *)
(* nothing about a Webhook that never came to them (markMissingIdentity,   *)
(* and the Validate after it).                                             *)
(***************************************************************************)
GuardKeepsResultsValid ==
  \A i \in DOMAIN results :
    LET guarded == MarkMissingIdentity(results[i]) IN
      /\ EvaluationValid(guarded)
      /\ VerdictIn(guarded) = Guarded(VerdictIn(results[i]))

(***************************************************************************)
(* The stages, the deferred problems and the reducer together compute the  *)
(* verdict Dispatch states, for every Webhook and in their order.          *)
(***************************************************************************)
ImplementsDispatch == D!Spec

(***************************************************************************)
(* Evaluate returns: no stage leaves a Webhook where it is, and each of    *)
(* them gets an evaluation.                                                *)
(***************************************************************************)
EveryWebhookEvaluated == D!AllPronounced

-------------------------------------------------------------------------------
(***************************************************************************)
(* What the documentation says and the code does not do.                   *)
(*                                                                         *)
(* contract/result.go: "OutcomeRejectedBeforeCall indicates that failure   *)
(* policy rejects the request before a call."  A selector that cannot be   *)
(* evaluated rejects it under Ignore as well.                              *)
(***************************************************************************)
RejectedOnlyUnderFail ==
  \A i \in DOMAIN results :
    results[i].outcome = "rejected-before-call" =>
      snapshot.webhooks[i].failurePolicy = "Fail"

(***************************************************************************)
(* It holds where every selector can be evaluated.                         *)
(***************************************************************************)
SelectorsEvaluate ==
  \A s \in Snapshots : \A i \in DOMAIN s.webhooks :
    /\ MatchNamespaceSelector(s.webhooks[i], s.request, s.namespaces) # "evaluation-error"
    /\ MatchObjectSelector(s.webhooks[i], s.request) # "evaluation-error"

(***************************************************************************)
(* docs/product/reference.md: "An absent required fixture produces         *)
(* indeterminate".  A condition that asks for a decision the fixture does  *)
(* not have goes on to ask the next query; when that takes it over the     *)
(* budget the absence is forgotten, and the failure policy makes the       *)
(* Webhook determinate although the decision, once supplied, changes it.   *)
(***************************************************************************)
AskedInVain(w, s) ==
  \E k \in DOMAIN w.matchConditions :
    /\ \A j \in Stopping(w, s) : k <= j
    /\ "missing" \in RecordedErrors(w.matchConditions[k], s.authorization)

AbsentFixtureIsIndeterminate ==
  \A i \in DOMAIN results :
    LET w == snapshot.webhooks[i] IN
      results[i].determination = "determinate" /\ AskedInVain(w, snapshot) =>
        \A s \in MoreContext(snapshot) :
          Agrees(VerdictOf(w, s), VerdictIn(results[i]))

(***************************************************************************)
(* It holds where no list of conditions overruns, with the decisions that  *)
(* are there and with any that may be supplied.                            *)
(***************************************************************************)
NothingOverruns ==
  \A s \in Snapshots : \A i \in DOMAIN s.webhooks :
    \A supplied \in {s} \cup MoreContext(s) : ~Overruns(s.webhooks[i], supplied)
=============================================================================
