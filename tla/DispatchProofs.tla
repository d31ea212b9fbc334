---------------------------- MODULE DispatchProofs ----------------------------
(***************************************************************************)
(* Proofs that the pipeline of Evaluation computes, for every Webhook, an  *)
(* evaluation that depends on the Webhook and the snapshot alone, and that *)
(* this evaluation amounts to the verdict Dispatch states.  What is said   *)
(* of the published results (their order, their pending steps, their       *)
(* diagnostics, what the failure policy and more fixtures change) follows  *)
(* from the shape of that evaluation.                                      *)
(***************************************************************************)
EXTENDS EvaluationProofs, VerdictLemmas

-------------------------------------------------------------------------------
(***************************************************************************)
(* The evaluation of one Webhook as a function.  The trace grows a step    *)
(* with every stage; Deferred lists the selectors that cannot be evaluated.*)
(***************************************************************************)

SelectorStep(selector, outcome) ==
  IF outcome = "match" THEN Step(selector, "match", SelectorReason(selector, "match"), FALSE)
                       ELSE PendingStep(selector, outcome)

ExcludedStep(selector) == Step(selector, "no-match", SelectorReason(selector, "no-match"), TRUE)

Problem1(w, s) ==
  IF NamespaceOutcome(w, s) = "match" THEN <<>>
  ELSE Append(<<>>, [index |-> 1, selector |-> "namespaceSelector",
                     outcome |-> NamespaceOutcome(w, s)])

Deferred(w, s) ==
  IF ObjectOutcome(w, s) = "match" THEN Problem1(w, s)
  ELSE Append(Problem1(w, s), [index |-> 2, selector |-> "objectSelector",
                               outcome |-> ObjectOutcome(w, s)])

Trace1(w, s) == Append(<<>>, SelectorStep("namespaceSelector", NamespaceOutcome(w, s)))
Trace2(w, s) == Append(Trace1(w, s), SelectorStep("objectSelector", ObjectOutcome(w, s)))
Trace3(w, s) ==
  Append(Trace2(w, s), RuleStep("exactRules", MatchExactRules(w, s.request), FALSE))
RulesTrace(w, s) ==
  IF MatchExactRules(w, s.request) THEN Trace3(w, s)
  ELSE Append(Trace3(w, s), RuleStep("equivalentRules", TRUE, FALSE))

(***************************************************************************)
(* What the conditions report, up to the one that stops the evaluator.     *)
(***************************************************************************)
Seen(w, s) == {k \in DOMAIN w.matchConditions : \A j \in Stopping(w, s) : k <= j}

Left(w, s, k) == CostBudget - Spent(w, s)[k]

Report(w, s, k) ==
  Observe(w.matchConditions[k], s.authorization, InvocationKind(w, s), Left(w, s, k - 1))

Reports(w, s) == [k \in Seen(w, s) |-> Report(w, s, k)]

DecisionOf(w, s) ==
  PreserveAuthorizationContext(Decide(Reports(w, s), Overruns(w, s), w.failurePolicy),
                               ClassifyAll(Reports(w, s)))

-------------------------------------------------------------------------------
(***************************************************************************)
(* How an evaluation ends: with open steps, then a terminal one.           *)
(***************************************************************************)
Ended(determination, outcome, steps, last, diagnostics) ==
  Evaluated(determination, outcome, Append(steps, last), diagnostics)

Skipped(steps, last) == Ended("determinate", "skipped", steps, last, <<>>)

Diagnosed(reason, severity) == <<[code |-> reason, severity |-> severity]>>

ProblemEnd(steps, last, err) ==
  IF err = "evaluation-error"
  THEN Ended("determinate", "rejected-before-call", steps, last, Diagnosed(last.reason, "error"))
  ELSE Ended("indeterminate", NoOutcome, steps, last,
             Diagnosed(last.reason, IF err = "missing-context" THEN "warning" ELSE "error"))

NoMatchEnd(w, s) ==
  IF w.matchPolicy # "Equivalent"
  THEN Skipped(DiscardPending(Trace2(w, s), Deferred(w, s)), RuleStep("exactRules", FALSE, TRUE))
  ELSE Skipped(DiscardPending(Trace3(w, s), Deferred(w, s)),
               RuleStep("equivalentRules", FALSE, TRUE))

UnknownEnd(w, s) ==
  ProblemEnd(Trace3(w, s),
             Step("equivalentRules", "indeterminate", "EQUIVALENCE_CONTEXT_MISSING", TRUE),
             "missing-context")

ControlledEnd(w, s) ==
  LET first == Deferred(w, s)[1]
  IN ProblemEnd(DiscardPending(RulesTrace(w, s), Tail(Deferred(w, s))),
                Step(ProblemStage(first.selector), ProblemResult(first.outcome),
                     SelectorReason(first.selector, first.outcome), TRUE),
                first.outcome)

UndecodedEnd(w, s) ==
  Ended("indeterminate", NoOutcome, RulesTrace(w, s),
        Step("matchConditions", "indeterminate", "INTERNAL_ERROR", TRUE),
        Diagnosed("INTERNAL_ERROR", "error"))

ReportSteps(w, s) ==
  LET classified == ClassifyAll(Reports(w, s))
  IN RulesTrace(w, s) \o [k \in DOMAIN classified |-> ObservationStep(classified[k])]

ConditionsEnd(w, s) ==
  LET summary == Summary(DecisionOf(w, s), ClassifyAll(Reports(w, s)))
      steps   == ReportSteps(w, s)
  IN IF summary.outcome # "called"
     THEN Ended(summary.determination, summary.outcome, steps, summary.step,
                ConditionDiagnostics(summary))
     ELSE IF Unmakeable(w, s)
          THEN Ended("unsupported", NoOutcome,
                     Append(steps, [summary.step EXCEPT !.terminal = FALSE]),
                     Step("dryRunSideEffects", "unsupported", "CAPABILITY_OUTSIDE_PROFILE", TRUE),
                     Diagnosed("CAPABILITY_OUTSIDE_PROFILE", "warning"))
     ELSE Ended(summary.determination, summary.outcome, steps, summary.step,
                Diagnosed("CAPABILITY_OUTSIDE_PROFILE", "info"))

EvaluationOf(w, s) ==
  IF IsExemptAdmissionConfigurationResource(s.request)
  THEN Skipped(<<>>, Step("admissionConfigurationExemption", "no-match",
                          "ADMISSION_CONFIGURATION_EXCLUDED", TRUE))
  ELSE IF NamespaceOutcome(w, s) = "no-match" THEN Skipped(<<>>, ExcludedStep("namespaceSelector"))
  ELSE IF ObjectOutcome(w, s) = "no-match"
       THEN Skipped(DiscardPending(Trace1(w, s), Problem1(w, s)), ExcludedStep("objectSelector"))
  ELSE IF Rules(w, s) = "no-match" THEN NoMatchEnd(w, s)
  ELSE IF Rules(w, s) = "unknown" THEN UnknownEnd(w, s)
  ELSE IF Deferred(w, s) # <<>> THEN ControlledEnd(w, s)
  ELSE IF AttributesFail(s.request) THEN UndecodedEnd(w, s)
  ELSE ConditionsEnd(w, s)

-------------------------------------------------------------------------------
(***************************************************************************)
(* The inductive invariant: every result is the evaluation of its Webhook, *)
(* and while a Webhook is being evaluated the variables are what the       *)
(* stages it went through make them.                                       *)
(***************************************************************************)
Unexcluded(w, s) == NamespaceOutcome(w, s) # "no-match" /\ ObjectOutcome(w, s) # "no-match"

Applies(w, s) == Unexcluded(w, s) /\ Rules(w, s) = "match" /\ Deferred(w, s) = <<>>

AtNamespaceSelector == trace = <<>> /\ pending = <<>>

AtObjectSelector(w, s) ==
  NamespaceOutcome(w, s) # "no-match" /\ trace = Trace1(w, s) /\ pending = Problem1(w, s)

AtExactRules(w, s) ==
  Unexcluded(w, s) /\ trace = Trace2(w, s) /\ pending = Deferred(w, s)

AtEquivalentRules(w, s) ==
  /\ Unexcluded(w, s) /\ trace = Trace3(w, s) /\ pending = Deferred(w, s)
  /\ ~MatchExactRules(w, s.request) /\ w.matchPolicy = "Equivalent"

AtConditions(w, s) ==
  Applies(w, s) /\ trace = RulesTrace(w, s) /\ kind = InvocationKind(w, s)

AmongConditions(w, s) ==
  LET n == Len(observations) IN
    /\ ~AttributesFail(s.request)
    /\ n <= Len(w.matchConditions)
    /\ \A k \in 1..n : observations[k] = Report(w, s, k)
    /\ \A k \in 1..n : k \in Stopping(w, s) => k = n
    /\ n \notin Stopping(w, s) => remaining = Left(w, s, n)

OnTrack(w, s) ==
  /\ ~IsExemptAdmissionConfigurationResource(s.request)
  /\ stage = "namespaceSelector" => AtNamespaceSelector
  /\ stage = "objectSelector" => AtObjectSelector(w, s)
  /\ stage = "exactRules" => AtExactRules(w, s)
  /\ stage = "equivalentRules" => AtEquivalentRules(w, s)
  /\ stage \in {"matchConditions", "conditions"} => AtConditions(w, s)
  /\ stage = "conditions" => AmongConditions(w, s)

ResultsDetermined ==
  \A i \in DOMAIN results : results[i] = EvaluationOf(snapshot.webhooks[i], snapshot)

FInv ==
  /\ IInv
  /\ ResultsDetermined
  /\ stage \notin {"exemption", "done"} => OnTrack(webhook, snapshot)

-------------------------------------------------------------------------------
(***************************************************************************)
(* The shape of a Webhook's conditions (SnapshotAssumption).               *)
(***************************************************************************)

LEMMA SnapshotWebhook ==
  ASSUME NEW s \in Snapshots, NEW i \in DOMAIN s.webhooks
  PROVE  WellFormedConditions(s.webhooks[i])
<1> DEFINE conditions == s.webhooks[i].matchConditions
<1>1. /\ conditions \in Seq({conditions[k] : k \in DOMAIN conditions})
      /\ \A k \in DOMAIN conditions :
           /\ conditions[k].cost \in Nat
           /\ conditions[k].queries \in
                Seq({conditions[k].queries[q] : q \in DOMAIN conditions[k].queries})
  BY SnapshotAssumption
<1> HIDE DEF conditions
<1>2. IsSequence(conditions)
  BY <1>1, SequenceOf
<1>3. ASSUME NEW k \in DOMAIN conditions PROVE IsSequence(conditions[k].queries)
  BY <1>1, SequenceOf
<1> QED BY <1>1, <1>2, <1>3 DEF WellFormedConditions, conditions

LEMMA CostsTyped ==
  ASSUME NEW w, WellFormedConditions(w), NEW authorization,
         NEW k \in DOMAIN w.matchConditions
  PROVE  ConditionCost(w.matchConditions[k], authorization) \in Nat
<1> DEFINE queries == w.matchConditions[k].queries
<1>1. IsSequence(queries) /\ w.matchConditions[k].cost \in Nat
  BY DEF WellFormedConditions
<1>2. DOMAIN queries = 1..Len(queries)
  BY <1>1, SequenceFacts
<1>3. \A q \in 1..Len(queries) : queries[q] \in {queries[p] : p \in DOMAIN queries}
  BY <1>2
<1>4. queries \in Seq({queries[q] : q \in DOMAIN queries})
  BY <1>1, <1>3, SequenceIn
<1> QED BY <1>1, <1>4, CostType

(***************************************************************************)
(* The costs so far, a recursive function: f is the part of it up to n.    *)
(***************************************************************************)

LEMMA SpentTyped ==
  ASSUME NEW w, WellFormedConditions(w), NEW s
  PROVE  \A k \in 0..Len(w.matchConditions) : Spent(w, s)[k] \in Nat
<1> DEFINE n == Len(w.matchConditions)
           T == {k \in 0..n : Spent(w, s)[k] \notin Nat}
<1>1. n \in Nat /\ DOMAIN w.matchConditions = 1..n
  BY SequenceFacts DEF WellFormedConditions
<1>2. SUFFICES ASSUME T # {} PROVE FALSE
  OBVIOUS
<1> HIDE DEF n
<1>3. PICK m \in T : \A k \in T : m <= k
  <2>1. T \subseteq Nat
    BY <1>1
  <2> HIDE DEF T
  <2> QED BY <1>2, <2>1, NatMinimum
<1>4. m # 0
  BY SpentFacts
<1>5. m \in 1..n /\ m - 1 \in 0..n /\ m - 1 \notin T
  BY <1>1, <1>3, <1>4
<1>6. ConditionCost(w.matchConditions[m], s.authorization) \in Nat
  BY <1>1, <1>5, CostsTyped
<1>7. Spent(w, s)[m] = Spent(w, s)[m - 1]
                         + ConditionCost(w.matchConditions[m], s.authorization)
  BY <1>5, SpentFacts DEF n
<1> QED BY <1>3, <1>5, <1>6, <1>7

(* A condition stops the evaluator when its turn of the loop fails. *)
LEMMA StoppingFails ==
  ASSUME NEW w, WellFormedConditions(w), NEW s, NEW k \in 1..Len(w.matchConditions)
  PROVE  k \in Stopping(w, s)
           <=> EvaluatorFails(w.matchConditions[k], s.authorization, Left(w, s, k - 1))
<1> DEFINE n == Len(w.matchConditions)
           cost == ConditionCost(w.matchConditions[k], s.authorization)
<1>1. n \in Nat /\ DOMAIN w.matchConditions = 1..n
  BY SequenceFacts DEF WellFormedConditions
<1>2. cost \in Nat /\ k \in 0..n /\ k - 1 \in 0..n
  BY <1>1, CostsTyped
<1>3. Spent(w, s)[k] = Spent(w, s)[k - 1] + cost
  BY SpentFacts
<1>4. Spent(w, s)[k] \in Nat /\ Spent(w, s)[k - 1] \in Nat
  BY <1>2, SpentTyped
<1> HIDE DEF cost
<1>5. Spent(w, s)[k] > CostBudget <=> cost > Left(w, s, k - 1)
  BY <1>2, <1>3, <1>4, CostAssumption DEF Left
<1> QED BY <1>1, <1>5 DEF Stopping, EvaluatorFails, OverBudget, cost

(* The loop sees a failure in what it has just observed. *)
LEMMA FailureSeen ==
  ASSUME NEW condition, NEW authorization, NEW k, NEW left
  PROVE  \/ Observe(condition, authorization, k, left).problem = "cost"
         \/ condition.form = "stops"
         <=> EvaluatorFails(condition, authorization, left)
BY DEF Observe, EvaluatorFails, Problem

(* When the loop is over, it has observed what Reports says. *)
LEMMA LoopOver ==
  ASSUME FInv, NEW w, w = webhook, NEW s, s = snapshot, WellFormedConditions(w),
         observations \in Seq(Observation), AmongConditions(w, s),
         Failed \/ Len(observations) = Len(w.matchConditions)
  PROVE  observations = Reports(w, s) /\ (Failed <=> Overruns(w, s))
<1> DEFINE n == Len(observations)
           m == Len(w.matchConditions)
           stops == Stopping(w, s)
<1>1. /\ n \in Nat /\ m \in Nat /\ n <= m /\ DOMAIN w.matchConditions = 1..m
      /\ stops \subseteq 1..m
      /\ \A k \in 1..n : k \in stops => k = n
  BY SequenceFacts DEF WellFormedConditions, Stopping, AmongConditions
<1>2. Failed <=> n \in stops
  <2>1. CASE n = 0
    <3>1. observations = <<>> /\ 0 \notin stops
      BY <1>1, <2>1
    <3> QED BY <2>1, <3>1 DEF Failed
  <2>2. CASE n # 0
    <3>1. n \in 1..n /\ n \in 1..m /\ observations # <<>>
      BY <1>1, <2>2
    <3>2. observations[n] = Report(w, s, n)
      BY <3>1 DEF AmongConditions
    <3>3. Failed <=> EvaluatorFails(w.matchConditions[n], s.authorization, Left(w, s, n - 1))
      BY <3>1, <3>2, FailureSeen DEF Failed, Report
    <3> QED BY <3>1, <3>3, StoppingFails
  <2> QED BY <2>1, <2>2
<1> HIDE DEF stops
<1>3. Seen(w, s) = {k \in 1..m : \A j \in stops : k <= j}
  BY <1>1 DEF Seen, stops
<1>4. Overruns(w, s) <=> stops # {}
  BY DEF Overruns, stops
<1>5. CASE n \in stops
  <2>1. \A j \in stops : n <= j
    BY <1>1
  <2>2. Seen(w, s) = 1..n
    BY <1>1, <1>3, <1>5, <2>1
  <2> QED BY <1>2, <1>4, <1>5, <2>2 DEF Reports, AmongConditions
<1>6. CASE n \notin stops
  <2>1. n = m
    BY <1>2, <1>6
  <2>2. stops = {}
    BY <1>1, <1>6, <2>1
  <2>3. Seen(w, s) = 1..n
    BY <1>3, <2>1, <2>2
  <2> QED BY <1>2, <1>4, <1>6, <2>2, <2>3 DEF Reports, AmongConditions
<1> QED BY <1>5, <1>6

-------------------------------------------------------------------------------
(***************************************************************************)
(* How a stage preserves the invariant: it ends the Webhook with its       *)
(* evaluation, or goes on along the track.                                 *)
(***************************************************************************)
LEMMA UnderEvaluation ==
  ASSUME IInv, stage # "done"
  PROVE  /\ snapshot \in Snapshots /\ Len(results) \in Nat
         /\ Len(results) + 1 \in DOMAIN snapshot.webhooks
         /\ WellFormedConditions(webhook)
<1>1. /\ snapshot \in Snapshots /\ Len(results) \in Nat
      /\ Len(results) < Len(snapshot.webhooks)
  BY DEF IInv, TypeOK
<1>2. Len(results) + 1 \in DOMAIN snapshot.webhooks
  BY <1>1, WebhookCount
<1> QED BY <1>1, <1>2, SnapshotWebhook DEF webhook

LEMMA FinishTracks ==
  ASSUME FInv, stage # "done", IInv', NEW w, w = webhook, NEW s, s = snapshot,
         Finish(EvaluationOf(w, s))
  PROVE  FInv'
<1> DEFINE e == EvaluationOf(w, s)
<1>1. /\ snapshot' = s /\ results' = Append(results, e)
      /\ stage' \in {"exemption", "done"}
  BY DEF Finish, FinishBy
<1>2. results \in Seq(WebhookEvaluation) /\ results' \in Seq(WebhookEvaluation)
  BY DEF FInv, IInv, TypeOK
<1> HIDE DEF e
<1>3. /\ Len(results) \in Nat /\ DOMAIN results = 1..Len(results)
      /\ DOMAIN results' = 1..(Len(results) + 1)
      /\ \A i \in 1..Len(results) : results'[i] = results[i]
      /\ results'[Len(results) + 1] = e
  BY <1>1, <1>2
<1>4. \A i \in DOMAIN results : results[i] = EvaluationOf(s.webhooks[i], s)
  BY DEF FInv, ResultsDetermined
<1>5. w = s.webhooks[Len(results) + 1]
  BY DEF webhook
<1>6. \A i \in DOMAIN results' : results'[i] = EvaluationOf(s.webhooks[i], s)
  BY <1>3, <1>4, <1>5 DEF e
<1>7. ResultsDetermined'
  BY <1>1, <1>6 DEF ResultsDetermined
<1> QED BY <1>1, <1>7 DEF FInv

LEMMA ContinueTracks ==
  ASSUME FInv, IInv', NEW w, w = webhook, NEW s, s = snapshot,
         snapshot' = snapshot, results' = results, OnTrack(w, s)'
  PROVE  FInv'
<1>1. ResultsDetermined'
  BY DEF FInv, ResultsDetermined
<1>2. webhook' = w /\ snapshot' = s
  BY DEF webhook
<1>3. OnTrack(webhook, snapshot)'
  BY <1>2 DEF OnTrack, AtNamespaceSelector, AtObjectSelector, AtExactRules,
     AtEquivalentRules, AtConditions, AmongConditions
<1> QED BY <1>1, <1>3 DEF FInv

(* The selectors have one of four outcomes. *)
LEMMA OutcomesTyped ==
  ASSUME NEW w, NEW s
  PROVE  NamespaceOutcome(w, s) \in SelectorOutcomes /\ ObjectOutcome(w, s) \in SelectorOutcomes
<1>1. NamespaceContextFor(s.request, s.namespaces).err
        \in {"none", "missing-context", "evaluation-error"}
  BY DEF NamespaceContextFor
<1>2. \A matched : MatchOutcome(matched) \in {"match", "no-match"}
  BY DEF MatchOutcome
<1>3. NamespaceOutcome(w, s) \in SelectorOutcomes
  BY <1>1, <1>2 DEF NamespaceOutcome, MatchNamespaceSelector, SelectorOutcomes, SelectorProblems
<1>4. ObjectOutcome(w, s) \in SelectorOutcomes
  BY <1>2 DEF ObjectOutcome, MatchObjectSelector, SelectorOutcomes, SelectorProblems
<1> QED BY <1>3, <1>4

LEMMA ExemptionTracks == ASSUME FInv, IInv', CheckExemption PROVE FInv'
<1>1. PICK w \in {webhook}, s \in {snapshot} : TRUE
  OBVIOUS
<1>2. /\ stage = "exemption" /\ pending' = <<>> /\ request = s.request
      /\ IF IsExemptAdmissionConfigurationResource(s.request) THEN SkipExempt ELSE StartPipeline
  BY DEF CheckExemption, request
<1>3. CASE IsExemptAdmissionConfigurationResource(s.request)
  <2> DEFINE last == Step("admissionConfigurationExemption", "no-match",
                          "ADMISSION_CONFIGURATION_EXCLUDED", TRUE)
  <2>1. Append(<<>>, last) = <<last>>
    <3> HIDE DEF last
    <3> QED OBVIOUS
  <2>2. Finish(EvaluationOf(w, s))
    BY <1>2, <1>3, <2>1 DEF SkipExempt, SkippedResult, EvaluationOf, Skipped, Ended
  <2> QED BY <1>2, <2>2, FinishTracks
<1>4. CASE ~IsExemptAdmissionConfigurationResource(s.request)
  <2>1. /\ stage' = "namespaceSelector" /\ trace' = <<>>
        /\ snapshot' = snapshot /\ results' = results
    BY <1>2, <1>4 DEF StartPipeline
  <2>2. OnTrack(w, s)'
    BY <1>2, <1>4, <2>1 DEF OnTrack, AtNamespaceSelector
  <2> QED BY <2>1, <2>2, ContinueTracks
<1> QED BY <1>3, <1>4

(* The namespace selector. *)
LEMMA NamespaceTracks == ASSUME FInv, IInv', EvaluateNamespaceSelector PROVE FInv'
<1>1. PICK w \in {webhook}, s \in {snapshot} : TRUE
  OBVIOUS
<1> DEFINE outcome == NamespaceOutcome(w, s)
           next == "objectSelector"
           selector == "namespaceSelector"
<1>2. EvaluateSelector(selector, outcome, next)
  BY DEF EvaluateNamespaceSelector, NamespaceOutcome, request
<1>3. /\ stage = selector /\ trace = <<>> /\ pending = <<>>
      /\ ~IsExemptAdmissionConfigurationResource(s.request)
  BY <1>2 DEF EvaluateSelector, FInv, OnTrack, AtNamespaceSelector
<1>4. outcome \in SelectorOutcomes
  BY OutcomesTyped
<1> HIDE DEF outcome
<1>5. CASE outcome = "match" /\ SelectorMatched(selector, next)
  <2>1. /\ trace' = Trace1(w, s) /\ pending' = Problem1(w, s) /\ stage' = next
        /\ snapshot' = snapshot /\ results' = results
    BY <1>3, <1>5 DEF SelectorMatched, Trace1, Problem1, SelectorStep, outcome
  <2>2. OnTrack(w, s)'
    BY <1>3, <1>5, <2>1 DEF OnTrack, AtObjectSelector, outcome
  <2> QED BY <2>1, <2>2, ContinueTracks
<1>6. CASE outcome = "no-match" /\ SelectorExcluded(selector)
  <2> DEFINE last == ExcludedStep(selector)
  <2>1. SkippedResult(DiscardPending(Append(<<>>, last), <<>>))
    BY <1>3, <1>6 DEF SelectorExcluded, ExcludedStep
  <2>2. DiscardPending(Append(<<>>, last), <<>>) = Append(<<>>, last)
    <3> HIDE DEF last
    <3>1. /\ IsSequence(Append(<<>>, last))
          /\ Append(<<>>, last) = [i \in DOMAIN Append(<<>>, last) |-> Append(<<>>, last)[i]]
      BY EmptySequence, AppendFacts, SequenceFacts
    <3>2. \A i : ~ \E p \in DOMAIN <<>> : <<>>[p].index = i
      BY EmptySequence
    <3> QED BY <3>1, <3>2 DEF DiscardPending
  <2>3. Finish(EvaluationOf(w, s))
    BY <1>3, <1>6, <2>1, <2>2 DEF SkippedResult, EvaluationOf, Skipped, Ended, outcome
  <2> QED BY <1>3, <2>3, FinishTracks
<1>7. CASE outcome \in SelectorProblems /\ SelectorDeferred(selector, outcome, next)
  <2>1. Len(trace) + 1 = 1 /\ outcome # "match" /\ outcome # "no-match"
    BY <1>3, <1>7, EmptySequence DEF SelectorProblems
  <2>2. /\ trace' = Trace1(w, s) /\ pending' = Problem1(w, s) /\ stage' = next
        /\ snapshot' = snapshot /\ results' = results
    BY <1>3, <1>7, <2>1 DEF SelectorDeferred, Trace1, Problem1, SelectorStep, outcome
  <2>3. OnTrack(w, s)'
    BY <1>3, <2>1, <2>2 DEF OnTrack, AtObjectSelector, outcome
  <2> QED BY <2>2, <2>3, ContinueTracks
<1> QED BY <1>2, <1>5, <1>6, <1>7 DEF EvaluateSelector

(* The object selector. *)
LEMMA ObjectTracks == ASSUME FInv, IInv', EvaluateObjectSelector PROVE FInv'
<1>1. PICK w \in {webhook}, s \in {snapshot} : TRUE
  OBVIOUS
<1> DEFINE outcome == ObjectOutcome(w, s)
           next == "exactRules"
           selector == "objectSelector"
<1>2. EvaluateSelector(selector, outcome, next)
  BY DEF EvaluateObjectSelector, ObjectOutcome, request
<1>3. /\ stage = selector /\ trace = Trace1(w, s) /\ pending = Problem1(w, s)
      /\ NamespaceOutcome(w, s) # "no-match"
      /\ ~IsExemptAdmissionConfigurationResource(s.request)
  BY <1>2 DEF EvaluateSelector, FInv, OnTrack, AtObjectSelector
<1>4. Len(trace) = 1
  BY <1>3, EmptySequence, AppendFacts DEF Trace1
<1>5. outcome \in SelectorOutcomes
  BY OutcomesTyped
<1> HIDE DEF outcome
<1>6. CASE outcome = "match" /\ SelectorMatched(selector, next)
  <2>1. /\ trace' = Trace2(w, s) /\ pending' = Deferred(w, s) /\ stage' = next
        /\ snapshot' = snapshot /\ results' = results
    BY <1>3, <1>6 DEF SelectorMatched, Trace2, Deferred, SelectorStep, outcome
  <2>2. OnTrack(w, s)'
    BY <1>3, <1>6, <2>1 DEF OnTrack, AtExactRules, Unexcluded, outcome
  <2> QED BY <2>1, <2>2, ContinueTracks
<1>7. CASE outcome = "no-match" /\ SelectorExcluded(selector)
  <2> DEFINE last == ExcludedStep(selector)
  <2>1. SkippedResult(DiscardPending(Append(trace, last), pending))
    BY <1>7 DEF SelectorExcluded, ExcludedStep
  <2>2. last \in TraceStep
    <3>1. SelectorReason(selector, "no-match") \in CompletedReasons
      BY SelectorReasonCompleted DEF SelectorOutcomes
    <3>2. "no-match" \in TraceResults \ {"not-run"} /\ selector \in Stages
      BY DEF TraceResults, Stages
    <3> QED BY <3>1, <3>2, StepSound DEF ExcludedStep
  <2> HIDE DEF last
  <2>3. DiscardPending(Append(trace, last), pending)
          = Append(DiscardPending(trace, pending), last)
    BY <1>3, <2>2, Running, DiscardThenAppend DEF FInv
  <2>4. Finish(EvaluationOf(w, s))
    BY <1>3, <1>7, <2>1, <2>3 DEF SkippedResult, EvaluationOf, Skipped, Ended, outcome, last
  <2> QED BY <1>3, <2>4, FinishTracks
<1>8. CASE outcome \in SelectorProblems /\ SelectorDeferred(selector, outcome, next)
  <2>1. Len(trace) + 1 = 2 /\ outcome # "match" /\ outcome # "no-match"
    BY <1>4, <1>8 DEF SelectorProblems
  <2>2. /\ trace' = Trace2(w, s) /\ pending' = Deferred(w, s) /\ stage' = next
        /\ snapshot' = snapshot /\ results' = results
    BY <1>3, <1>8, <2>1 DEF SelectorDeferred, Trace2, Deferred, SelectorStep, outcome
  <2>3. OnTrack(w, s)'
    BY <1>3, <2>1, <2>2 DEF OnTrack, AtExactRules, Unexcluded, outcome
  <2> QED BY <2>2, <2>3, ContinueTracks
<1> QED BY <1>2, <1>6, <1>7, <1>8 DEF EvaluateSelector

(***************************************************************************)
(* The steps of the traces before the conditions.                          *)
(***************************************************************************)
LEMMA TraceShape ==
  ASSUME NEW w, NEW s
  PROVE  /\ IsSequence(Trace1(w, s)) /\ Len(Trace1(w, s)) = 1
         /\ Trace1(w, s)[1] = SelectorStep("namespaceSelector", NamespaceOutcome(w, s))
         /\ IsSequence(Trace2(w, s)) /\ Len(Trace2(w, s)) = 2
         /\ Trace2(w, s)[1] = Trace1(w, s)[1]
         /\ Trace2(w, s)[2] = SelectorStep("objectSelector", ObjectOutcome(w, s))
         /\ IsSequence(Trace3(w, s)) /\ Len(Trace3(w, s)) = 3
         /\ Trace3(w, s)[1] = Trace2(w, s)[1] /\ Trace3(w, s)[2] = Trace2(w, s)[2]
         /\ Trace3(w, s)[3] = RuleStep("exactRules", MatchExactRules(w, s.request), FALSE)
         /\ IsSequence(RulesTrace(w, s))
         /\ MatchExactRules(w, s.request) => Len(RulesTrace(w, s)) = 3
         /\ ~MatchExactRules(w, s.request) =>
              /\ Len(RulesTrace(w, s)) = 4
              /\ RulesTrace(w, s)[4] = RuleStep("equivalentRules", TRUE, FALSE)
         /\ RulesTrace(w, s)[1] = Trace3(w, s)[1] /\ RulesTrace(w, s)[2] = Trace3(w, s)[2]
         /\ RulesTrace(w, s)[3] = Trace3(w, s)[3]
<1> DEFINE a == SelectorStep("namespaceSelector", NamespaceOutcome(w, s))
           b == SelectorStep("objectSelector", ObjectOutcome(w, s))
           c == RuleStep("exactRules", MatchExactRules(w, s.request), FALSE)
           d == RuleStep("equivalentRules", TRUE, FALSE)
           t1 == Trace1(w, s)
           t2 == Trace2(w, s)
           t3 == Trace3(w, s)
           t4 == Append(t3, d)
           all == RulesTrace(w, s)
<1>1. /\ t1 = Append(<<>>, a) /\ t2 = Append(t1, b) /\ t3 = Append(t2, c)
      /\ all = IF MatchExactRules(w, s.request) THEN t3 ELSE t4
  BY DEF Trace1, Trace2, Trace3, RulesTrace
<1>2. t4 = Append(t3, d)
  OBVIOUS
<1> HIDE DEF a, b, c, d, t1, t2, t3, t4, all
<1>3. IsSequence(t1) /\ Len(t1) = 1 /\ t1[1] = a
  <2>1. IsSequence(t1) /\ Len(t1) = Len(<<>>) + 1 /\ t1[Len(<<>>) + 1] = a
    BY <1>1, EmptySequence, AppendFacts
  <2> QED BY <2>1, EmptySequence
<1>4. IsSequence(t2) /\ Len(t2) = 2 /\ t2[2] = b /\ \A i \in 1..1 : t2[i] = t1[i]
  <2>0. IsSequence(t1)
    BY <1>3
  <2>1. /\ IsSequence(t2) /\ Len(t2) = Len(t1) + 1 /\ t2[Len(t1) + 1] = b
        /\ \A i \in 1..Len(t1) : t2[i] = t1[i]
    BY <1>1, <2>0, AppendFacts
  <2> QED BY <1>1, <1>3, <2>1
<1>5. t2[1] = t1[1]
  BY <1>4
<1>6. IsSequence(t3) /\ Len(t3) = 3 /\ t3[3] = c /\ \A i \in 1..2 : t3[i] = t2[i]
  <2>0. IsSequence(t2)
    BY <1>4
  <2>1. /\ IsSequence(t3) /\ Len(t3) = Len(t2) + 1 /\ t3[Len(t2) + 1] = c
        /\ \A i \in 1..Len(t2) : t3[i] = t2[i]
    BY <1>1, <2>0, AppendFacts
  <2> QED BY <1>1, <1>4, <2>1
<1>7. IsSequence(t4) /\ Len(t4) = 4 /\ t4[4] = d /\ \A i \in 1..3 : t4[i] = t3[i]
  <2>0. IsSequence(t3)
    BY <1>6
  <2>1. /\ IsSequence(t4) /\ Len(t4) = Len(t3) + 1 /\ t4[Len(t3) + 1] = d
        /\ \A i \in 1..Len(t3) : t4[i] = t3[i]
    BY <1>2, <2>0, AppendFacts
  <2> QED BY <1>2, <1>6, <2>1
<1>8. t3[1] = t2[1] /\ t3[2] = t2[2] /\ t4[1] = t3[1] /\ t4[2] = t3[2] /\ t4[3] = t3[3]
  BY <1>6, <1>7
<1> QED BY <1>1, <1>3, <1>4, <1>5, <1>6, <1>7, <1>8 DEF a, b, c, d, t1, t2, t3, all

LEMMA DiscardShape ==
  ASSUME NEW steps, IsSequence(steps), NEW problems
  PROVE  LET kept == DiscardPending(steps, problems) IN
           /\ IsSequence(kept) /\ Len(kept) = Len(steps)
           /\ \A i \in 1..Len(steps) :
                kept[i] = IF \E p \in DOMAIN problems : problems[p].index = i
                          THEN DiscardTraceStep(steps[i]) ELSE steps[i]
<1> DEFINE n == Len(steps)
           kept == DiscardPending(steps, problems)
           step(i) == IF \E p \in DOMAIN problems : problems[p].index = i
                      THEN DiscardTraceStep(steps[i]) ELSE steps[i]
<1>1. n \in Nat /\ DOMAIN steps = 1..n
  BY SequenceFacts
<1>2. kept = [i \in 1..n |-> step(i)]
  BY <1>1 DEF DiscardPending
<1> HIDE DEF step, n, kept
<1>3. \A i \in 1..n : kept[i] = step(i)
  BY <1>2
<1>4. kept = [i \in 1..n |-> kept[i]]
  BY <1>2
<1> QED BY <1>1, <1>3, <1>4, TableIsSequence DEF step, n, kept

(* Rules that match: the first deferred problem ends the Webhook, and without
   one the conditions are next (applicableResult). *)
LEMMA ApplicableTracks ==
  ASSUME FInv, IInv', NEW w, w = webhook, NEW s, s = snapshot, stage # "done",
         ~IsExemptAdmissionConfigurationResource(s.request),
         Unexcluded(w, s), Rules(w, s) = "match", pending = Deferred(w, s),
         Applicable(RulesTrace(w, s), InvocationKind(w, s))
  PROVE  FInv'
<1>1. CASE pending = <<>>
  <2>1. /\ trace' = RulesTrace(w, s) /\ kind' = InvocationKind(w, s)
        /\ stage' = "matchConditions" /\ snapshot' = snapshot /\ results' = results
    BY <1>1 DEF Applicable
  <2>2. OnTrack(w, s)'
    BY <1>1, <2>1 DEF OnTrack, AtConditions, Applies
  <2> QED BY <2>1, <2>2, ContinueTracks
<1>2. CASE pending # <<>>
  <2> DEFINE first == Deferred(w, s)[1]
             err == first.outcome
             steps == DiscardPending(RulesTrace(w, s), Tail(Deferred(w, s)))
             last == Step(ProblemStage(first.selector), ProblemResult(err),
                          SelectorReason(first.selector, err), TRUE)
  <2>1. CompleteProblem(Append(steps, last), err)
    BY <1>2 DEF Applicable, Controlling
  <2>2. Append(steps, last)[Len(Append(steps, last))] = last
    <3>1. IsSequence(steps)
      BY TraceShape, DiscardShape
    <3> HIDE DEF steps, last
    <3> QED BY <3>1, AppendFacts
  <2>3. Deferred(w, s) # <<>>
    BY <1>2
  <2>4. EvaluationOf(w, s) = ProblemEnd(steps, last, err)
    <3>1. EvaluationOf(w, s) = ControlledEnd(w, s)
      BY <2>3 DEF EvaluationOf, Unexcluded
    <3> QED BY <3>1 DEF ControlledEnd
  <2> HIDE DEF steps, last, err
  <2>5. Finish(EvaluationOf(w, s))
    BY <2>1, <2>2, <2>4 DEF CompleteProblem, ProblemEnd, Ended, Diagnosed, Severity
  <2> QED BY <2>5, FinishTracks
<1> QED BY <1>1, <1>2

(* Rules that exclude the Webhook: its problems are discarded. *)
LEMMA ExcludedTracks ==
  ASSUME FInv, IInv', NEW w, w = webhook, NEW s, s = snapshot, stage # "done",
         ~IsExemptAdmissionConfigurationResource(s.request),
         Unexcluded(w, s), Rules(w, s) = "no-match", pending = Deferred(w, s),
         NEW ruleStage, RulesExcluded(ruleStage),
         \/ /\ ruleStage = "exactRules" /\ w.matchPolicy # "Equivalent"
            /\ trace = Trace2(w, s)
         \/ /\ ruleStage = "equivalentRules" /\ w.matchPolicy = "Equivalent"
            /\ trace = Trace3(w, s)
  PROVE  FInv'
<1>1. EvaluationOf(w, s) = NoMatchEnd(w, s)
  BY DEF EvaluationOf, Unexcluded
<1>2. NoMatchEnd(w, s) = Skipped(DiscardPending(trace, pending), RuleStep(ruleStage, FALSE, TRUE))
  BY DEF NoMatchEnd
<1>3. Finish(EvaluationOf(w, s))
  BY <1>1, <1>2 DEF RulesExcluded, SkippedResult, Skipped, Ended
<1> QED BY <1>3, FinishTracks

LEMMA ExactRulesTracks == ASSUME FInv, IInv', EvaluateExactRules PROVE FInv'
<1>1. PICK w \in {webhook}, s \in {snapshot} : TRUE
  OBVIOUS
<1> DEFINE matched == MatchExactRules(w, s.request)
<1>2. /\ stage = "exactRules" /\ pending' = pending
      /\ Unexcluded(w, s) /\ trace = Trace2(w, s) /\ pending = Deferred(w, s)
      /\ ~IsExemptAdmissionConfigurationResource(s.request)
  BY DEF EvaluateExactRules, FInv, OnTrack, AtExactRules
<1>3. \/ /\ matched
         /\ Applicable(Append(trace, RuleStep("exactRules", TRUE, FALSE)), s.request.kind)
      \/ ~matched /\ w.matchPolicy # "Equivalent" /\ RulesExcluded("exactRules")
      \/ /\ ~matched /\ w.matchPolicy = "Equivalent"
         /\ trace' = Append(trace, RuleStep("exactRules", FALSE, FALSE))
         /\ stage' = "equivalentRules"
         /\ UNCHANGED <<snapshot, kind, results>>
  BY DEF EvaluateExactRules, request
<1>4. CASE /\ matched
           /\ Applicable(Append(trace, RuleStep("exactRules", TRUE, FALSE)), s.request.kind)
  <2>1. /\ RulesTrace(w, s) = Append(trace, RuleStep("exactRules", TRUE, FALSE))
        /\ InvocationKind(w, s) = s.request.kind /\ Rules(w, s) = "match"
    BY <1>2, <1>4 DEF RulesTrace, Trace3, InvocationKind, Rules
  <2> QED BY <1>2, <1>4, <2>1, ApplicableTracks
<1>5. CASE ~matched /\ w.matchPolicy # "Equivalent" /\ RulesExcluded("exactRules")
  <2>1. Rules(w, s) = "no-match"
    BY <1>5 DEF Rules
  <2> QED BY <1>2, <1>5, <2>1, ExcludedTracks
<1>6. CASE /\ ~matched /\ w.matchPolicy = "Equivalent"
           /\ trace' = Append(trace, RuleStep("exactRules", FALSE, FALSE))
           /\ stage' = "equivalentRules"
           /\ UNCHANGED <<snapshot, kind, results>>
  <2>1. trace' = Trace3(w, s)
    BY <1>2, <1>6 DEF Trace3, RuleStep
  <2>2. OnTrack(w, s)'
    BY <1>2, <1>6, <2>1 DEF OnTrack, AtEquivalentRules
  <2> QED BY <1>6, <2>2, ContinueTracks
<1> QED BY <1>3, <1>4, <1>5, <1>6

LEMMA EquivalentRulesTracks == ASSUME FInv, IInv', EvaluateEquivalentRules PROVE FInv'
<1>1. PICK w \in {webhook}, s \in {snapshot} : TRUE
  OBVIOUS
<1> DEFINE reference  == RequestReference(s.request)
           known      == reference \in DOMAIN s.equivalents
           candidates == s.equivalents[reference]
           matches    == EquivalentMatches(w, s.request, candidates)
<1>2. /\ stage = "equivalentRules" /\ pending' = pending
      /\ Unexcluded(w, s) /\ trace = Trace3(w, s) /\ pending = Deferred(w, s)
      /\ ~MatchExactRules(w, s.request) /\ w.matchPolicy = "Equivalent"
      /\ ~IsExemptAdmissionConfigurationResource(s.request)
  BY DEF EvaluateEquivalentRules, FInv, OnTrack, AtEquivalentRules
<1>3. \/ ~known /\ EquivalenceMissing /\ UNCHANGED kind
      \/ known /\ matches = {} /\ RulesExcluded("equivalentRules")
      \/ /\ known /\ matches # {}
         /\ Applicable(Append(trace, RuleStep("equivalentRules", TRUE, FALSE)),
                       EquivalentInvocation(w, s.request, candidates))
  BY DEF EvaluateEquivalentRules, request
<1>4. Rules(w, s) = IF ~known THEN "unknown" ELSE IF matches # {} THEN "match" ELSE "no-match"
  BY <1>2 DEF Rules, MatchOutcome
<1>5. CASE ~known /\ EquivalenceMissing
  <2> DEFINE last == Step("equivalentRules", "indeterminate", "EQUIVALENCE_CONTEXT_MISSING", TRUE)
             err  == "missing-context"
  <2>1. CompleteProblem(Append(trace, last), err)
    BY <1>5 DEF EquivalenceMissing
  <2>2. EvaluationOf(w, s) = ProblemEnd(trace, last, err)
    <3>1. Rules(w, s) = "unknown"
      BY <1>4, <1>5
    <3> QED BY <1>2, <3>1 DEF EvaluationOf, Unexcluded, UnknownEnd
  <2> HIDE DEF last
  <2>3. Append(trace, last)[Len(Append(trace, last))] = last
    BY <1>2, TraceShape, AppendFacts
  <2>4. Finish(EvaluationOf(w, s))
    BY <2>1, <2>2, <2>3 DEF CompleteProblem, ProblemEnd, Ended, Diagnosed, Severity
  <2> QED BY <1>2, <2>4, FinishTracks
<1>6. CASE known /\ matches = {} /\ RulesExcluded("equivalentRules")
  <2>1. Rules(w, s) = "no-match"
    BY <1>4, <1>6
  <2> QED BY <1>2, <1>6, <2>1, ExcludedTracks
<1>7. CASE /\ known /\ matches # {}
           /\ Applicable(Append(trace, RuleStep("equivalentRules", TRUE, FALSE)),
                         EquivalentInvocation(w, s.request, candidates))
  <2>1. /\ RulesTrace(w, s) = Append(trace, RuleStep("equivalentRules", TRUE, FALSE))
        /\ InvocationKind(w, s) = EquivalentInvocation(w, s.request, candidates)
    BY <1>2 DEF RulesTrace, InvocationKind
  <2>2. Rules(w, s) = "match"
    BY <1>4, <1>7
  <2> QED BY <1>2, <1>7, <2>1, <2>2, ApplicableTracks
<1> QED BY <1>3, <1>5, <1>6, <1>7

-------------------------------------------------------------------------------
(***************************************************************************)
(* The conditions.                                                         *)
(***************************************************************************)
LEMMA StartTracks == ASSUME FInv, IInv', StartMatchConditions PROVE FInv'
<1>1. PICK w \in {webhook}, s \in {snapshot} : TRUE
  OBVIOUS
<1>2. /\ stage = "matchConditions" /\ AtConditions(w, s) /\ UNCHANGED <<pending, kind>>
      /\ ~IsExemptAdmissionConfigurationResource(s.request)
  BY DEF StartMatchConditions, StartMatchConditionsWith, FInv, OnTrack
<1>3. CASE AttributesFail(s.request)
  <2>1. EvaluationOf(w, s) = UndecodedEnd(w, s)
    BY <1>2, <1>3 DEF EvaluationOf, AtConditions, Applies, Unexcluded
  <2>2. Finish(Evaluated("indeterminate", NoOutcome,
                Append(trace, Step("matchConditions", "indeterminate", "INTERNAL_ERROR", TRUE)),
                <<[code |-> "INTERNAL_ERROR", severity |-> "error"]>>))
    BY <1>3 DEF StartMatchConditions, StartMatchConditionsWith, request
  <2>3. Finish(EvaluationOf(w, s))
    BY <1>2, <2>1, <2>2 DEF UndecodedEnd, Ended, Diagnosed, AtConditions
  <2> QED BY <1>2, <2>3, FinishTracks
<1>4. CASE ~AttributesFail(s.request)
  <2>1. /\ observations' = <<>> /\ remaining' = CostBudget /\ stage' = "conditions"
        /\ UNCHANGED <<snapshot, trace, results>>
    BY <1>4 DEF StartMatchConditions, StartMatchConditionsWith, request
  <2>2. /\ Len(observations') = 0 /\ 1..0 = {} /\ 0 <= Len(w.matchConditions)
        /\ remaining' = Left(w, s, 0)
    <3>1. WellFormedConditions(w)
      BY <1>2, UnderEvaluation DEF FInv
    <3>2. Len(w.matchConditions) \in Nat
      BY <3>1, SequenceFacts DEF WellFormedConditions
    <3>3. Left(w, s, 0) = CostBudget
      BY <3>1, SpentFacts, CostAssumption DEF Left
    <3> QED BY <2>1, <3>2, <3>3
  <2>3. AmongConditions(w, s)'
    BY <1>4, <2>2 DEF AmongConditions
  <2>4. OnTrack(w, s)'
    BY <1>2, <2>1, <2>3 DEF OnTrack, AtConditions
  <2> QED BY <2>1, <2>4, ContinueTracks
<1> QED BY <1>3, <1>4

LEMMA ConditionTracks == ASSUME FInv, IInv', EvaluateCondition PROVE FInv'
<1>1. PICK w \in {webhook}, s \in {snapshot} : TRUE
  OBVIOUS
<1> DEFINE n == Len(observations)
           m == Len(w.matchConditions)
           condition == w.matchConditions[n + 1]
           a == s.authorization
<1>2. /\ stage = "conditions" /\ n < m /\ ~Failed
      /\ observations' = Append(observations, Observe(condition, a, kind, remaining))
      /\ remaining' = IF EvaluatorFails(condition, a, remaining) THEN remaining
                      ELSE remaining - ConditionCost(condition, a)
      /\ UNCHANGED <<snapshot, stage, trace, pending, kind, results>>
  BY DEF EvaluateCondition
<1>3. /\ AtConditions(w, s) /\ AmongConditions(w, s)
      /\ ~IsExemptAdmissionConfigurationResource(s.request)
  BY <1>2 DEF FInv, OnTrack
<1>4. WellFormedConditions(w)
  BY <1>2, UnderEvaluation DEF FInv
<1>5. /\ n \in Nat /\ m \in Nat /\ DOMAIN w.matchConditions = 1..m
      /\ observations \in Seq(Observation)
  BY <1>2, <1>4, Running, SequenceFacts DEF WellFormedConditions, FInv
<1>6. n \notin Stopping(w, s)
  <2>1. CASE n = 0
    BY <1>5, <2>1 DEF Stopping
  <2>2. CASE n # 0
    <3>1. n \in 1..n /\ n \in 1..m /\ observations # <<>>
      BY <1>2, <1>5, <2>2
    <3>2. observations[n] = Report(w, s, n)
      BY <1>3, <3>1 DEF AmongConditions
    <3>3. Failed <=> EvaluatorFails(w.matchConditions[n], a, Left(w, s, n - 1))
      BY <3>1, <3>2, FailureSeen DEF Failed, Report
    <3> QED BY <1>2, <1>4, <3>1, <3>3, StoppingFails
  <2> QED BY <2>1, <2>2
<1>7. remaining = Left(w, s, n) /\ kind = InvocationKind(w, s)
  BY <1>3, <1>6 DEF AmongConditions, AtConditions
<1>8. n + 1 \in 1..m /\ (n + 1) - 1 = n
  BY <1>2, <1>5
<1>9. Observe(condition, a, kind, remaining) = Report(w, s, n + 1)
  BY <1>7, <1>8 DEF Report
<1>10. n + 1 \notin Stopping(w, s) => remaining' = Left(w, s, n + 1)
  <2>1. n + 1 \in Stopping(w, s) <=> EvaluatorFails(condition, a, remaining)
    BY <1>4, <1>7, <1>8, StoppingFails
  <2>2. Spent(w, s)[n + 1] = Spent(w, s)[n] + ConditionCost(condition, a)
    BY <1>4, <1>8, SpentFacts
  <2>3. Spent(w, s)[n] \in Nat /\ ConditionCost(condition, a) \in Nat
    <3>1. n \in 0..m /\ n + 1 \in DOMAIN w.matchConditions
      BY <1>5, <1>8
    <3> HIDE DEF n
    <3> QED BY <1>4, <3>1, SpentTyped, CostsTyped
  <2> QED BY <1>2, <1>7, <2>1, <2>2, <2>3, CostAssumption DEF Left
<1>11. AmongConditions(w, s)'
  <2>1. /\ observations' \in Seq(Observation) /\ Len(observations') = n + 1
        /\ \A k \in 1..n : observations'[k] = observations[k]
        /\ observations'[n + 1] = Report(w, s, n + 1)
    BY <1>2, <1>5, <1>9, ObserveType
  <2>2. \A k \in 1..(n + 1) : k \in 1..n \/ k = n + 1
    BY <1>5
  <2>3. \A k \in 1..(n + 1) : observations'[k] = Report(w, s, k)
    BY <1>3, <2>1, <2>2 DEF AmongConditions
  <2>4. \A k \in 1..(n + 1) : k \in Stopping(w, s) => k = n + 1
    BY <1>3, <1>6, <2>2 DEF AmongConditions
  <2>5. ~AttributesFail(s.request) /\ n + 1 <= m
    <3>1. ~AttributesFail(s.request)
      BY <1>3 DEF AmongConditions
    <3>2. n + 1 <= m
      BY <1>5, <1>8
    <3> QED BY <3>1, <3>2
  <2> HIDE DEF n, m
  <2> QED BY <1>10, <2>1, <2>3, <2>4, <2>5 DEF AmongConditions, m
<1>12. AtConditions(w, s)'
  BY <1>2, <1>3 DEF AtConditions
<1>13. OnTrack(w, s)'
  BY <1>2, <1>3, <1>11, <1>12 DEF OnTrack
<1> QED BY <1>2, <1>13, ContinueTracks

(* The reduction of the conditions: explainResult, and the check of a dry run. *)
LEMMA ReduceTracks == ASSUME FInv, IInv', ReduceConditions PROVE FInv'
<1>1. PICK w \in {webhook}, s \in {snapshot} : TRUE
  OBVIOUS
<1> DEFINE classified == ClassifyAll(observations)
           decision == PreserveAuthorizationContext(
                         Decide(observations, Failed, w.failurePolicy), classified)
           summary == Summary(decision, classified)
           last == summary.step
           mapped == [i \in DOMAIN classified |-> ObservationStep(classified[i])]
           steps == trace \o mapped
           info == <<[code |-> "CAPABILITY_OUTSIDE_PROFILE", severity |-> "info"]>>
<1>2. /\ stage = "conditions" /\ Finish(Explain(decision, classified))
      /\ Failed \/ Len(observations) = Len(w.matchConditions)
  BY DEF ReduceConditions
<1>3. /\ AtConditions(w, s) /\ AmongConditions(w, s)
      /\ ~IsExemptAdmissionConfigurationResource(s.request)
  BY <1>2 DEF FInv, OnTrack
<1>4. WellFormedConditions(w)
  BY <1>2, UnderEvaluation DEF FInv
<1>5. observations \in Seq(Observation) /\ trace \in Seq(TraceStep)
  BY <1>2, Running DEF FInv
<1>6. observations = Reports(w, s) /\ (Failed <=> Overruns(w, s))
  BY <1>2, <1>3, <1>4, <1>5, LoopOver
<1>7. decision = DecisionOf(w, s) /\ classified = ClassifyAll(Reports(w, s))
  <2>1. Decide(observations, Failed, w.failurePolicy)
          = Decide(Reports(w, s), Overruns(w, s), w.failurePolicy)
    BY <1>6 DEF Decide, Match
  <2> QED BY <1>6, <2>1 DEF DecisionOf
<1>8. /\ mapped \in Seq(TraceStep)
      /\ last \in TraceStep
  <2>1. \A i \in DOMAIN observations : classified[i] \in Observation
    BY <1>5, ClassifyType DEF ClassifyAll
  <2>2. DOMAIN observations = 1..Len(observations) /\ Len(observations) \in Nat
    BY <1>5
  <2>3. DOMAIN classified = 1..Len(observations)
    BY <2>2 DEF ClassifyAll
  <2>4. \A i \in 1..Len(observations) : ObservationStep(classified[i]) \in TraceStep
    BY <2>1, <2>2, ObservationStepSound
  <2> HIDE DEF classified, decision
  <2>5. mapped \in Seq(TraceStep)
    BY <2>2, <2>3, <2>4
  <2> QED BY <2>5, SummarySound
<1> HIDE DEF classified, decision, mapped, last
<1>9. steps \in Seq(TraceStep) /\ steps \o <<last>> = Append(steps, last)
  BY <1>5, <1>8
<1>10. steps = ReportSteps(w, s)
  BY <1>3, <1>7 DEF ReportSteps, AtConditions, mapped
<1> HIDE DEF steps
<1>11. Explain(decision, classified)
         = IF summary.outcome # "called"
           THEN Evaluated(summary.determination, summary.outcome, steps \o <<last>>,
                          ConditionDiagnostics(summary))
           ELSE IF DryRunUnsupported THEN MarkDryRunUnsupported(steps \o <<last>>)
           ELSE Evaluated(summary.determination, summary.outcome, steps \o <<last>>, info)
  BY DEF Explain, steps, mapped, last
<1>12. DryRunUnsupported <=> Unmakeable(w, s)
  BY DEF DryRunUnsupported, Unmakeable, request
<1>13. MarkDryRunUnsupported(Append(steps, last))
         = Ended("unsupported", NoOutcome,
                 Append(steps, [last EXCEPT !.terminal = FALSE]),
                 Step("dryRunSideEffects", "unsupported", "CAPABILITY_OUTSIDE_PROFILE", TRUE),
                 Diagnosed("CAPABILITY_OUTSIDE_PROFILE", "warning"))
  <2>1. LET all == Append(steps, last)
        IN  [all EXCEPT ![Len(all)].terminal = FALSE]
              = Append(steps, [last EXCEPT !.terminal = FALSE])
    BY <1>8, <1>9, Reopened
  <2> QED BY <2>1 DEF MarkDryRunUnsupported, DryRunUnsupportedAfter, Ended, Diagnosed
<1>14. EvaluationOf(w, s) = ConditionsEnd(w, s)
  BY <1>3 DEF EvaluationOf, AtConditions, Applies, Unexcluded, AmongConditions
<1>15. summary = Summary(DecisionOf(w, s), ClassifyAll(Reports(w, s)))
  BY <1>7
<1>16. ConditionsEnd(w, s) = Explain(decision, classified)
  <2> DEFINE plain(diagnostics) ==
               Evaluated(summary.determination, summary.outcome, steps \o <<last>>, diagnostics)
             final(diagnostics) ==
               Ended(summary.determination, summary.outcome, steps, last, diagnostics)
             marked == MarkDryRunUnsupported(Append(steps, last))
             refused == Ended("unsupported", NoOutcome,
                          Append(steps, [last EXCEPT !.terminal = FALSE]),
                          Step("dryRunSideEffects", "unsupported", "CAPABILITY_OUTSIDE_PROFILE",
                               TRUE),
                          Diagnosed("CAPABILITY_OUTSIDE_PROFILE", "warning"))
             explained == Explain(decision, classified)
             ended == ConditionsEnd(w, s)
  <2>1. CASE summary.outcome # "called"
    <3>1. explained = plain(ConditionDiagnostics(summary))
      BY <2>1, <1>11
    <3>2. ended = final(ConditionDiagnostics(summary))
      BY <2>1, <1>10, <1>15 DEF ConditionsEnd, last
    <3> QED BY <3>1, <3>2, <1>9 DEF Ended
  <2>2. CASE summary.outcome = "called" /\ Unmakeable(w, s)
    <3>1. explained = MarkDryRunUnsupported(steps \o <<last>>)
      BY <2>2, <1>11, <1>12
    <3>2. ended = refused
      BY <2>2, <1>10, <1>15 DEF ConditionsEnd, last
    <3>3. explained = marked
      BY <3>1, <1>9
    <3>4. marked = refused
      BY <1>13
    <3> QED BY <3>2, <3>3, <3>4
  <2>3. CASE summary.outcome = "called" /\ ~Unmakeable(w, s)
    <3>1. explained = plain(info)
      BY <2>3, <1>11, <1>12
    <3>2. ended = final(info)
      BY <2>3, <1>10, <1>15 DEF ConditionsEnd, last, Diagnosed
    <3> QED BY <3>1, <3>2, <1>9 DEF Ended
  <2> QED BY <2>1, <2>2, <2>3
<1>17. Finish(EvaluationOf(w, s))
  BY <1>2, <1>14, <1>16
<1> QED BY <1>2, <1>17, FinishTracks

-------------------------------------------------------------------------------
(***************************************************************************)
(* The induction.                                                          *)
(***************************************************************************)

(* Nothing has been evaluated when Evaluate starts. *)
LEMMA DeterminedFirst == Init => FInv
<1> SUFFICES ASSUME Init PROVE FInv
  OBVIOUS
<1>1. stage \in {"exemption", "done"} /\ results = <<>>
  BY DEF Init
<1>2. ResultsDetermined
  BY <1>1, EmptySequence DEF ResultsDetermined
<1> QED BY <1>1, <1>2, InitHolds DEF FInv

(* Every step of the pipeline keeps to the track, or ends the Webhook as it should. *)
LEMMA DeterminedNext == FInv /\ [Next]_vars => FInv'
<1> SUFFICES ASSUME FInv, [Next]_vars PROVE FInv'
  OBVIOUS
<1>1. IInv'
  BY NextKeeps DEF FInv
<1>2. CASE CheckExemption
  BY <1>1, <1>2, ExemptionTracks
<1>3. CASE EvaluateNamespaceSelector
  BY <1>1, <1>3, NamespaceTracks
<1>4. CASE EvaluateObjectSelector
  BY <1>1, <1>4, ObjectTracks
<1>5. CASE EvaluateExactRules
  BY <1>1, <1>5, ExactRulesTracks
<1>6. CASE EvaluateEquivalentRules
  BY <1>1, <1>6, EquivalentRulesTracks
<1>7. CASE StartMatchConditions
  BY <1>1, <1>7, StartTracks
<1>8. CASE EvaluateCondition
  BY <1>1, <1>8, ConditionTracks
<1>9. CASE ReduceConditions
  BY <1>1, <1>9, ReduceTracks
<1>10. CASE UNCHANGED vars
  <2>1. ResultsDetermined'
    BY <1>10 DEF vars, FInv, ResultsDetermined
  <2>2. stage' = stage /\ webhook' = webhook /\ snapshot' = snapshot
    BY <1>10 DEF vars, webhook
  <2>3. (stage \notin {"exemption", "done"} => OnTrack(webhook, snapshot))'
    BY <1>10, <2>2 DEF vars, FInv, OnTrack, AtNamespaceSelector, AtObjectSelector, AtExactRules,
       AtEquivalentRules, AtConditions, AmongConditions
  <2> QED BY <1>1, <2>1, <2>3 DEF FInv
<1> QED
  BY <1>2, <1>3, <1>4, <1>5, <1>6, <1>7, <1>8, <1>9, <1>10 DEF Next

(***************************************************************************)
(* Whatever the configuration, the request, the fixtures and the budget,   *)
(* every result Evaluate has published is the evaluation EvaluationOf      *)
(* gives its Webhook.                                                      *)
(***************************************************************************)
THEOREM EvaluationDetermined == Spec => []FInv
<1>1. Init => FInv
  BY DeterminedFirst
<1>2. FInv /\ [Next]_vars => FInv'
  BY DeterminedNext
<1> QED
  BY <1>1, <1>2, PTL DEF Spec

(***************************************************************************)
(* Equal Webhooks of one configuration get equal evaluations: nothing one  *)
(* of them leaves behind reaches the next (Evaluator.Evaluate).            *)
(***************************************************************************)
THEOREM EqualAgree == Spec => []EqualWebhooksAgree
<1>1. FInv => EqualWebhooksAgree
  BY DEF FInv, ResultsDetermined, EqualWebhooksAgree
<1> QED
  BY <1>1, EvaluationDetermined, PTL

-------------------------------------------------------------------------------
(***************************************************************************)
(* How a trace grows: no step ends it, and a step stands for a later stage *)
(* than the steps before it.  The conditions are one stage of many steps.  *)
(***************************************************************************)
Before(first, second) ==
  \/ StageRank(first) < StageRank(second)
  \/ first = "matchConditions" /\ second = "matchConditions"

Rises(steps, rank) ==
  /\ IsSequence(steps)
  /\ \A k \in 1..Len(steps) : ~steps[k].terminal
  /\ \A k \in 1..Len(steps) : StageRank(steps[k].stage) <= rank
  /\ \A j, k \in 1..Len(steps) : j < k => Before(steps[j].stage, steps[k].stage)

LEMMA StageRanks ==
  /\ \A name : /\ StageRank(name) \in 1..8
               /\ StageRank(name) = 7 => name = "matchConditions"
  /\ StageRank("admissionConfigurationExemption") = 1
  /\ StageRank("namespaceSelector") = 2 /\ StageRank("objectSelector") = 3
  /\ StageRank("exactRules") = 4 /\ StageRank("equivalentRules") = 5
  /\ StageRank("namespaceSelectorProblem") = 6 /\ StageRank("objectSelectorProblem") = 6
  /\ StageRank("matchConditions") = 7 /\ StageRank("dryRunSideEffects") = 8
BY DEF StageRank

LEMMA StepsBefore ==
  ASSUME NEW first, NEW second, NEW rank \in 0..8, StageRank(first) <= rank,
         rank < StageRank(second) \/ (rank <= 7 /\ second = "matchConditions")
  PROVE  Before(first, second)
<1>1. StageRank(first) \in 1..8 /\ (StageRank(first) = 7 => first = "matchConditions")
  BY StageRanks
<1>2. StageRank(second) \in 1..8
  BY StageRanks
<1>3. CASE rank < StageRank(second)
  BY <1>1, <1>2, <1>3 DEF Before
<1>4. CASE rank <= 7 /\ second = "matchConditions"
  <2>1. StageRank(second) = 7
    BY <1>4, StageRanks
  <2>2. StageRank(first) < 7 \/ StageRank(first) = 7
    BY <1>1, <1>4
  <2> QED BY <1>1, <1>4, <2>1, <2>2 DEF Before
<1> QED BY <1>3, <1>4

LEMMA NoneRise == \A rank : Rises(<<>>, rank)
<1>1. \A k : k \notin 1..Len(<<>>)
  BY EmptySequence
<1> QED BY <1>1, EmptySequence DEF Rises

LEMMA AppendRises ==
  ASSUME NEW rank \in 0..8, NEW steps, Rises(steps, rank), NEW step, ~step.terminal,
         \/ rank < StageRank(step.stage)
         \/ rank <= 7 /\ step.stage = "matchConditions"
  PROVE  Rises(Append(steps, step), StageRank(step.stage))
<1> DEFINE all == Append(steps, step)
           n == Len(steps)
<1>0. IsSequence(steps)
  BY DEF Rises
<1>1. /\ IsSequence(all) /\ Len(all) = n + 1 /\ all[n + 1] = step
      /\ \A k \in 1..n : all[k] = steps[k]
  BY <1>0, AppendFacts
<1>2. n \in Nat
  BY <1>0, SequenceFacts
<1>3. StageRank(step.stage) \in 1..8 /\ rank <= StageRank(step.stage)
  BY StageRanks
<1>4. \A k \in 1..n : StageRank(steps[k].stage) <= rank /\ ~steps[k].terminal
  BY DEF Rises
<1>5. \A k \in 1..n : StageRank(steps[k].stage) \in 1..8
  BY StageRanks
<1>6. \A k \in 1..n : Before(steps[k].stage, step.stage)
  BY <1>4, StepsBefore
<1>7. \A j, k \in 1..n : j < k => Before(steps[j].stage, steps[k].stage)
  BY DEF Rises
<1> HIDE DEF all, n
<1>8. \A k \in 1..(n + 1) : k \in 1..n \/ k = n + 1
  BY <1>2
<1>9. \A j, k \in 1..(n + 1) : j < k => (j \in 1..n /\ (k \in 1..n \/ k = n + 1))
  BY <1>2
<1>10. \A k \in 1..(n + 1) : ~all[k].terminal
  BY <1>1, <1>4, <1>8
<1>11. \A k \in 1..(n + 1) : StageRank(all[k].stage) <= StageRank(step.stage)
  <2> SUFFICES ASSUME NEW k \in 1..(n + 1)
               PROVE  StageRank(all[k].stage) <= StageRank(step.stage)
    OBVIOUS
  <2>1. CASE k \in 1..n
    <3>1. StageRank(steps[k].stage) <= rank /\ StageRank(steps[k].stage) \in 1..8
      BY <1>4, <1>5, <2>1
    <3>2. all[k] = steps[k]
      BY <1>1, <2>1
    <3> QED BY <1>3, <3>1, <3>2
  <2>2. CASE k = n + 1
    BY <1>1, <1>3, <2>2
  <2> QED BY <1>8, <2>1, <2>2
<1>12. \A j, k \in 1..(n + 1) : j < k => Before(all[j].stage, all[k].stage)
  BY <1>1, <1>6, <1>7, <1>9
<1> QED BY <1>1, <1>10, <1>11, <1>12 DEF Rises, all

(* Discarding its problems leaves a trace in its order. *)
LEMMA DiscardRises ==
  ASSUME NEW steps, NEW rank, Rises(steps, rank), NEW problems,
         \A k \in 1..Len(steps) : steps[k] \in TraceStep
  PROVE  Rises(DiscardPending(steps, problems), rank)
<1> DEFINE kept == DiscardPending(steps, problems)
<1>0. IsSequence(steps)
  BY DEF Rises
<1>1. /\ IsSequence(kept) /\ Len(kept) = Len(steps)
      /\ \A k \in 1..Len(steps) : kept[k] = DiscardTraceStep(steps[k]) \/ kept[k] = steps[k]
  BY <1>0, DiscardShape
<1>2. \A step \in TraceStep : /\ DiscardTraceStep(step).stage = step.stage
                              /\ DiscardTraceStep(step).terminal = step.terminal
  BY DEF DiscardTraceStep, TraceStep
<1>3. \A k \in 1..Len(steps) : kept[k].stage = steps[k].stage
                                 /\ kept[k].terminal = steps[k].terminal
  BY <1>1, <1>2
<1> HIDE DEF kept
<1> QED BY <1>1, <1>3 DEF Rises, kept

(***************************************************************************)
(* The steps of the selectors and the rules.                               *)
(***************************************************************************)
LEMMA SelectorStepFacts ==
  ASSUME NEW selector \in {"namespaceSelector", "objectSelector"},
         NEW outcome \in SelectorOutcomes \ {"no-match"}
  PROVE  LET step == SelectorStep(selector, outcome) IN
           /\ step \in TraceStep /\ ~step.terminal /\ ~step.discarded
           /\ step.stage = selector
           /\ step.pending <=> outcome # "match"
           /\ step.pending => step.result = ProblemResult(outcome)
<1>1. CASE outcome = "match"
  <2>1. SelectorStep(selector, outcome)
          = Step(selector, "match", SelectorReason(selector, "match"), FALSE)
    BY <1>1 DEF SelectorStep
  <2>2. SelectorReason(selector, "match") \in CompletedReasons
    BY SelectorReasonCompleted DEF SelectorOutcomes
  <2>3. selector \in Stages /\ "match" \in TraceResults \ {"not-run"}
    BY DEF Stages, TraceResults
  <2> DEFINE reason == SelectorReason(selector, "match")
  <2>4. Step(selector, "match", reason, FALSE) \in TraceStep
    BY <2>2, <2>3, StepSound
  <2>5. LET step == Step(selector, "match", reason, FALSE) IN
          ~step.terminal /\ ~step.discarded /\ step.stage = selector /\ ~step.pending
    BY DEF Step
  <2> HIDE DEF reason
  <2> QED BY <1>1, <2>1, <2>4, <2>5 DEF reason
<1>2. CASE outcome # "match"
  <2>1. SelectorStep(selector, outcome) = PendingStep(selector, outcome)
    BY <1>2 DEF SelectorStep
  <2>2. outcome \in SelectorProblems
    BY <1>2 DEF SelectorOutcomes
  <2> QED BY <1>2, <2>1, <2>2, PendingStepSound DEF PendingStep, Step
<1> QED BY <1>1, <1>2

LEMMA RuleStepFacts ==
  ASSUME NEW ruleStage \in {"exactRules", "equivalentRules"}, NEW matched,
         NEW terminal \in BOOLEAN
  PROVE  LET step == RuleStep(ruleStage, matched, terminal) IN
           /\ step \in TraceStep /\ ~step.pending /\ ~step.discarded
           /\ step.stage = ruleStage /\ step.terminal = terminal
           /\ ~matched => step.reason = "RULE_NO_MATCH"
BY DEF RuleStep, Step, TraceStep, Stages, TraceResults, ReasonCodes, CompletedReasons

(* The traces rise, and their pending steps are those of the deferred selectors. *)
StepsOf(w, s, steps) ==
  /\ IsSequence(steps) /\ Len(steps) >= 2
  /\ \A k \in 1..Len(steps) : steps[k] \in TraceStep /\ ~steps[k].discarded
  /\ steps[1] = SelectorStep("namespaceSelector", NamespaceOutcome(w, s))
  /\ steps[2] = SelectorStep("objectSelector", ObjectOutcome(w, s))
  /\ \A k \in 1..Len(steps) : k \notin {1, 2} => ~steps[k].pending

LEMMA FirstStep ==
  ASSUME NEW w, NEW s, NamespaceOutcome(w, s) # "no-match"
  PROVE  /\ Rises(Trace1(w, s), 2)
         /\ \A k \in 1..Len(Trace1(w, s)) : Trace1(w, s)[k] \in TraceStep
<1> DEFINE first == SelectorStep("namespaceSelector", NamespaceOutcome(w, s))
<1>1. first \in TraceStep /\ ~first.terminal /\ first.stage = "namespaceSelector"
  <2>1. NamespaceOutcome(w, s) \in SelectorOutcomes \ {"no-match"}
    BY OutcomesTyped
  <2> QED BY <2>1, SelectorStepFacts
<1> HIDE DEF first
<1>2. Rises(Append(<<>>, first), StageRank("namespaceSelector"))
  <2>1. 1 < StageRank(first.stage) /\ 1 \in 0..8 /\ Rises(<<>>, 1)
    BY <1>1, StageRanks, NoneRise
  <2>2. Rises(Append(<<>>, first), StageRank(first.stage))
    BY <1>1, <2>1, AppendRises
  <2> QED BY <1>1, <2>2
<1>3. Rises(Trace1(w, s), 2)
  BY <1>2, StageRanks DEF Trace1, first
<1>4. Len(Trace1(w, s)) = 1 /\ Trace1(w, s)[1] = first
  BY TraceShape DEF first
<1>5. \A k \in 1..1 : k = 1
  OBVIOUS
<1> QED BY <1>1, <1>3, <1>4, <1>5

LEMMA TracesRise ==
  ASSUME NEW w, NEW s, Unexcluded(w, s)
  PROVE  /\ Rises(Trace2(w, s), 3) /\ StepsOf(w, s, Trace2(w, s))
         /\ Rises(Trace3(w, s), 4) /\ StepsOf(w, s, Trace3(w, s))
         /\ Rises(RulesTrace(w, s), 5) /\ StepsOf(w, s, RulesTrace(w, s))
<1> DEFINE first == SelectorStep("namespaceSelector", NamespaceOutcome(w, s))
           second == SelectorStep("objectSelector", ObjectOutcome(w, s))
           exact == RuleStep("exactRules", MatchExactRules(w, s.request), FALSE)
           other == RuleStep("equivalentRules", TRUE, FALSE)
           t2 == Trace2(w, s)
           t3 == Trace3(w, s)
           t4 == RulesTrace(w, s)
<1>1. /\ first \in TraceStep /\ ~first.discarded
      /\ second \in TraceStep /\ ~second.terminal /\ ~second.discarded
      /\ second.stage = "objectSelector"
  <2>1. /\ NamespaceOutcome(w, s) \in SelectorOutcomes \ {"no-match"}
        /\ ObjectOutcome(w, s) \in SelectorOutcomes \ {"no-match"}
    BY OutcomesTyped DEF Unexcluded
  <2> QED BY <2>1, SelectorStepFacts
<1>2. /\ exact \in TraceStep /\ ~exact.terminal /\ ~exact.pending /\ ~exact.discarded
      /\ exact.stage = "exactRules"
      /\ other \in TraceStep /\ ~other.terminal /\ ~other.pending /\ ~other.discarded
      /\ other.stage = "equivalentRules"
  BY RuleStepFacts
<1>3. /\ IsSequence(t2) /\ Len(t2) = 2 /\ t2[1] = first /\ t2[2] = second
      /\ IsSequence(t3) /\ Len(t3) = 3 /\ t3[1] = t2[1] /\ t3[2] = t2[2] /\ t3[3] = exact
      /\ IsSequence(t4) /\ t4[1] = t3[1] /\ t4[2] = t3[2] /\ t4[3] = t3[3]
      /\ Len(t4) = 3 \/ (Len(t4) = 4 /\ t4[4] = other)
  <2>1. Len(t4) = 3 \/ (Len(t4) = 4 /\ t4[4] = other)
    BY TraceShape, Zenon
  <2>2. IsSequence(t2) /\ Len(t2) = 2 /\ t2[1] = Trace1(w, s)[1] /\ t2[2] = second
    BY TraceShape
  <2>3. IsSequence(t3) /\ Len(t3) = 3 /\ t3[1] = t2[1] /\ t3[2] = t2[2] /\ t3[3] = exact
    BY TraceShape
  <2>4. IsSequence(t4) /\ t4[1] = t3[1] /\ t4[2] = t3[2] /\ t4[3] = t3[3]
    BY TraceShape
  <2>5. Trace1(w, s)[1] = first
    BY TraceShape
  <2> HIDE DEF first, second, exact, other, t2, t3, t4
  <2> QED BY <2>1, <2>2, <2>3, <2>4, <2>5
<1>4. /\ t2 = Append(Trace1(w, s), second) /\ t3 = Append(t2, exact)
      /\ t4 = t3 \/ t4 = Append(t3, other)
  BY DEF Trace2, Trace3, RulesTrace
<1> HIDE DEF first, second, exact, other, t2, t3, t4
<1>5. Rises(t2, 3)
  <2>1. Rises(Trace1(w, s), 2) /\ 2 \in 1..8 /\ 2 < StageRank(second.stage)
    BY <1>1, FirstStep, StageRanks DEF Unexcluded
  <2>2. Rises(Append(Trace1(w, s), second), StageRank(second.stage))
    BY <1>1, <2>1, AppendRises
  <2> QED BY <1>1, <1>4, <2>2, StageRanks
<1>6. Rises(t3, 4)
  <2>1. 3 \in 1..8 /\ 3 < StageRank(exact.stage)
    BY <1>2, StageRanks
  <2>2. Rises(Append(t2, exact), StageRank(exact.stage))
    BY <1>2, <1>5, <2>1, AppendRises
  <2> QED BY <1>2, <1>4, <2>2, StageRanks
<1>7. Rises(t4, 5)
  <2>1. CASE t4 = t3
    <3>1. \A k \in 1..Len(t3) : StageRank(t3[k].stage) <= 5
      <4>1. \A k \in 1..Len(t3) :
              StageRank(t3[k].stage) <= 4 /\ StageRank(t3[k].stage) \in 1..8
        BY <1>6, StageRanks DEF Rises
      <4> QED BY <4>1
    <3> QED BY <1>6, <2>1, <3>1 DEF Rises
  <2>2. CASE t4 = Append(t3, other)
    <3>1. 4 \in 1..8 /\ 4 < StageRank(other.stage)
      BY <1>2, StageRanks
    <3>2. Rises(Append(t3, other), StageRank(other.stage))
      BY <1>2, <1>6, <3>1, AppendRises
    <3> QED BY <1>2, <2>2, <3>2, StageRanks
  <2> QED BY <1>4, <2>1, <2>2
<1>8. StepsOf(w, s, t2)
  <2>1. \A k \in 1..2 : k = 1 \/ k = 2
    OBVIOUS
  <2> QED BY <1>1, <1>3, <2>1 DEF StepsOf, first, second
<1>9. t3[1] = first /\ t3[2] = second /\ t4[1] = first /\ t4[2] = second /\ t4[3] = exact
  BY <1>3
<1>10. StepsOf(w, s, t3)
  <2>1. \A k \in 1..3 : k = 1 \/ k = 2 \/ k = 3
    OBVIOUS
  <2>2. Len(t3) = 3 /\ Len(t3) >= 2
    BY <1>3
  <2> QED BY <1>1, <1>2, <1>3, <1>9, <2>1, <2>2 DEF StepsOf, first, second
<1>11. StepsOf(w, s, t4)
  <2>1. /\ \A k \in 1..3 : k = 1 \/ k = 2 \/ k = 3
        /\ \A k \in 1..4 : k = 1 \/ k = 2 \/ k = 3 \/ k = 4
    OBVIOUS
  <2>2. Len(t4) >= 2
    BY <1>3
  <2>3. \A k \in 1..Len(t4) : k = 1 \/ k = 2 \/ k = 3 \/ (k = 4 /\ t4[4] = other)
    BY <1>3, <2>1
  <2> QED BY <1>1, <1>2, <1>3, <1>9, <2>2, <2>3 DEF StepsOf, first, second
<1> QED BY <1>5, <1>6, <1>7, <1>8, <1>10, <1>11 DEF t2, t3, t4

(* The deferred problems are those of the selectors that cannot be evaluated. *)
LEMMA DeferredFacts ==
  ASSUME NEW w, NEW s
  PROVE  LET deferred == Deferred(w, s)
             first == NamespaceOutcome(w, s) # "match"
             second == ObjectOutcome(w, s) # "match"
         IN /\ IsSequence(deferred)
            /\ \A k : (\E p \in DOMAIN deferred : deferred[p].index = k)
                        <=> (first /\ k = 1) \/ (second /\ k = 2)
            /\ deferred = <<>> <=> ~first /\ ~second
            /\ first => deferred[1] = [index |-> 1, selector |-> "namespaceSelector",
                                       outcome |-> NamespaceOutcome(w, s)]
            /\ ~first /\ second => deferred[1] = [index |-> 2, selector |-> "objectSelector",
                                                  outcome |-> ObjectOutcome(w, s)]
            /\ first \/ second =>
                 \A k : (\E p \in DOMAIN Tail(deferred) : Tail(deferred)[p].index = k)
                          <=> (first /\ second /\ k = 2)
<1> DEFINE deferred == Deferred(w, s)
           first == NamespaceOutcome(w, s) # "match"
           second == ObjectOutcome(w, s) # "match"
           a == [index |-> 1, selector |-> "namespaceSelector", outcome |-> NamespaceOutcome(w, s)]
           b == [index |-> 2, selector |-> "objectSelector", outcome |-> ObjectOutcome(w, s)]
           rest == Tail(deferred)
<1>1. a.index = 1 /\ b.index = 2
  OBVIOUS
<1>2. /\ first /\ second => deferred = Append(Append(<<>>, a), b)
      /\ first /\ ~second => deferred = Append(<<>>, a)
      /\ ~first /\ second => deferred = Append(<<>>, b)
      /\ ~first /\ ~second => deferred = <<>>
  BY DEF Deferred, Problem1
<1> HIDE DEF a, b, deferred, first, second
<1>3. ASSUME NEW e, NEW one, one = Append(<<>>, e)
      PROVE  IsSequence(one) /\ one # <<>> /\ Len(one) = 1 /\ DOMAIN one = 1..1 /\ one[1] = e
  <2>1. IsSequence(one) /\ one # <<>> /\ Len(one) = Len(<<>>) + 1 /\ one[Len(<<>>) + 1] = e
    BY <1>3, EmptySequence, AppendFacts
  <2>2. DOMAIN one = 1..Len(one)
    BY <2>1, SequenceFacts
  <2> QED BY <2>1, <2>2, EmptySequence
<1>4. \A p : (p \in 1..1 <=> p = 1) /\ (p \in 1..2 <=> p = 1 \/ p = 2)
  OBVIOUS
<1>5. CASE first /\ second
  <2>1. /\ IsSequence(deferred) /\ deferred # <<>> /\ Len(deferred) = 2
        /\ deferred[1] = a /\ deferred[2] = b /\ DOMAIN deferred = 1..2
    <3> DEFINE one == Append(<<>>, a)
    <3>1. one = Append(<<>>, a) /\ deferred = Append(one, b)
      BY <1>2, <1>5
    <3> HIDE DEF one
    <3>2. Len(one) = 1 /\ one[1] = a
      BY <1>3, <3>1
    <3>3. IsSequence(one) /\ deferred = Append(one, b)
      BY <1>3, <3>1
    <3>4. /\ IsSequence(deferred) /\ deferred # <<>>
          /\ Len(deferred) = Len(one) + 1 /\ deferred[Len(one) + 1] = b
          /\ \A i \in 1..Len(one) : deferred[i] = one[i]
      BY <3>3, AppendFacts
    <3>5. DOMAIN deferred = 1..Len(deferred)
      BY <3>4, SequenceFacts
    <3>6. deferred[1] = one[1]
      BY <3>2, <3>4
    <3> QED BY <3>2, <3>4, <3>5, <3>6
  <2>2. \A k : (\E p \in DOMAIN deferred : deferred[p].index = k) <=> k = 1 \/ k = 2
    BY <1>1, <1>4, <2>1
  <2>3. /\ IsSequence(rest) /\ Len(rest) = Len(deferred) - 1
        /\ \A i \in 1..Len(rest) : rest[i] = deferred[i + 1]
    BY <2>1, TailFacts
  <2> HIDE DEF rest
  <2>4. Len(rest) = 1 /\ DOMAIN rest = 1..1 /\ rest[1] = b
    <3>1. Len(rest) = 1
      BY <2>1, <2>3
    <3>2. DOMAIN rest = 1..Len(rest)
      BY <2>3, SequenceFacts
    <3>3. rest[1] = deferred[1 + 1]
      <4>1. 1 \in 1..Len(rest)
        BY <3>1
      <4> QED BY <2>3, <4>1
    <3>4. deferred[1 + 1] = b
      BY <2>1
    <3> QED BY <3>1, <3>2, <3>3, <3>4
  <2>5. \A k : (\E p \in DOMAIN rest : rest[p].index = k) <=> k = 2
    BY <1>1, <1>4, <2>4
  <2> QED BY <1>5, <2>1, <2>2, <2>5 DEF a, b, deferred, first, second, rest
<1>6. CASE first # second
  <2> DEFINE only == IF first THEN a ELSE b
  <2>1. /\ IsSequence(deferred) /\ deferred # <<>> /\ Len(deferred) = 1
        /\ deferred[1] = only /\ DOMAIN deferred = 1..1
    <3>1. deferred = Append(<<>>, only)
      BY <1>2, <1>6 DEF first, second
    <3> HIDE DEF only
    <3> QED BY <1>3, <3>1
  <2>2. \A k : (\E p \in DOMAIN deferred : deferred[p].index = k) <=> k = only.index
    BY <1>4, <2>1
  <2>3. IsSequence(rest) /\ Len(rest) = Len(deferred) - 1
    BY <2>1, TailFacts
  <2> HIDE DEF rest
  <2>4. DOMAIN rest = {}
    <3>1. DOMAIN rest = 1..Len(rest) /\ Len(rest) = 0
      BY <2>1, <2>3, SequenceFacts
    <3> QED BY <3>1
  <2>5. only.index = IF first THEN 1 ELSE 2
    BY <1>1
  <2>6. CASE first
    BY <1>6, <2>6, <2>1, <2>2, <2>4, <2>5 DEF a, b, deferred, first, second, rest
  <2>7. CASE ~first
    BY <1>6, <2>7, <2>1, <2>2, <2>4, <2>5 DEF a, b, deferred, first, second, rest
  <2> QED BY <2>6, <2>7
<1>7. CASE ~first /\ ~second
  <2>1. deferred = <<>> /\ IsSequence(deferred) /\ DOMAIN deferred = {}
    BY <1>2, <1>7, EmptySequence
  <2> QED BY <1>7, <2>1 DEF a, b, deferred, first, second, rest
<1> QED BY <1>5, <1>6, <1>7 DEF first, second

(***************************************************************************)
(* What an evaluation ends with: steps in order and one terminal step, the *)
(* open problems settled, and a diagnostic for a Webhook nobody can call.  *)
(***************************************************************************)
Open(steps) == {k \in 1..Len(steps) : steps[k].pending}

Settles(steps, last) ==
  \/ Open(steps) = {}
  \/ last.stage = "equivalentRules" /\ last.result = "indeterminate"
  \/ \E k \in Open(steps) : /\ Open(steps) = {k}
                            /\ last.stage = ProblemStage(steps[k].stage)
                            /\ last.result = steps[k].result
                            /\ \A j \in 1..(k - 1) : ~steps[j].discarded

Accounts(determination, outcome, last, diagnostics) ==
  determination # "determinate" \/ outcome = "rejected-before-call" =>
    \E severity \in {"warning", "error"} : diagnostics = Diagnosed(last.reason, severity)

Ends(e, steps, last) ==
  /\ e.trace = Append(steps, last) /\ IsSequence(steps)
  /\ last.terminal /\ ~last.pending
  /\ \A k \in 1..Len(steps) : ~steps[k].terminal /\ Before(steps[k].stage, last.stage)
  /\ \A j, k \in 1..Len(steps) : j < k => Before(steps[j].stage, steps[k].stage)
  /\ Settles(steps, last)
  /\ Accounts(e.determination, e.outcome, last, e.diagnostics)

Reaches(steps, last) ==
  \/ last.stage = "matchConditions"
  \/ \E k \in 1..Len(steps) : steps[k].stage = "matchConditions"

LEMMA EndedFacts ==
  ASSUME NEW determination, NEW outcome, NEW steps, NEW last, NEW diagnostics
  PROVE  LET e == Ended(determination, outcome, steps, last, diagnostics) IN
           /\ e.determination = determination /\ e.outcome = outcome
           /\ e.trace = Append(steps, last) /\ e.diagnostics = diagnostics
BY DEF Ended, Evaluated

LEMMA LastReason ==
  ASSUME NEW steps, IsSequence(steps), \A k \in 1..Len(steps) : ~steps[k].terminal,
         NEW last, last.terminal
  PROVE  LET all == Append(steps, last) IN
           /\ TerminalSteps(all) = {Len(all)} /\ all[Len(all)] = last
           /\ TerminalReasonCode(all) = last.reason
<1> DEFINE all == Append(steps, last)
           n == Len(steps)
<1>1. /\ IsSequence(all) /\ Len(all) = n + 1 /\ all[n + 1] = last
      /\ \A k \in 1..n : all[k] = steps[k]
  BY AppendFacts
<1>2. n \in Nat /\ DOMAIN all = 1..(n + 1)
  BY <1>1, SequenceFacts
<1>3. \A k \in 1..n : ~steps[k].terminal
  OBVIOUS
<1> HIDE DEF all, n
<1>4. \A k \in 1..(n + 1) : all[k].terminal <=> k = n + 1
  <2>1. \A k \in 1..(n + 1) : k \in 1..n \/ k = n + 1
    BY <1>2
  <2>2. \A k \in 1..n : k # n + 1
    BY <1>2
  <2> QED BY <1>1, <1>3, <2>1, <2>2
<1>5. TerminalSteps(all) = {n + 1}
  <2>1. n + 1 \in 1..(n + 1)
    BY <1>2
  <2> QED BY <1>2, <1>4, <2>1 DEF TerminalSteps
<1>6. (CHOOSE i \in {n + 1} : \A j \in {n + 1} : j <= i) = n + 1
  BY <1>2
<1>7. TerminalReasonCode(all) = last.reason
  BY <1>1, <1>5, <1>6 DEF TerminalReasonCode
<1> QED BY <1>1, <1>5, <1>7 DEF all, n

LEMMA EndsAs ==
  ASSUME NEW determination, NEW outcome, NEW steps, NEW last, NEW diagnostics,
         NEW rank \in 0..8, Rises(steps, rank), last.terminal, ~last.pending,
         rank < StageRank(last.stage) \/ (rank <= 7 /\ last.stage = "matchConditions"),
         Settles(steps, last), Accounts(determination, outcome, last, diagnostics)
  PROVE  LET e == Ended(determination, outcome, steps, last, diagnostics) IN
           /\ Ends(e, steps, last)
           /\ Reaches(steps, last) =>
                VerdictIn(e) = Verdict(determination, outcome, last.reason, TRUE)
           /\ StageRank(last.stage) < 7 =>
                VerdictIn(e) = Verdict(determination, outcome, last.reason, FALSE)
<1> DEFINE all == Append(steps, last)
           e == Ended(determination, outcome, steps, last, diagnostics)
           n == Len(steps)
           reached == \E i \in DOMAIN all : all[i].stage = "matchConditions"
<1>0. IsSequence(steps)
  BY DEF Rises
<1>1. /\ IsSequence(all) /\ Len(all) = n + 1 /\ all[n + 1] = last
      /\ \A k \in 1..n : all[k] = steps[k]
  BY <1>0, AppendFacts
<1>2. n \in Nat /\ DOMAIN all = 1..(n + 1)
  BY <1>0, <1>1, SequenceFacts
<1>3. TerminalReasonCode(all) = last.reason
  BY <1>0, LastReason DEF Rises
<1>4. /\ e.determination = determination /\ e.outcome = outcome
      /\ e.trace = all /\ e.diagnostics = diagnostics
  BY EndedFacts
<1>5. \A k \in 1..n : StageRank(steps[k].stage) <= rank /\ ~steps[k].terminal
  BY DEF Rises
<1>6. \A k \in 1..n : Before(steps[k].stage, last.stage)
  BY <1>5, StepsBefore
<1> HIDE DEF all, e, n
<1>7. Ends(e, steps, last)
  <2>1. \A k \in 1..Len(steps) : ~steps[k].terminal /\ Before(steps[k].stage, last.stage)
    BY <1>5, <1>6 DEF n
  <2>2. \A j, k \in 1..Len(steps) : j < k => Before(steps[j].stage, steps[k].stage)
    BY DEF Rises
  <2>3. Accounts(e.determination, e.outcome, last, e.diagnostics)
    BY <1>4
  <2> QED BY <1>0, <1>4, <2>1, <2>2, <2>3 DEF Ends, all
<1>8. VerdictIn(e) = Verdict(determination, outcome, last.reason, reached)
  BY <1>3, <1>4 DEF VerdictIn
<1>9. reached <=> Reaches(steps, last)
  <2>1. \A k : k \in 1..(n + 1) <=> k \in 1..n \/ k = n + 1
    BY <1>2
  <2> QED BY <1>1, <1>2, <2>1 DEF Reaches, n
<1>10. ASSUME StageRank(last.stage) < 7 PROVE ~Reaches(steps, last)
  <2>1. last.stage # "matchConditions"
    BY <1>10, StageRanks
  <2>2. rank < 7
    BY <1>10, <2>1, StageRanks
  <2>3. ASSUME NEW k \in 1..n PROVE steps[k].stage # "matchConditions"
    <3>1. StageRank(steps[k].stage) <= rank /\ StageRank(steps[k].stage) \in 1..8
      BY <1>5, StageRanks
    <3>2. StageRank(steps[k].stage) # 7
      BY <2>2, <3>1
    <3> QED BY <3>2, StageRanks
  <2> QED BY <2>1, <2>3 DEF Reaches, n
<1>11. Reaches(steps, last) =>
         VerdictIn(e) = Verdict(determination, outcome, last.reason, TRUE)
  <2> HIDE DEF reached
  <2> QED BY <1>8, <1>9 DEF Verdict
<1>12. StageRank(last.stage) < 7 =>
         VerdictIn(e) = Verdict(determination, outcome, last.reason, FALSE)
  <2> SUFFICES ASSUME StageRank(last.stage) < 7
               PROVE  VerdictIn(e) = Verdict(determination, outcome, last.reason, FALSE)
    OBVIOUS
  <2>1. reached = FALSE
    BY <1>9, <1>10
  <2> HIDE DEF reached
  <2> QED BY <1>8, <2>1
<1> QED BY <1>7, <1>11, <1>12 DEF e

-------------------------------------------------------------------------------
(***************************************************************************)
(* Every way to end an evaluation ends it well, with the verdict it stands *)
(* for.                                                                    *)
(***************************************************************************)
Concludes(e, determination, outcome, reason, reached) ==
  /\ \E steps, last : Ends(e, steps, last)
  /\ VerdictIn(e) = Verdict(determination, outcome, reason, reached)

LEMMA SkippedConcludes ==
  ASSUME NEW rank \in 0..8, NEW steps, Rises(steps, rank), Open(steps) = {},
         NEW last, last.terminal, ~last.pending,
         rank < StageRank(last.stage), StageRank(last.stage) < 7
  PROVE  Concludes(Skipped(steps, last), "determinate", "skipped", last.reason, FALSE)
<1> DEFINE e == Skipped(steps, last)
<1>1. Settles(steps, last) /\ Accounts("determinate", "skipped", last, <<>>)
  BY DEF Settles, Accounts
<1>2. /\ Ends(Ended("determinate", "skipped", steps, last, <<>>), steps, last)
      /\ VerdictIn(Ended("determinate", "skipped", steps, last, <<>>))
           = Verdict("determinate", "skipped", last.reason, FALSE)
  BY <1>1, EndsAs
<1> QED BY <1>2 DEF Concludes, Skipped

LEMMA ProblemConcludes ==
  ASSUME NEW rank \in 0..8, NEW steps, Rises(steps, rank),
         NEW last, last.terminal, ~last.pending, Settles(steps, last),
         rank < StageRank(last.stage), StageRank(last.stage) < 7,
         NEW err \in SelectorProblems
  PROVE  /\ err = "evaluation-error" =>
              Concludes(ProblemEnd(steps, last, err),
                        "determinate", "rejected-before-call", last.reason, FALSE)
         /\ err = "missing-context" =>
              Concludes(ProblemEnd(steps, last, err),
                        "indeterminate", NoOutcome, last.reason, FALSE)
<1>1. ASSUME NEW determination, NEW outcome, NEW severity \in {"warning", "error"}
      PROVE  LET e == Ended(determination, outcome, steps, last, Diagnosed(last.reason, severity))
             IN Concludes(e, determination, outcome, last.reason, FALSE)
  <2>1. Accounts(determination, outcome, last, Diagnosed(last.reason, severity))
    BY DEF Accounts
  <2> DEFINE e == Ended(determination, outcome, steps, last, Diagnosed(last.reason, severity))
  <2>2. /\ Ends(e, steps, last)
        /\ VerdictIn(e) = Verdict(determination, outcome, last.reason, FALSE)
    BY <2>1, EndsAs
  <2> QED BY <2>2 DEF Concludes
<1>2. ProblemEnd(steps, last, "evaluation-error")
        = Ended("determinate", "rejected-before-call", steps, last,
                Diagnosed(last.reason, "error"))
  BY DEF ProblemEnd
<1>3. ProblemEnd(steps, last, "missing-context")
        = Ended("indeterminate", NoOutcome, steps, last, Diagnosed(last.reason, "warning"))
  BY DEF ProblemEnd
<1> QED BY <1>1, <1>2, <1>3

(* Discarding closes the problems it discards. *)
LEMMA DiscardOpen ==
  ASSUME NEW steps, IsSequence(steps), \A k \in 1..Len(steps) : steps[k] \in TraceStep,
         NEW problems
  PROVE  LET kept == DiscardPending(steps, problems) IN
           /\ Len(kept) = Len(steps)
           /\ Open(kept) = {k \in Open(steps) : ~ \E p \in DOMAIN problems : problems[p].index = k}
           /\ \A k \in Open(kept) : kept[k] = steps[k]
           /\ \A k \in 1..Len(steps) :
                (~ \E p \in DOMAIN problems : problems[p].index = k) => kept[k] = steps[k]
<1> DEFINE kept == DiscardPending(steps, problems)
           marked(k) == \E p \in DOMAIN problems : problems[p].index = k
<1>1. /\ Len(kept) = Len(steps)
      /\ \A k \in 1..Len(steps) :
           kept[k] = IF marked(k) THEN DiscardTraceStep(steps[k]) ELSE steps[k]
  BY DiscardShape
<1>2. \A step \in TraceStep : ~DiscardTraceStep(step).pending
  BY DEF DiscardTraceStep, TraceStep
<1> HIDE DEF kept, marked
<1>3. \A k \in 1..Len(steps) : kept[k].pending <=> ~marked(k) /\ steps[k].pending
  <2> SUFFICES ASSUME NEW k \in 1..Len(steps)
               PROVE  kept[k].pending <=> ~marked(k) /\ steps[k].pending
    OBVIOUS
  <2>1. CASE marked(k)
    BY <1>1, <1>2, <2>1
  <2>2. CASE ~marked(k)
    BY <1>1, <2>2
  <2> QED BY <2>1, <2>2
<1>4. Open(kept) = {k \in Open(steps) : ~marked(k)}
  BY <1>1, <1>3 DEF Open
<1>5. \A k \in Open(kept) : kept[k] = steps[k]
  BY <1>1, <1>4 DEF Open
<1> QED BY <1>1, <1>4, <1>5 DEF kept, marked

LEMMA OpenOf ==
  ASSUME NEW w, NEW s, Unexcluded(w, s), NEW steps, StepsOf(w, s, steps)
  PROVE  \A k : k \in Open(steps) <=> \/ NamespaceOutcome(w, s) # "match" /\ k = 1
                                      \/ ObjectOutcome(w, s) # "match" /\ k = 2
<1>1. /\ NamespaceOutcome(w, s) \in SelectorOutcomes \ {"no-match"}
      /\ ObjectOutcome(w, s) \in SelectorOutcomes \ {"no-match"}
  BY OutcomesTyped DEF Unexcluded
<1>2. /\ steps[1].pending <=> NamespaceOutcome(w, s) # "match"
      /\ steps[2].pending <=> ObjectOutcome(w, s) # "match"
  <2>1. SelectorStep("namespaceSelector", NamespaceOutcome(w, s)).pending
          <=> NamespaceOutcome(w, s) # "match"
    BY <1>1, SelectorStepFacts
  <2>2. SelectorStep("objectSelector", ObjectOutcome(w, s)).pending
          <=> ObjectOutcome(w, s) # "match"
    BY <1>1, SelectorStepFacts
  <2> QED BY <2>1, <2>2 DEF StepsOf
<1>3. 1 \in 1..Len(steps) /\ 2 \in 1..Len(steps)
  <2>1. Len(steps) \in Nat /\ Len(steps) >= 2
    BY SequenceFacts DEF StepsOf
  <2> QED BY <2>1
<1>4. \A k \in 1..Len(steps) : k \notin {1, 2} => ~steps[k].pending
  BY DEF StepsOf
<1> QED BY <1>2, <1>3, <1>4 DEF Open

(* Once all of its problems are discarded, nothing is open. *)
LEMMA AllDiscarded ==
  ASSUME NEW w, NEW s, Unexcluded(w, s), NEW steps, StepsOf(w, s, steps)
  PROVE  Open(DiscardPending(steps, Deferred(w, s))) = {}
<1> DEFINE kept == DiscardPending(steps, Deferred(w, s))
           marked(k) == \E p \in DOMAIN Deferred(w, s) : Deferred(w, s)[p].index = k
<1>1. Open(kept) = {k \in Open(steps) : ~marked(k)}
  BY DiscardOpen DEF StepsOf
<1>2. \A k : marked(k) <=> \/ NamespaceOutcome(w, s) # "match" /\ k = 1
                           \/ ObjectOutcome(w, s) # "match" /\ k = 2
  BY DeferredFacts
<1> HIDE DEF kept, marked
<1> QED BY <1>1, <1>2, OpenOf DEF kept

(* A selector that does not match excludes the Webhook. *)
LEMMA SelectorsConclude ==
  ASSUME NEW w, NEW s
  PROVE  /\ Concludes(Skipped(<<>>, Step("admissionConfigurationExemption", "no-match",
                                         "ADMISSION_CONFIGURATION_EXCLUDED", TRUE)),
                      "determinate", "skipped", "ADMISSION_CONFIGURATION_EXCLUDED", FALSE)
         /\ Concludes(Skipped(<<>>, ExcludedStep("namespaceSelector")),
                      "determinate", "skipped", "NAMESPACE_SELECTOR_NO_MATCH", FALSE)
         /\ NamespaceOutcome(w, s) # "no-match" =>
              Concludes(Skipped(DiscardPending(Trace1(w, s), Problem1(w, s)),
                                ExcludedStep("objectSelector")),
                        "determinate", "skipped", "OBJECT_SELECTOR_NO_MATCH", FALSE)
<1> DEFINE exempt == Step("admissionConfigurationExemption", "no-match",
                          "ADMISSION_CONFIGURATION_EXCLUDED", TRUE)
           namespace == ExcludedStep("namespaceSelector")
           object == ExcludedStep("objectSelector")
           kept == DiscardPending(Trace1(w, s), Problem1(w, s))
<1>1. /\ exempt.terminal /\ ~exempt.pending /\ exempt.stage = "admissionConfigurationExemption"
      /\ exempt.reason = "ADMISSION_CONFIGURATION_EXCLUDED"
  BY DEF Step
<1>2. /\ namespace.terminal /\ ~namespace.pending /\ namespace.stage = "namespaceSelector"
      /\ namespace.reason = "NAMESPACE_SELECTOR_NO_MATCH"
      /\ object.terminal /\ ~object.pending /\ object.stage = "objectSelector"
      /\ object.reason = "OBJECT_SELECTOR_NO_MATCH"
  BY DEF ExcludedStep, Step, SelectorReason
<1>3. Rises(<<>>, 0) /\ Open(<<>>) = {}
  <2>1. \A k : k \notin 1..Len(<<>>)
    BY EmptySequence
  <2> QED BY <2>1, NoneRise DEF Open
<1> HIDE DEF exempt, namespace, object, kept
<1>4. Concludes(Skipped(<<>>, exempt), "determinate", "skipped",
                "ADMISSION_CONFIGURATION_EXCLUDED", FALSE)
  <2>1. 0 < StageRank(exempt.stage) /\ StageRank(exempt.stage) < 7 /\ 0 \in 0..8
    BY <1>1, StageRanks
  <2>2. Concludes(Skipped(<<>>, exempt), "determinate", "skipped", exempt.reason, FALSE)
    BY <1>1, <1>3, <2>1, SkippedConcludes
  <2> QED BY <1>1, <2>2
<1>5. Concludes(Skipped(<<>>, namespace), "determinate", "skipped",
                "NAMESPACE_SELECTOR_NO_MATCH", FALSE)
  <2>1. 0 < StageRank(namespace.stage) /\ StageRank(namespace.stage) < 7 /\ 0 \in 0..8
    BY <1>2, StageRanks
  <2>2. Concludes(Skipped(<<>>, namespace), "determinate", "skipped", namespace.reason, FALSE)
    BY <1>2, <1>3, <2>1, SkippedConcludes
  <2> QED BY <1>2, <2>2
<1>6. ASSUME NamespaceOutcome(w, s) # "no-match"
      PROVE  Concludes(Skipped(kept, object), "determinate", "skipped",
                       "OBJECT_SELECTOR_NO_MATCH", FALSE)
  <2>1. /\ Rises(Trace1(w, s), 2) /\ IsSequence(Trace1(w, s)) /\ Len(Trace1(w, s)) = 1
        /\ \A k \in 1..Len(Trace1(w, s)) : Trace1(w, s)[k] \in TraceStep
    BY <1>6, FirstStep, TraceShape DEF Rises
  <2>2. Rises(kept, 2)
    BY <2>1, DiscardRises DEF kept
  <2>3. Open(kept) = {}
    <3>1. Open(kept) = {k \in Open(Trace1(w, s)) :
                          ~ \E p \in DOMAIN Problem1(w, s) : Problem1(w, s)[p].index = k}
      BY <2>1, DiscardOpen DEF kept
    <3>2. \A k \in Open(Trace1(w, s)) : k = 1 /\ NamespaceOutcome(w, s) # "match"
      <4>1. NamespaceOutcome(w, s) \in SelectorOutcomes \ {"no-match"}
        BY <1>6, OutcomesTyped
      <4>2. Trace1(w, s)[1].pending <=> NamespaceOutcome(w, s) # "match"
        <5>1. SelectorStep("namespaceSelector", NamespaceOutcome(w, s)).pending
                <=> NamespaceOutcome(w, s) # "match"
          BY <4>1, SelectorStepFacts
        <5>2. Trace1(w, s)[1] = SelectorStep("namespaceSelector", NamespaceOutcome(w, s))
          BY TraceShape
        <5> QED BY <5>1, <5>2
      <4>3. \A k \in 1..1 : k = 1
        OBVIOUS
      <4> QED BY <2>1, <4>2, <4>3 DEF Open
    <3>3. NamespaceOutcome(w, s) # "match" =>
            \E p \in DOMAIN Problem1(w, s) : Problem1(w, s)[p].index = 1
      <4> DEFINE problem == [index |-> 1, selector |-> "namespaceSelector",
                             outcome |-> NamespaceOutcome(w, s)]
      <4>1. NamespaceOutcome(w, s) # "match" => Problem1(w, s) = Append(<<>>, problem)
        BY DEF Problem1
      <4>2. problem.index = 1
        OBVIOUS
      <4> HIDE DEF problem
      <4>3. /\ IsSequence(Append(<<>>, problem)) /\ Append(<<>>, problem)[Len(<<>>) + 1] = problem
            /\ Len(Append(<<>>, problem)) = Len(<<>>) + 1
        BY EmptySequence, AppendFacts
      <4>4. 1 \in DOMAIN Append(<<>>, problem) /\ Append(<<>>, problem)[1] = problem
        BY <4>3, EmptySequence, SequenceFacts
      <4> QED BY <4>1, <4>2, <4>4
    <3> QED BY <3>1, <3>2, <3>3
  <2>4. 2 < StageRank(object.stage) /\ StageRank(object.stage) < 7 /\ 2 \in 0..8
    BY <1>2, StageRanks
  <2>5. Concludes(Skipped(kept, object), "determinate", "skipped", object.reason, FALSE)
    BY <1>2, <2>2, <2>3, <2>4, SkippedConcludes
  <2> QED BY <1>2, <2>5
<1> QED BY <1>4, <1>5, <1>6 DEF exempt, namespace, object, kept

(* So do rules that do not select the request. *)
LEMMA NoMatchConcludes ==
  ASSUME NEW w, NEW s, Unexcluded(w, s)
  PROVE  Concludes(NoMatchEnd(w, s), "determinate", "skipped", "RULE_NO_MATCH", FALSE)
<1>1. ASSUME NEW steps, NEW rank \in 0..8, Rises(steps, rank), StepsOf(w, s, steps),
             NEW ruleStage \in {"exactRules", "equivalentRules"}, rank < StageRank(ruleStage)
      PROVE  Concludes(Skipped(DiscardPending(steps, Deferred(w, s)),
                               RuleStep(ruleStage, FALSE, TRUE)),
                       "determinate", "skipped", "RULE_NO_MATCH", FALSE)
  <2> DEFINE kept == DiscardPending(steps, Deferred(w, s))
             last == RuleStep(ruleStage, FALSE, TRUE)
  <2>1. /\ last.terminal /\ ~last.pending /\ last.stage = ruleStage
        /\ last.reason = "RULE_NO_MATCH"
    BY RuleStepFacts
  <2>2. Rises(kept, rank)
    BY <1>1, DiscardRises DEF StepsOf
  <2>3. Open(kept) = {}
    BY <1>1, AllDiscarded
  <2> HIDE DEF kept, last
  <2>4. rank < StageRank(last.stage) /\ StageRank(last.stage) < 7
    BY <1>1, <2>1, StageRanks
  <2>5. Concludes(Skipped(kept, last), "determinate", "skipped", last.reason, FALSE)
    BY <2>1, <2>2, <2>3, <2>4, SkippedConcludes
  <2> QED BY <2>1, <2>5 DEF kept, last
<1>2. /\ Rises(Trace2(w, s), 3) /\ StepsOf(w, s, Trace2(w, s))
      /\ Rises(Trace3(w, s), 4) /\ StepsOf(w, s, Trace3(w, s))
  BY TracesRise
<1>3. 3 \in 0..8 /\ 4 \in 0..8 /\ 3 < StageRank("exactRules") /\ 4 < StageRank("equivalentRules")
  BY StageRanks
<1>4. CASE w.matchPolicy # "Equivalent"
  BY <1>1, <1>2, <1>3, <1>4 DEF NoMatchEnd
<1>5. CASE w.matchPolicy = "Equivalent"
  BY <1>1, <1>2, <1>3, <1>5 DEF NoMatchEnd
<1> QED BY <1>4, <1>5

(* An absent mapping leaves the Webhook undetermined. *)
LEMMA UnknownConcludes ==
  ASSUME NEW w, NEW s, Unexcluded(w, s)
  PROVE  Concludes(UnknownEnd(w, s), "indeterminate", NoOutcome,
                   "EQUIVALENCE_CONTEXT_MISSING", FALSE)
<1> DEFINE last == Step("equivalentRules", "indeterminate", "EQUIVALENCE_CONTEXT_MISSING", TRUE)
<1>1. /\ last.terminal /\ ~last.pending /\ last.stage = "equivalentRules"
      /\ last.result = "indeterminate" /\ last.reason = "EQUIVALENCE_CONTEXT_MISSING"
  BY DEF Step
<1>2. Rises(Trace3(w, s), 4)
  BY TracesRise
<1> HIDE DEF last
<1>3. Settles(Trace3(w, s), last)
  BY <1>1 DEF Settles
<1>4. 4 < StageRank(last.stage) /\ StageRank(last.stage) < 7 /\ 4 \in 0..8
  BY <1>1, StageRanks
<1>5. "missing-context" \in SelectorProblems
  BY DEF SelectorProblems
<1>6. Concludes(ProblemEnd(Trace3(w, s), last, "missing-context"),
                "indeterminate", NoOutcome, last.reason, FALSE)
  BY <1>1, <1>2, <1>3, <1>4, <1>5, ProblemConcludes
<1> QED BY <1>1, <1>6 DEF UnknownEnd, last

(* Of the deferred problems the first decides, and the others are discarded. *)
LEMMA ControlledConcludes ==
  ASSUME NEW w, NEW s, Unexcluded(w, s), Deferred(w, s) # <<>>
  PROVE  LET controlling == IF NamespaceOutcome(w, s) \in SelectorProblems
                            THEN NamespaceOutcome(w, s) ELSE ObjectOutcome(w, s)
         IN \/ /\ controlling = "missing-context"
               /\ Concludes(ControlledEnd(w, s), "indeterminate", NoOutcome,
                            "NAMESPACE_CONTEXT_MISSING", FALSE)
            \/ /\ controlling = "evaluation-error"
               /\ Concludes(ControlledEnd(w, s), "determinate", "rejected-before-call",
                            "KUBERNETES_EVALUATION_ERROR", FALSE)
<1> DEFINE controlling == IF NamespaceOutcome(w, s) \in SelectorProblems
                          THEN NamespaceOutcome(w, s) ELSE ObjectOutcome(w, s)
           broken(outcome) == outcome # "match"
           first == Deferred(w, s)[1]
           steps == DiscardPending(RulesTrace(w, s), Tail(Deferred(w, s)))
           last == Step(ProblemStage(first.selector), ProblemResult(first.outcome),
                        SelectorReason(first.selector, first.outcome), TRUE)
           marked(k) == \E p \in DOMAIN Tail(Deferred(w, s)) :
                          Tail(Deferred(w, s))[p].index = k
<1>1. /\ NamespaceOutcome(w, s) \in SelectorOutcomes \ {"no-match"}
      /\ ObjectOutcome(w, s) \in SelectorOutcomes \ {"no-match"}
  BY OutcomesTyped DEF Unexcluded
<1>2. broken(NamespaceOutcome(w, s)) \/ broken(ObjectOutcome(w, s))
  BY DeferredFacts
<1>3. /\ broken(NamespaceOutcome(w, s)) =>
           first = [index |-> 1, selector |-> "namespaceSelector",
                    outcome |-> NamespaceOutcome(w, s)]
      /\ ~broken(NamespaceOutcome(w, s)) =>
           first = [index |-> 2, selector |-> "objectSelector", outcome |-> ObjectOutcome(w, s)]
  BY <1>2, DeferredFacts
<1>4. \A k : marked(k) <=> /\ broken(NamespaceOutcome(w, s)) /\ broken(ObjectOutcome(w, s))
                           /\ k = 2
  BY <1>2, DeferredFacts
<1>5. /\ first.index \in {1, 2} /\ first.outcome = controlling /\ controlling \in SelectorProblems
      /\ first.selector \in {"namespaceSelector", "objectSelector"}
      /\ first.index = 1 => /\ first.selector = "namespaceSelector"
                            /\ broken(NamespaceOutcome(w, s))
                            /\ controlling = NamespaceOutcome(w, s)
      /\ first.index = 2 => /\ first.selector = "objectSelector"
                            /\ ~broken(NamespaceOutcome(w, s)) /\ broken(ObjectOutcome(w, s))
                            /\ controlling = ObjectOutcome(w, s)
  <2>1. CASE broken(NamespaceOutcome(w, s))
    <3>1. NamespaceOutcome(w, s) \in SelectorProblems
      BY <1>1, <2>1 DEF SelectorOutcomes
    <3> QED BY <1>3, <2>1, <3>1
  <2>2. CASE ~broken(NamespaceOutcome(w, s))
    <3>1. ObjectOutcome(w, s) \in SelectorProblems /\ NamespaceOutcome(w, s) \notin SelectorProblems
      BY <1>1, <1>2, <2>2 DEF SelectorOutcomes, SelectorProblems
    <3> QED BY <1>2, <1>3, <2>2, <3>1
  <2> QED BY <2>1, <2>2
<1>6. /\ Rises(RulesTrace(w, s), 5) /\ StepsOf(w, s, RulesTrace(w, s))
  BY TracesRise
<1>7. Rises(steps, 5)
  BY <1>6, DiscardRises DEF StepsOf
<1>8. /\ Open(steps) = {k \in Open(RulesTrace(w, s)) : ~marked(k)}
      /\ \A k \in 1..Len(RulesTrace(w, s)) : ~marked(k) => steps[k] = RulesTrace(w, s)[k]
  <2> DEFINE rules == RulesTrace(w, s)
             rest == Tail(Deferred(w, s))
             among(k) == \E p \in DOMAIN rest : rest[p].index = k
  <2>1. IsSequence(rules) /\ \A k \in 1..Len(rules) : rules[k] \in TraceStep
    BY <1>6 DEF StepsOf
  <2> HIDE DEF rules, rest
  <2>2. Open(DiscardPending(rules, rest)) = {k \in Open(rules) : ~among(k)}
    BY <2>1, DiscardOpen
  <2>3. \A k \in 1..Len(rules) : ~among(k) => DiscardPending(rules, rest)[k] = rules[k]
    BY <2>1, DiscardOpen
  <2> QED BY <2>2, <2>3 DEF rules, rest
<1>9. \A k : k \in Open(RulesTrace(w, s))
               <=> \/ broken(NamespaceOutcome(w, s)) /\ k = 1
                   \/ broken(ObjectOutcome(w, s)) /\ k = 2
  BY <1>6, OpenOf
<1>10. /\ last.terminal /\ ~last.pending /\ last.stage = ProblemStage(first.selector)
       /\ last.result = ProblemResult(first.outcome)
       /\ last.reason = SelectorReason(first.selector, first.outcome)
  BY DEF Step
<1>11. StageRank(last.stage) = 6
  BY <1>5, <1>10, StageRanks DEF ProblemStage
<1> HIDE DEF steps, last, first, controlling, marked
<1>12. Settles(steps, last)
  <2> DEFINE k == first.index
  <2>1. k \in {1, 2} /\ ~marked(k) /\ k \in 1..Len(RulesTrace(w, s))
    <3>1. k \in Open(RulesTrace(w, s))
      BY <1>5, <1>9
    <3>2. ~marked(k)
      BY <1>4, <1>5
    <3> QED BY <1>5, <3>1, <3>2 DEF Open
  <2>2. Open(steps) = {k}
    BY <1>4, <1>5, <1>8, <1>9
  <2>3. steps[k] = SelectorStep(first.selector, first.outcome)
    <3>1. steps[k] = RulesTrace(w, s)[k]
      BY <1>8, <2>1
    <3> QED BY <1>5, <1>6, <3>1 DEF StepsOf
  <2>4. first.outcome \in SelectorOutcomes \ {"no-match"} /\ first.outcome # "match"
    BY <1>5 DEF SelectorOutcomes, SelectorProblems
  <2>5. steps[k].stage = first.selector /\ steps[k].result = ProblemResult(first.outcome)
    BY <1>5, <2>3, <2>4, SelectorStepFacts
  <2>6. \A j \in 1..(k - 1) : ~steps[j].discarded
    <3> SUFFICES ASSUME NEW j \in 1..(k - 1) PROVE ~steps[j].discarded
      OBVIOUS
    <3>1. k = 2 /\ j = 1
      BY <1>5
    <3>2. ~marked(1)
      BY <1>4
    <3>3. 1 \in 1..Len(RulesTrace(w, s))
      <4>1. Len(RulesTrace(w, s)) \in Nat
        BY <1>6, SequenceFacts DEF StepsOf
      <4> QED BY <2>1, <3>1, <4>1
    <3>4. steps[1] = RulesTrace(w, s)[1]
      BY <1>8, <3>2, <3>3
    <3> QED BY <1>6, <3>1, <3>3, <3>4 DEF StepsOf
  <2> HIDE DEF k
  <2> QED BY <1>10, <2>2, <2>5, <2>6 DEF Settles
<1>13. 5 < StageRank(last.stage) /\ StageRank(last.stage) < 7 /\ 5 \in 0..8
  BY <1>11
<1>14. /\ controlling = "evaluation-error" =>
            Concludes(ProblemEnd(steps, last, controlling),
                      "determinate", "rejected-before-call", last.reason, FALSE)
       /\ controlling = "missing-context" =>
            Concludes(ProblemEnd(steps, last, controlling),
                      "indeterminate", NoOutcome, last.reason, FALSE)
  BY <1>5, <1>7, <1>10, <1>12, <1>13, ProblemConcludes
<1>15. ControlledEnd(w, s) = ProblemEnd(steps, last, controlling)
  BY <1>5 DEF ControlledEnd, steps, last, first
<1>16. /\ controlling = "missing-context" => last.reason = "NAMESPACE_CONTEXT_MISSING"
       /\ controlling = "evaluation-error" => last.reason = "KUBERNETES_EVALUATION_ERROR"
  BY <1>5, <1>10 DEF SelectorReason
<1>17. controlling = "missing-context" \/ controlling = "evaluation-error"
  BY <1>5 DEF SelectorProblems
<1> QED BY <1>14, <1>15, <1>16, <1>17 DEF controlling

(* Of a Webhook without deferred problems nothing is open when its conditions are next. *)
LEMMA NothingDeferred ==
  ASSUME NEW w, NEW s, Unexcluded(w, s), Deferred(w, s) = <<>>
  PROVE  Open(RulesTrace(w, s)) = {}
<1>1. NamespaceOutcome(w, s) = "match" /\ ObjectOutcome(w, s) = "match"
  BY DeferredFacts
<1>2. StepsOf(w, s, RulesTrace(w, s))
  BY TracesRise
<1> QED BY <1>1, <1>2, OpenOf

(* A payload that does not decode ends the Webhook before a condition is looked at. *)
LEMMA UndecodedConcludes ==
  ASSUME NEW w, NEW s, Unexcluded(w, s), Deferred(w, s) = <<>>
  PROVE  Concludes(UndecodedEnd(w, s), "indeterminate", NoOutcome, "INTERNAL_ERROR", TRUE)
<1> DEFINE last == Step("matchConditions", "indeterminate", "INTERNAL_ERROR", TRUE)
           steps == RulesTrace(w, s)
           diagnostics == Diagnosed("INTERNAL_ERROR", "error")
           e == Ended("indeterminate", NoOutcome, steps, last, diagnostics)
<1>1. /\ last.terminal /\ ~last.pending /\ last.stage = "matchConditions"
      /\ last.reason = "INTERNAL_ERROR"
  BY DEF Step
<1>2. Rises(steps, 5) /\ 5 \in 0..8 /\ 5 <= 7
  BY TracesRise
<1>3. Settles(steps, last)
  BY NothingDeferred DEF Settles
<1>4. Accounts("indeterminate", NoOutcome, last, diagnostics)
  BY <1>1 DEF Accounts
<1>5. Reaches(steps, last)
  BY <1>1 DEF Reaches
<1> HIDE DEF last, steps, diagnostics
<1>6. /\ Ends(e, steps, last)
      /\ VerdictIn(e) = Verdict("indeterminate", NoOutcome, last.reason, TRUE)
  BY <1>1, <1>2, <1>3, <1>4, <1>5, EndsAs
<1>7. UndecodedEnd(w, s) = e
  BY DEF UndecodedEnd, last, steps, diagnostics
<1> QED BY <1>1, <1>6, <1>7 DEF Concludes

-------------------------------------------------------------------------------
(***************************************************************************)
(* The conditions that are looked at are the first ones, up to and with    *)
(* the first that stops the evaluator.                                     *)
(***************************************************************************)
LEMMA SeenFacts ==
  ASSUME NEW w, WellFormedConditions(w), NEW s
  PROVE  \E n \in 0..Len(w.matchConditions) :
           /\ Seen(w, s) = 1..n
           /\ Stopping(w, s) = {} => n = Len(w.matchConditions)
           /\ Stopping(w, s) # {} => n \in Stopping(w, s) /\ \A j \in Stopping(w, s) : n <= j
           /\ Completed(w, s) = Seen(w, s) \ Stopping(w, s)
<1> DEFINE m == Len(w.matchConditions)
           stops == Stopping(w, s)
<1>1. m \in Nat /\ DOMAIN w.matchConditions = 1..m
  BY SequenceFacts DEF WellFormedConditions
<1>2. stops \subseteq 1..m
  BY <1>1 DEF Stopping
<1>3. /\ Seen(w, s) = {k \in 1..m : \A j \in stops : k <= j}
      /\ Completed(w, s) = {k \in 1..m : \A j \in stops : k < j}
  BY <1>1 DEF Seen, Completed
<1> HIDE DEF m, stops
<1>4. CASE stops = {}
  <2>1. m \in 0..m /\ Seen(w, s) = 1..m /\ Completed(w, s) = 1..m
    BY <1>1, <1>3, <1>4
  <2> QED BY <1>4, <2>1 DEF m, stops
<1>5. CASE stops # {}
  <2>1. stops \subseteq Nat
    BY <1>1, <1>2
  <2>2. PICK n \in stops : \A j \in stops : n <= j
    BY <1>5, <2>1, NatMinimum
  <2>3. n \in 1..m /\ n \in 0..m
    BY <1>1, <1>2, <2>2
  <2>4. Seen(w, s) = 1..n
    BY <1>1, <1>2, <1>3, <2>2, <2>3
  <2>5. Completed(w, s) = 1..(n - 1)
    BY <1>1, <1>2, <1>3, <2>2, <2>3
  <2>6. 1..(n - 1) = 1..n \ stops
    <3>1. \A k \in 1..n : k \in stops <=> k = n
      BY <1>2, <2>2, <2>3
    <3> QED BY <2>3, <3>1
  <2> QED BY <1>5, <2>2, <2>3, <2>4, <2>5, <2>6 DEF m, stops
<1> QED BY <1>4, <1>5

(* What a condition reports, in the words of ConditionsVerdict. *)

LEMMA ReportFacts ==
  ASSUME NEW w, WellFormedConditions(w), NEW s, NEW k \in 1..Len(w.matchConditions)
  PROVE  LET c == w.matchConditions[k]
             r == Report(w, s, k)
         IN /\ r \in Observation
            /\ k \in Stopping(w, s) =>
                 /\ r.problem = (IF c.form = "stops" THEN "runtime" ELSE "cost")
                 /\ r.errors = {} /\ r.value = "nil"
            /\ k \notin Stopping(w, s) =>
                 /\ c.form = "compile-error" => r.problem = "compile" /\ ErrorsOf(w, s, k) = {}
                 /\ ErrorsOf(w, s, k) # {} =>
                      r.problem = "authorization" /\ r.errors = ErrorsOf(w, s, k)
                 /\ c.form # "compile-error" /\ ErrorsOf(w, s, k) = {} =>
                      r.problem = (IF c.form = "runtime-error" THEN "runtime" ELSE "none")
                 /\ r.value = (IF r.problem # "none" THEN "nil"
                               ELSE IF Holds(c, s.authorization, InvocationKind(w, s))
                               THEN "true" ELSE "false")
<1> DEFINE c == w.matchConditions[k]
           left == Left(w, s, k - 1)
           errors == ErrorsOf(w, s, k)
           holds == Holds(c, s.authorization, InvocationKind(w, s))
           r == Report(w, s, k)
<1>1. r = Observe(c, s.authorization, InvocationKind(w, s), left)
  BY DEF Report
<1>2. r \in Observation
  BY <1>1, ObserveType
<1>3. k \in Stopping(w, s) <=> c.form = "stops" \/ OverBudget(c, s.authorization, left)
  BY StoppingFails DEF EvaluatorFails
<1>4. c.form = "compile-error" => errors = {}
  BY DEF ErrorsOf, RecordedErrors, Asked
<1>5. CASE k \in Stopping(w, s)
  <2>1. r = Problem(IF c.form = "stops" THEN "runtime" ELSE "cost", {})
    BY <1>1, <1>3, <1>5 DEF Observe
  <2> QED BY <1>2, <1>5, <2>1 DEF Problem
<1>6. CASE k \notin Stopping(w, s)
  <2>1. c.form # "stops" /\ ~OverBudget(c, s.authorization, left)
    BY <1>3, <1>6
  <2>2. r = IF c.form = "compile-error" THEN Problem("compile", {})
            ELSE IF errors # {} THEN Problem("authorization", errors)
            ELSE IF c.form = "runtime-error" THEN Problem("runtime", {})
            ELSE [value |-> IF holds THEN "true" ELSE "false", problem |-> "none",
                  errors |-> {}]
    BY <1>1, <2>1 DEF Observe, ErrorsOf
  <2> HIDE DEF r, errors, holds, c
  <2>3. /\ c.form = "compile-error" => r.problem = "compile"
        /\ errors # {} => r.problem = "authorization" /\ r.errors = errors
        /\ c.form # "compile-error" /\ errors = {} =>
             r.problem = (IF c.form = "runtime-error" THEN "runtime" ELSE "none")
        /\ r.value = (IF r.problem # "none" THEN "nil" ELSE IF holds THEN "true" ELSE "false")
    BY <1>4, <2>2 DEF Problem
  <2> QED BY <1>2, <1>4, <1>6, <2>3 DEF r, errors, holds, c
<1> QED BY <1>5, <1>6

(* The steps of the conditions come last, and none of them is open. *)
LEMMA ReportStepsRise ==
  ASSUME NEW w, WellFormedConditions(w), NEW s, Unexcluded(w, s), Deferred(w, s) = <<>>
  PROVE  Rises(ReportSteps(w, s), 7) /\ Open(ReportSteps(w, s)) = {}
<1> DEFINE classified == ClassifyAll(Reports(w, s))
           mapped == [k \in DOMAIN classified |-> ObservationStep(classified[k])]
           before == RulesTrace(w, s)
           all == ReportSteps(w, s)
           a == Len(before)
<1>1. PICK n \in 0..Len(w.matchConditions) : Seen(w, s) = 1..n
  BY SeenFacts
<1>2. n \in Nat /\ \A k \in 1..n : k \in 1..Len(w.matchConditions)
  <2>1. Len(w.matchConditions) \in Nat
    BY SequenceFacts DEF WellFormedConditions
  <2> QED BY <1>1, <2>1
<1>3. DOMAIN classified = 1..n /\ \A k \in 1..n : classified[k] \in Observation
  <2>1. DOMAIN Reports(w, s) = 1..n /\ \A k \in 1..n : Reports(w, s)[k] \in Observation
    BY <1>1, <1>2, ReportFacts DEF Reports
  <2> QED BY <2>1, ClassifyType DEF ClassifyAll
<1> HIDE DEF classified
<1>4. \A k \in 1..n : /\ mapped[k].stage = "matchConditions"
                      /\ ~mapped[k].terminal /\ ~mapped[k].pending
  <2>1. \A o : /\ ObservationStep(o).stage = "matchConditions"
               /\ ~ObservationStep(o).terminal /\ ~ObservationStep(o).pending
    BY DEF ObservationStep, Step
  <2> QED BY <1>3, <2>1
<1>5. IsSequence(mapped) /\ Len(mapped) = n
  <2>1. mapped = [k \in 1..n |-> mapped[k]]
    BY <1>3
  <2> HIDE DEF mapped
  <2> QED BY <1>2, <2>1, TableIsSequence
<1>6. Rises(before, 5) /\ Open(before) = {}
  BY TracesRise, NothingDeferred
<1>7. IsSequence(before) /\ all = before \o mapped
  BY <1>6 DEF Rises, ReportSteps, classified
<1> HIDE DEF mapped, before, all
<1>8. /\ IsSequence(all) /\ Len(all) = a + n
      /\ \A i \in 1..a : all[i] = before[i]
      /\ \A i \in 1..n : all[a + i] = mapped[i]
  <2>1. IsSequence(before) /\ IsSequence(mapped)
    BY <1>5, <1>7
  <2>2. all = before \o mapped
    BY <1>7
  <2>3. IsSequence(all) /\ Len(all) = Len(before) + Len(mapped)
    BY <2>1, <2>2, ConcatFacts
  <2>4. \A i \in 1..Len(before) : all[i] = before[i]
    BY <2>1, <2>2, ConcatFacts
  <2>5. \A i \in 1..Len(mapped) : all[Len(before) + i] = mapped[i]
    BY <2>1, <2>2, ConcatFacts
  <2> QED BY <1>5, <2>3, <2>4, <2>5
<1>9. a \in Nat
  BY <1>7, SequenceFacts
<1>10. \A k \in 1..a : /\ ~before[k].terminal /\ ~before[k].pending
                       /\ StageRank(before[k].stage) <= 5
  BY <1>6 DEF Rises, Open
<1> HIDE DEF a
<1>11. \A k \in 1..(a + n) : k \in 1..a \/ (k - a \in 1..n /\ k = a + (k - a))
  BY <1>2, <1>9
<1>12. \A k \in 1..(a + n) : k \notin 1..a => all[k] = mapped[k - a]
  BY <1>8, <1>11
<1>13. \A k \in 1..(a + n) :
         \/ k \in 1..a /\ all[k] = before[k]
         \/ /\ k \notin 1..a /\ all[k].stage = "matchConditions"
            /\ ~all[k].terminal /\ ~all[k].pending
  BY <1>4, <1>8, <1>11, <1>12
<1>14. \A k \in 1..(a + n) : ~all[k].terminal /\ ~all[k].pending
  BY <1>10, <1>13
<1>15. \A k \in 1..(a + n) : StageRank(all[k].stage) <= 7
  <2>1. \A k \in 1..a : StageRank(before[k].stage) <= 7
    <3>1. \A k \in 1..a : StageRank(before[k].stage) \in 1..8
      BY StageRanks
    <3> QED BY <1>10, <3>1
  <2>2. StageRank("matchConditions") = 7 /\ 7 <= 7
    BY StageRanks
  <2> QED BY <1>13, <2>1, <2>2
<1>16. \A j, k \in 1..(a + n) : j < k => Before(all[j].stage, all[k].stage)
  <2> SUFFICES ASSUME NEW j \in 1..(a + n), NEW k \in 1..(a + n), j < k
               PROVE  Before(all[j].stage, all[k].stage)
    OBVIOUS
  <2>1. CASE k \in 1..a
    <3>1. j \in 1..a
      BY <1>9, <2>1
    <3>2. Before(before[j].stage, before[k].stage)
      BY <1>6, <2>1, <3>1 DEF Rises, a
    <3> QED BY <1>8, <2>1, <3>1, <3>2
  <2>2. CASE k \notin 1..a
    <3>1. all[k].stage = "matchConditions"
      BY <1>13, <2>2
    <3>2. StageRank(all[j].stage) <= 7
      BY <1>15
    <3>3. 7 \in 0..8 /\ 7 <= 7
      OBVIOUS
    <3> QED BY <3>1, <3>2, <3>3, StepsBefore
  <2> QED BY <2>1, <2>2
<1>17. Rises(all, 7)
  BY <1>8, <1>14, <1>15, <1>16 DEF Rises
<1>18. Open(all) = {}
  BY <1>8, <1>14 DEF Open
<1> QED BY <1>17, <1>18 DEF all

(***************************************************************************)
(* The decision on the conditions is the one ConditionsVerdict states.     *)
(***************************************************************************)

LEMMA ReportsRead ==
  ASSUME NEW w, WellFormedConditions(w), NEW s
  PROVE  LET classified == ClassifyAll(Reports(w, s)) IN
           /\ DOMAIN Reports(w, s) = Seen(w, s) /\ DOMAIN classified = Seen(w, s)
           /\ \A k \in Seen(w, s) :
                /\ k \in 1..Len(w.matchConditions)
                /\ k \in Completed(w, s) <=> k \notin Stopping(w, s)
                /\ Reports(w, s)[k] = Report(w, s, k)
                /\ classified[k] = Classify(Report(w, s, k))
                /\ Report(w, s, k).problem # "none" <=> k \in BrokenOf(w, s)
                /\ Report(w, s, k).value = "false" <=>
                     k \in Completed(w, s) /\ IsFalse(w, s, k)
                /\ classified[k].problem = "authorization-unsupported" <=>
                     k \in Completed(w, s) /\ "unsupported" \in ErrorsOf(w, s, k)
                /\ classified[k].problem = "authorization-missing" <=>
                     /\ k \in Completed(w, s) /\ "missing" \in ErrorsOf(w, s, k)
                     /\ "unsupported" \notin ErrorsOf(w, s, k)
                /\ classified[k].problem \in {"authorization-unsupported", "authorization-missing"}
                     \/ classified[k].problem = Report(w, s, k).problem
                /\ classified[k].problem # "none" <=> Report(w, s, k).problem # "none"
<1>1. PICK n \in 0..Len(w.matchConditions) :
        /\ Seen(w, s) = 1..n
        /\ Completed(w, s) = Seen(w, s) \ Stopping(w, s)
  BY SeenFacts
<1>2. /\ DOMAIN Reports(w, s) = Seen(w, s) /\ DOMAIN ClassifyAll(Reports(w, s)) = Seen(w, s)
      /\ \A k \in Seen(w, s) : /\ Reports(w, s)[k] = Report(w, s, k)
                               /\ ClassifyAll(Reports(w, s))[k] = Classify(Report(w, s, k))
  BY DEF Reports, ClassifyAll
<1>3. \A k \in Seen(w, s) : /\ k \in 1..Len(w.matchConditions)
                            /\ k \in Completed(w, s) <=> k \notin Stopping(w, s)
  <2>1. Len(w.matchConditions) \in Nat
    BY SequenceFacts DEF WellFormedConditions
  <2>2. \A k \in 1..n : k \in 1..Len(w.matchConditions)
    BY <1>1, <2>1
  <2> QED BY <1>1, <2>2
<1> SUFFICES ASSUME NEW k \in Seen(w, s)
             PROVE  LET r == Report(w, s, k)
                        c == Classify(r)
                        e == ErrorsOf(w, s, k)
                    IN /\ r.problem # "none" <=> k \in BrokenOf(w, s)
                       /\ r.value = "false" <=> k \in Completed(w, s) /\ IsFalse(w, s, k)
                       /\ c.problem = "authorization-unsupported" <=>
                            k \in Completed(w, s) /\ "unsupported" \in e
                       /\ c.problem = "authorization-missing" <=>
                            k \in Completed(w, s) /\ "missing" \in e /\ "unsupported" \notin e
                       /\ c.problem \in {"authorization-unsupported", "authorization-missing"}
                            \/ c.problem = r.problem
                       /\ c.problem # "none" <=> r.problem # "none"
  BY <1>2, <1>3
<1> DEFINE r == Report(w, s, k)
           c == Classify(r)
           e == ErrorsOf(w, s, k)
           form == w.matchConditions[k].form
           holds == Holds(w.matchConditions[k], s.authorization, InvocationKind(w, s))
           stops == k \in Stopping(w, s)
<1>4. k \in 1..Len(w.matchConditions)
  BY <1>3
<1>5. r \in Observation
  BY <1>4, ReportFacts
<1>6. stops => /\ r.problem = (IF form = "stops" THEN "runtime" ELSE "cost")
               /\ r.errors = {} /\ r.value = "nil"
  BY <1>4, ReportFacts
<1>7. ~stops =>
        /\ form = "compile-error" => r.problem = "compile" /\ e = {}
        /\ e # {} => r.problem = "authorization" /\ r.errors = e
        /\ form # "compile-error" /\ e = {} =>
             r.problem = (IF form = "runtime-error" THEN "runtime" ELSE "none")
        /\ r.value = (IF r.problem # "none" THEN "nil" ELSE IF holds THEN "true" ELSE "false")
  BY <1>4, ReportFacts
<1>8. k \in Completed(w, s) <=> ~stops
  BY <1>3
<1>9. k \in BrokenOf(w, s) <=> stops \/ form \in {"runtime-error", "compile-error"} \/ e # {}
  BY <1>8 DEF BrokenOf
<1>10. IsFalse(w, s, k) <=> k \notin BrokenOf(w, s) /\ ~holds
  BY DEF IsFalse
<1>11. c.problem = IF r.problem # "authorization" THEN r.problem
                   ELSE IF "unsupported" \in r.errors THEN "authorization-unsupported"
                   ELSE IF "missing" \in r.errors THEN "authorization-missing"
                   ELSE r.problem
  BY <1>5 DEF Classify, Observation
<1>12. stops => r.problem \in {"runtime", "cost"}
  BY <1>6
<1>13. ~stops => r.problem \in {"compile", "authorization", "runtime", "none"}
  BY <1>7
<1> HIDE DEF r, c, e, form, holds, stops
<1>14. r.problem # "none" <=> k \in BrokenOf(w, s)
  BY <1>7, <1>9, <1>12
<1>15. r.value = "false" <=> k \in Completed(w, s) /\ IsFalse(w, s, k)
  BY <1>6, <1>7, <1>8, <1>10, <1>14
<1>16. c.problem = "authorization-unsupported" <=> ~stops /\ "unsupported" \in e
  BY <1>7, <1>11, <1>12, <1>13
<1>17. c.problem = "authorization-missing" <=>
         ~stops /\ "missing" \in e /\ "unsupported" \notin e
  BY <1>7, <1>11, <1>12, <1>13
<1>18. /\ c.problem \in {"authorization-unsupported", "authorization-missing"}
            \/ c.problem = r.problem
       /\ c.problem # "none" <=> r.problem # "none"
  BY <1>11
<1> QED BY <1>8, <1>14, <1>15, <1>16, <1>17, <1>18 DEF r, c, e

LEMMA ConditionsDecided ==
  ASSUME NEW w, WellFormedConditions(w), NEW s
  PROVE  LET broken == BrokenOf(w, s) IN
           DecisionOf(w, s) = IF SomeIsFalse(w, s) THEN "skip-false"
                              ELSE IF Asks(w, s, "unsupported") THEN "unsupported"
                              ELSE IF Asks(w, s, "missing") THEN "indeterminate"
                              ELSE IF broken = {} THEN "call"
                              ELSE IF w.failurePolicy = "Fail" THEN "reject" ELSE "skip-error"
<1> DEFINE reports == Reports(w, s)
           classified == ClassifyAll(reports)
           broken == BrokenOf(w, s)
           decided == Decide(reports, Overruns(w, s), w.failurePolicy)
<1>1. /\ SomeFalse(reports) <=> SomeIsFalse(w, s)
  <2>1. Completed(w, s) \subseteq Seen(w, s)
    BY SeenFacts
  <2> QED BY <2>1, ReportsRead DEF SomeFalse, SomeIsFalse
<1>2. SomeProblem(reports) <=> broken # {}
  <2>1. SomeProblem(reports) <=> \E k \in Seen(w, s) : k \in broken
    BY ReportsRead DEF SomeProblem
  <2>2. ASSUME broken # {} PROVE \E k \in Seen(w, s) : k \in broken
    <3>1. PICK n \in 0..Len(w.matchConditions) :
            /\ Seen(w, s) = 1..n
            /\ Stopping(w, s) # {} => n \in Stopping(w, s)
            /\ Completed(w, s) = Seen(w, s) \ Stopping(w, s)
      BY SeenFacts
    <3>2. CASE Stopping(w, s) = {}
      BY <2>2, <3>1, <3>2 DEF BrokenOf
    <3>3. CASE Stopping(w, s) # {}
      <4>1. DOMAIN w.matchConditions = 1..Len(w.matchConditions)
        BY SequenceFacts DEF WellFormedConditions
      <4>2. n \in 1..n
        BY <3>1, <3>3, <4>1 DEF Stopping
      <4> QED BY <3>1, <3>3, <4>2 DEF BrokenOf
    <3> QED BY <3>2, <3>3
  <2> QED BY <2>1, <2>2
<1>3. Overruns(w, s) => broken # {}
  BY DEF Overruns, BrokenOf
<1>4. Observed(classified, "authorization-unsupported") <=> Asks(w, s, "unsupported")
  <2>1. Completed(w, s) \subseteq Seen(w, s)
    BY SeenFacts
  <2> QED BY <2>1, ReportsRead DEF Observed, Asks
<1>5. ~Asks(w, s, "unsupported") =>
        (Observed(classified, "authorization-missing") <=> Asks(w, s, "missing"))
  <2>1. Completed(w, s) \subseteq Seen(w, s)
    BY SeenFacts
  <2> QED BY <2>1, ReportsRead DEF Observed, Asks
<1> HIDE DEF reports, classified, broken
<1>6. decided = IF SomeFalse(reports) THEN "skip-false"
                ELSE IF ~Overruns(w, s) /\ ~SomeProblem(reports) THEN "call"
                ELSE IF w.failurePolicy = "Fail" THEN "reject" ELSE "skip-error"
  BY DEF Decide, Match, ByMatcher
<1>7. decided = IF SomeIsFalse(w, s) THEN "skip-false"
                ELSE IF broken = {} THEN "call"
                ELSE IF w.failurePolicy = "Fail" THEN "reject" ELSE "skip-error"
  BY <1>1, <1>2, <1>3, <1>6
<1>8. DecisionOf(w, s) = PreserveAuthorizationContext(decided, classified)
  BY DEF DecisionOf, reports, classified
<1> HIDE DEF decided
<1> QED BY <1>4, <1>5, <1>7, <1>8 DEF PreserveAuthorizationContext, broken

(* The first broken condition gives the reason the failure policy acts for. *)
LEMMA ControllingBroken ==
  ASSUME NEW w, WellFormedConditions(w), NEW s, BrokenOf(w, s) # {},
         ~Asks(w, s, "unsupported"), ~Asks(w, s, "missing")
  PROVE  ControllingReason(ClassifyAll(Reports(w, s)))
           = BrokenReason(w, s, FirstBroken(BrokenOf(w, s)))
<1> DEFINE classified == ClassifyAll(Reports(w, s))
           broken == BrokenOf(w, s)
           problems == {i \in DOMAIN classified : classified[i].problem # "none"}
           first == CHOOSE i \in problems : \A j \in problems : i <= j
           k == FirstBroken(broken)
           m == Len(w.matchConditions)
<1>1. PICK n \in 0..m :
        /\ Seen(w, s) = 1..n
        /\ Stopping(w, s) = {} => n = m
        /\ Stopping(w, s) # {} => n \in Stopping(w, s) /\ \A j \in Stopping(w, s) : n <= j
        /\ Completed(w, s) = Seen(w, s) \ Stopping(w, s)
  BY SeenFacts
<1>2. m \in Nat /\ n \in Nat /\ Stopping(w, s) \subseteq 1..m
  BY <1>1, SequenceFacts DEF WellFormedConditions, Stopping
<1>3. DOMAIN classified = 1..n /\ \A i \in 1..n : classified[i].problem # "none" <=> i \in broken
  BY <1>1, ReportsRead
<1>4. broken \subseteq 1..m /\ \A i \in broken : i \in 1..n \/ (n \in broken /\ n \in 1..n /\ n <= i)
  <2>1. broken \subseteq Stopping(w, s) \cup Completed(w, s)
    BY DEF BrokenOf
  <2>2. Stopping(w, s) \subseteq broken
    BY DEF BrokenOf
  <2>3. Completed(w, s) \subseteq 1..n /\ 1..n \subseteq 1..m
    BY <1>1, <1>2
  <2>4. \A i \in Stopping(w, s) : n \in broken /\ n \in 1..n /\ n <= i
    BY <1>1, <1>2, <2>2
  <2> HIDE DEF broken
  <2> QED BY <1>2, <2>1, <2>3, <2>4
<1> HIDE DEF classified, broken
<1>5. problems = broken \cap (1..n)
  BY <1>3
<1>6. k \in broken /\ \A j \in broken : k <= j
  <2>1. broken \subseteq Nat /\ broken # {}
    BY <1>2, <1>4 DEF broken
  <2> QED BY <2>1, LeastChosen DEF FirstBroken
<1>7. k \in problems
  <2> HIDE DEF k, problems
  <2>1. k \in 1..m
    BY <1>4, <1>6
  <2>2. k \in 1..n \/ (n \in broken /\ n \in 1..n /\ n <= k)
    BY <1>4, <1>6
  <2>3. n \in broken => k <= n
    BY <1>6
  <2>4. k \in 1..n
    BY <1>2, <2>1, <2>2, <2>3
  <2> QED BY <1>5, <1>6, <2>4
<1>8. first \in problems /\ \A j \in problems : first <= j
  <2>1. problems \subseteq Nat /\ problems # {}
    BY <1>2, <1>5, <1>7
  <2> HIDE DEF problems
  <2> QED BY <2>1, LeastChosen
<1>9. first = k
  BY <1>5, <1>6, <1>7, <1>8
<1>10. ControllingReason(classified) = ProblemReason(classified[k].problem)
  <2>1. problems # {}
    BY <1>7
  <2>2. ControllingReason(classified) = ProblemReason(classified[first].problem)
    BY <2>1 DEF ControllingReason
  <2> QED BY <1>9, <2>2
<1>11. k \in 1..n /\ k \in 1..m
  BY <1>4, <1>5, <1>6, <1>7
<1> HIDE DEF k, problems, first
<1> DEFINE form == w.matchConditions[k].form
           errors == ErrorsOf(w, s, k)
           r == Report(w, s, k)
<1>12. k \in Completed(w, s) <=> k \notin Stopping(w, s)
  BY <1>1, <1>11, ReportsRead
<1>13. classified[k].problem = r.problem
  <2>1. classified[k].problem \in {"authorization-unsupported", "authorization-missing"}
          \/ classified[k].problem = r.problem
    BY <1>1, <1>11, ReportsRead DEF classified
  <2>2. classified[k].problem # "authorization-unsupported"
    BY <1>1, <1>11, ReportsRead DEF classified, Asks
  <2>3. classified[k].problem # "authorization-missing"
    BY <1>1, <1>11, ReportsRead DEF classified, Asks
  <2> QED BY <2>1, <2>2, <2>3
<1>14. k \in Stopping(w, s) => r.problem = (IF form = "stops" THEN "runtime" ELSE "cost")
  BY <1>11, ReportFacts
<1>15. k \notin Stopping(w, s) =>
         /\ form = "compile-error" => r.problem = "compile" /\ errors = {}
         /\ errors # {} => r.problem = "authorization"
         /\ form # "compile-error" /\ errors = {} =>
              r.problem = (IF form = "runtime-error" THEN "runtime" ELSE "none")
  BY <1>11, ReportFacts
<1>16. k \notin Stopping(w, s) => form \in {"runtime-error", "compile-error"} \/ errors # {}
  BY <1>6 DEF broken, BrokenOf
<1>17. BrokenReason(w, s, k) =
         IF k \in Stopping(w, s) THEN ProblemReason(IF form = "stops" THEN "runtime" ELSE "cost")
         ELSE IF form = "compile-error" THEN ProblemReason("compile")
         ELSE IF errors # {} THEN ProblemReason("authorization")
         ELSE ProblemReason("runtime")
  <2>1. /\ ProblemReason("runtime") = "CEL_RUNTIME_ERROR"
        /\ ProblemReason("cost") = "CEL_COST_BUDGET_EXCEEDED"
        /\ ProblemReason("compile") = "CEL_COMPILE_ERROR"
        /\ ProblemReason("authorization") = "CEL_AUTHORIZATION_ERROR"
    BY DEF ProblemReason
  <2>2. CASE k \in Stopping(w, s)
    BY <1>12, <2>1, <2>2 DEF BrokenReason
  <2>3. CASE k \notin Stopping(w, s)
    <3>1. form = "compile-error" => errors = {}
      BY <1>15, <2>3
    <3> QED BY <1>12, <2>1, <2>3, <3>1 DEF BrokenReason, ErrorsOf
  <2> QED BY <2>2, <2>3
<1> HIDE DEF form, errors, r
<1>18. ProblemReason(r.problem) = BrokenReason(w, s, k)
  BY <1>14, <1>15, <1>16, <1>17
<1> QED BY <1>10, <1>13, <1>18 DEF classified, broken, k

(* What the decision says of the Webhook, and what it shows. *)
LEMMA SummaryFacts ==
  ASSUME NEW decision \in Decisions, NEW reports
  PROVE  LET summary == Summary(decision, reports) IN
           /\ summary.step.stage = "matchConditions"
           /\ summary.step.terminal /\ ~summary.step.pending
           /\ decision = "call" =>
                /\ summary.determination = "determinate" /\ summary.outcome = "called"
                /\ summary.step.result = "true" /\ summary.step.reason = "MATCH_CONDITIONS_TRUE"
           /\ decision = "skip-false" =>
                /\ summary.determination = "determinate" /\ summary.outcome = "skipped"
                /\ summary.step.result = "false" /\ summary.step.reason = "MATCH_CONDITION_FALSE"
           /\ decision = "reject" =>
                /\ summary.determination = "determinate"
                /\ summary.outcome = "rejected-before-call"
                /\ summary.step.result = "error"
                /\ summary.step.reason = ControllingReason(reports)
           /\ decision = "skip-error" =>
                /\ summary.determination = "determinate" /\ summary.outcome = "skipped"
                /\ summary.step.result = "error"
                /\ summary.step.reason = ControllingReason(reports)
           /\ decision = "indeterminate" =>
                /\ summary.determination = "indeterminate" /\ summary.outcome = NoOutcome
                /\ summary.step.result = "indeterminate"
                /\ summary.step.reason = "AUTHORIZATION_CONTEXT_MISSING"
           /\ decision = "unsupported" =>
                /\ summary.determination = "unsupported" /\ summary.outcome = NoOutcome
                /\ summary.step.result = "unsupported"
                /\ summary.step.reason = "CAPABILITY_OUTSIDE_PROFILE"
<1> DEFINE summary == Summary(decision, reports)
           told(determination, outcome, result, reason) ==
             summary = [determination |-> determination, outcome |-> outcome,
                        step |-> Step("matchConditions", result, reason, TRUE)]
<1>1. \A determination, outcome, result, reason :
        told(determination, outcome, result, reason) =>
          /\ summary.determination = determination /\ summary.outcome = outcome
          /\ summary.step.stage = "matchConditions" /\ summary.step.terminal
          /\ ~summary.step.pending
          /\ summary.step.result = result /\ summary.step.reason = reason
  BY DEF Step
<1>2. /\ decision = "call" => told("determinate", "called", "true", "MATCH_CONDITIONS_TRUE")
      /\ decision = "skip-false" =>
           told("determinate", "skipped", "false", "MATCH_CONDITION_FALSE")
      /\ decision = "reject" =>
           told("determinate", "rejected-before-call", "error", ControllingReason(reports))
      /\ decision = "skip-error" =>
           told("determinate", "skipped", "error", ControllingReason(reports))
      /\ decision = "indeterminate" =>
           told("indeterminate", NoOutcome, "indeterminate", "AUTHORIZATION_CONTEXT_MISSING")
      /\ decision = "unsupported" =>
           told("unsupported", NoOutcome, "unsupported", "CAPABILITY_OUTSIDE_PROFILE")
  BY DEF Summary
<1>3. decision \in {"call", "skip-false", "reject", "skip-error", "indeterminate", "unsupported"}
  BY DEF Decisions
<1> HIDE DEF summary, told
<1> QED BY <1>1, <1>2, <1>3 DEF summary

(* A Webhook that ends with the summary of its conditions ends as it should. *)
LEMMA EndsByConditions ==
  ASSUME NEW determination, NEW outcome, NEW steps, NEW last, NEW diagnostics,
         Rises(steps, 7), Open(steps) = {},
         last.stage = "matchConditions", last.terminal, ~last.pending,
         Accounts(determination, outcome, last, diagnostics)
  PROVE  LET e == Ended(determination, outcome, steps, last, diagnostics) IN
           /\ Ends(e, steps, last)
           /\ VerdictIn(e) = Verdict(determination, outcome, last.reason, TRUE)
<1>1. Settles(steps, last) /\ Reaches(steps, last)
  BY DEF Settles, Reaches
<1> PICK rank \in 0..8 : rank = 7
  OBVIOUS
<1>2. Rises(steps, rank) /\ rank <= 7
  OBVIOUS
<1> QED BY <1>1, <1>2, EndsAs

(* So the conditions give the verdict ConditionsVerdict states. *)
LEMMA ConditionsConclude ==
  ASSUME NEW w, WellFormedConditions(w), NEW s, Unexcluded(w, s), Deferred(w, s) = <<>>
  PROVE  /\ \E steps, last : Ends(ConditionsEnd(w, s), steps, last)
         /\ VerdictIn(ConditionsEnd(w, s)) = ConditionsVerdict(w, s)
<1> DEFINE decision == DecisionOf(w, s)
           classified == ClassifyAll(Reports(w, s))
           summary == Summary(decision, classified)
           last == summary.step
           steps == ReportSteps(w, s)
           end == ConditionsEnd(w, s)
           code == "CAPABILITY_OUTSIDE_PROFILE"
<1>1. decision \in Decisions
  BY ConditionsDecided DEF Decisions
<1>2. last.stage = "matchConditions" /\ last.terminal /\ ~last.pending /\ last \in TraceStep
  BY <1>1, SummaryFacts, SummarySound
<1>3. Rises(steps, 7) /\ Open(steps) = {}
  BY ReportStepsRise
<1> HIDE DEF decision, classified, steps
<1>4. ASSUME NEW diagnostics,
             Accounts(summary.determination, summary.outcome, last, diagnostics)
      PROVE  LET e == Ended(summary.determination, summary.outcome, steps, last, diagnostics)
             IN /\ Ends(e, steps, last)
                /\ VerdictIn(e)
                     = Verdict(summary.determination, summary.outcome, last.reason, TRUE)
  <2> DEFINE determination == summary.determination
             outcome == summary.outcome
  <2>1. Accounts(determination, outcome, last, diagnostics)
    BY <1>4
  <2>2. last.stage = "matchConditions" /\ last.terminal /\ ~last.pending
    BY <1>2
  <2> HIDE DEF summary, last, determination, outcome
  <2>3. /\ Ends(Ended(determination, outcome, steps, last, diagnostics), steps, last)
        /\ VerdictIn(Ended(determination, outcome, steps, last, diagnostics))
             = Verdict(determination, outcome, last.reason, TRUE)
    BY <1>3, <2>1, <2>2, EndsByConditions
  <2> QED BY <2>3 DEF determination, outcome
<1>5. ASSUME summary.outcome # "called" PROVE
        /\ Ends(end, steps, last)
        /\ VerdictIn(end) = Verdict(summary.determination, summary.outcome, last.reason, TRUE)
  <2>1. end = Ended(summary.determination, summary.outcome, steps, last,
                    ConditionDiagnostics(summary))
    BY <1>5 DEF ConditionsEnd, steps, decision, classified
  <2>2. last.result \notin {"true", "false"} =>
          ConditionDiagnostics(summary)
            = Diagnosed(last.reason, IF last.result = "error" THEN "error" ELSE "warning")
    BY DEF ConditionDiagnostics, Diagnosed
  <2>3. summary.determination # "determinate" \/ summary.outcome = "rejected-before-call" =>
          last.result \notin {"true", "false"}
    <3> HIDE DEF summary, last
    <3>1. decision \in {"call", "skip-false", "reject", "skip-error", "indeterminate",
                        "unsupported"}
      BY <1>1 DEF Decisions
    <3> QED BY <1>1, <3>1, SummaryFacts DEF summary, last
  <2>4. Accounts(summary.determination, summary.outcome, last, ConditionDiagnostics(summary))
    BY <2>2, <2>3 DEF Accounts
  <2> QED BY <1>4, <2>1, <2>4
<1>6. ASSUME summary.outcome = "called", summary.determination = "determinate",
             ~Unmakeable(w, s)
      PROVE  /\ Ends(end, steps, last)
             /\ VerdictIn(end) = Verdict("determinate", "called", last.reason, TRUE)
  <2>1. end = Ended(summary.determination, summary.outcome, steps, last, Diagnosed(code, "info"))
    BY <1>6 DEF ConditionsEnd, steps, decision, classified
  <2>2. Accounts(summary.determination, summary.outcome, last, Diagnosed(code, "info"))
    BY <1>6 DEF Accounts
  <2> QED BY <1>4, <1>6, <2>1, <2>2
<1>7. ASSUME summary.outcome = "called", Unmakeable(w, s)
      PROVE  /\ \E all, refusal : Ends(end, all, refusal)
             /\ VerdictIn(end) = Verdict("unsupported", NoOutcome, code, TRUE)
  <2> DEFINE reopened == [last EXCEPT !.terminal = FALSE]
             all == Append(steps, reopened)
             refusal == Step("dryRunSideEffects", "unsupported", code, TRUE)
  <2>1. end = Ended("unsupported", NoOutcome, all, refusal, Diagnosed(code, "warning"))
    BY <1>7 DEF ConditionsEnd, steps, decision, classified
  <2>2. ~reopened.terminal /\ ~reopened.pending /\ reopened.stage = "matchConditions"
    <3> HIDE DEF last
    <3> QED BY <1>2 DEF TraceStep
  <2>3. /\ refusal.terminal /\ ~refusal.pending /\ refusal.stage = "dryRunSideEffects"
        /\ refusal.reason = code
    BY DEF Step
  <2> HIDE DEF reopened, refusal
  <2>4. Rises(all, 7)
    <3>1. 7 \in 0..8 /\ 7 <= 7
      OBVIOUS
    <3>2. Rises(all, StageRank(reopened.stage))
      BY <1>3, <2>2, <3>1, AppendRises
    <3> QED BY <2>2, <3>2, StageRanks
  <2>5. /\ IsSequence(steps) /\ Len(all) = Len(steps) + 1
        /\ all[Len(steps) + 1] = reopened
        /\ \A k \in 1..Len(steps) : all[k] = steps[k]
    <3>1. IsSequence(steps)
      BY <1>3 DEF Rises
    <3> QED BY <3>1, AppendFacts
  <2> HIDE DEF all
  <2>6. Len(steps) \in Nat
    BY <2>5, SequenceFacts
  <2>7. Open(all) = {}
    <3>1. \A k \in 1..(Len(steps) + 1) : k \in 1..Len(steps) \/ k = Len(steps) + 1
      BY <2>6
    <3>2. \A k \in 1..(Len(steps) + 1) : ~all[k].pending
      BY <1>3, <2>2, <2>5, <3>1 DEF Open
    <3> QED BY <2>5, <3>2 DEF Open
  <2>8. Reaches(all, refusal)
    <3>1. Len(steps) + 1 \in 1..Len(all)
      BY <2>5, <2>6
    <3> QED BY <2>2, <2>5, <3>1 DEF Reaches
  <2>9. 7 < StageRank(refusal.stage) /\ 7 \in 0..8
    BY <2>3, StageRanks
  <2>10. /\ Settles(all, refusal)
         /\ Accounts("unsupported", NoOutcome, refusal, Diagnosed(code, "warning"))
    BY <2>3, <2>7 DEF Settles, Accounts
  <2>11. LET e == Ended("unsupported", NoOutcome, all, refusal, Diagnosed(code, "warning"))
         IN /\ Ends(e, all, refusal)
            /\ VerdictIn(e) = Verdict("unsupported", NoOutcome, refusal.reason, TRUE)
    BY <2>3, <2>4, <2>8, <2>9, <2>10, EndsAs
  <2> QED BY <2>1, <2>3, <2>11
<1>8. summary.determination = "determinate" \/ summary.outcome # "called"
  <2>1. decision \in {"call", "skip-false", "reject", "skip-error", "indeterminate",
                      "unsupported"}
    BY <1>1 DEF Decisions
  <2> QED BY <1>1, <2>1, SummaryFacts DEF NoOutcome
<1>9. \E all, final : Ends(end, all, final)
  <2> HIDE DEF summary, end, last
  <2> QED BY <1>5, <1>6, <1>7, <1>8
<1>10. VerdictIn(end) = ConditionsVerdict(w, s)
  <2> DEFINE verdict == ConditionsVerdict(w, s)
  <2> HIDE DEF end, last, summary
  <2>1. CASE SomeIsFalse(w, s)
    <3>1. decision = "skip-false"
      BY <2>1, ConditionsDecided DEF decision
    <3>2. /\ summary.determination = "determinate" /\ summary.outcome = "skipped"
          /\ last.reason = "MATCH_CONDITION_FALSE"
      BY <1>1, <3>1, SummaryFacts DEF summary, last
    <3>3. verdict = Verdict("determinate", "skipped", "MATCH_CONDITION_FALSE", TRUE)
      BY <2>1, VerdictOfConditions DEF Decided
    <3> QED BY <1>5, <3>2, <3>3
  <2>2. CASE ~SomeIsFalse(w, s) /\ Asks(w, s, "unsupported")
    <3>1. decision = "unsupported"
      BY <2>2, ConditionsDecided DEF decision
    <3>2. /\ summary.determination = "unsupported" /\ summary.outcome = NoOutcome
          /\ last.reason = code
      BY <1>1, <3>1, SummaryFacts DEF summary, last
    <3>3. verdict = Verdict("unsupported", NoOutcome, code, TRUE)
      BY <2>2, VerdictOfConditions DEF Unsupported
    <3> QED BY <1>5, <3>2, <3>3 DEF NoOutcome
  <2>3. CASE ~SomeIsFalse(w, s) /\ ~Asks(w, s, "unsupported") /\ Asks(w, s, "missing")
    <3>1. decision = "indeterminate"
      BY <2>3, ConditionsDecided DEF decision
    <3>2. /\ summary.determination = "indeterminate" /\ summary.outcome = NoOutcome
          /\ last.reason = "AUTHORIZATION_CONTEXT_MISSING"
      BY <1>1, <3>1, SummaryFacts DEF summary, last
    <3>3. verdict = Verdict("indeterminate", NoOutcome, "AUTHORIZATION_CONTEXT_MISSING", TRUE)
      BY <2>3, VerdictOfConditions DEF Undecided
    <3> QED BY <1>5, <3>2, <3>3 DEF NoOutcome
  <2>4. CASE /\ ~SomeIsFalse(w, s) /\ ~Asks(w, s, "unsupported") /\ ~Asks(w, s, "missing")
             /\ BrokenOf(w, s) # {}
    <3> DEFINE rejects == w.failurePolicy = "Fail"
               outcome == IF rejects THEN "rejected-before-call" ELSE "skipped"
               reason == BrokenReason(w, s, FirstBroken(BrokenOf(w, s)))
    <3>1. decision = IF rejects THEN "reject" ELSE "skip-error"
      BY <2>4, ConditionsDecided DEF decision
    <3>2. /\ summary.determination = "determinate" /\ summary.outcome = outcome
          /\ last.reason = ControllingReason(classified)
      <4>1. CASE rejects
        BY <1>1, <3>1, <4>1, SummaryFacts DEF summary, last
      <4>2. CASE ~rejects
        BY <1>1, <3>1, <4>2, SummaryFacts DEF summary, last
      <4> QED BY <4>1, <4>2
    <3>3. ControllingReason(classified) = reason
      BY <2>4, ControllingBroken DEF classified
    <3>4. verdict = Verdict("determinate", outcome, reason, TRUE)
      BY <2>4, VerdictOfConditions DEF Decided
    <3>5. outcome # "called"
      OBVIOUS
    <3> HIDE DEF outcome, reason, verdict
    <3>6. VerdictIn(end) = Verdict(summary.determination, summary.outcome, last.reason, TRUE)
      BY <1>5, <3>2, <3>5
    <3> QED BY <3>2, <3>3, <3>4, <3>6 DEF verdict
  <2>5. CASE /\ ~SomeIsFalse(w, s) /\ ~Asks(w, s, "unsupported") /\ ~Asks(w, s, "missing")
             /\ BrokenOf(w, s) = {}
    <3>1. decision = "call"
      BY <2>5, ConditionsDecided DEF decision
    <3>2. /\ summary.determination = "determinate" /\ summary.outcome = "called"
          /\ last.reason = "MATCH_CONDITIONS_TRUE"
      BY <1>1, <3>1, SummaryFacts DEF summary, last
    <3>3. CASE Unmakeable(w, s)
      <4>1. verdict = Verdict("unsupported", NoOutcome, code, TRUE)
        BY <2>5, <3>3, VerdictOfConditions DEF Unsupported
      <4> QED BY <1>7, <3>2, <3>3, <4>1
    <3>4. CASE ~Unmakeable(w, s)
      <4>1. verdict = Verdict("determinate", "called", "MATCH_CONDITIONS_TRUE", TRUE)
        BY <2>5, <3>4, VerdictOfConditions DEF Decided
      <4> QED BY <1>6, <3>2, <3>4, <4>1
    <3> QED BY <3>3, <3>4
  <2> QED BY <2>1, <2>2, <2>3, <2>4, <2>5
<1> QED BY <1>9, <1>10

(***************************************************************************)
(* The pipeline computes the verdict Dispatch states, and every evaluation *)
(* ends well.                                                              *)
(***************************************************************************)

LEMMA EvaluationConcludes ==
  ASSUME NEW w, WellFormedConditions(w), NEW s
  PROVE  /\ \E steps, last : Ends(EvaluationOf(w, s), steps, last)
         /\ VerdictIn(EvaluationOf(w, s)) = VerdictOf(w, s)
<1> DEFINE exempt == IsExemptAdmissionConfigurationResource(s.request)
           first == NamespaceOutcome(w, s)
           second == ObjectOutcome(w, s)
           controlling == IF first \in SelectorProblems THEN first ELSE second
           e == EvaluationOf(w, s)
           v == VerdictOf(w, s)
<1>1. \A determination, outcome, reason, reached :
        Concludes(e, determination, outcome, reason, reached)
          /\ v = Verdict(determination, outcome, reason, reached) =>
        (\E steps, last : Ends(e, steps, last)) /\ VerdictIn(e) = v
  BY DEF Concludes
<1>2. CASE exempt
  <2>1. e = Skipped(<<>>, Step("admissionConfigurationExemption", "no-match",
                               "ADMISSION_CONFIGURATION_EXCLUDED", TRUE))
    BY <1>2 DEF EvaluationOf
  <2>2. v = Verdict("determinate", "skipped", "ADMISSION_CONFIGURATION_EXCLUDED", FALSE)
    BY <1>2 DEF VerdictOf, Decided
  <2>3. Concludes(e, "determinate", "skipped", "ADMISSION_CONFIGURATION_EXCLUDED", FALSE)
    BY <2>1, SelectorsConclude
  <2> QED BY <1>1, <2>2, <2>3
<1>3. CASE ~exempt /\ first = "no-match"
  <2>1. e = Skipped(<<>>, ExcludedStep("namespaceSelector"))
    BY <1>3 DEF EvaluationOf
  <2>2. v = Verdict("determinate", "skipped", "NAMESPACE_SELECTOR_NO_MATCH", FALSE)
    BY <1>3 DEF VerdictOf, Decided, NamespaceOutcome
  <2>3. Concludes(e, "determinate", "skipped", "NAMESPACE_SELECTOR_NO_MATCH", FALSE)
    BY <2>1, SelectorsConclude
  <2> QED BY <1>1, <2>2, <2>3
<1>4. CASE ~exempt /\ first # "no-match" /\ second = "no-match"
  <2>1. e = Skipped(DiscardPending(Trace1(w, s), Problem1(w, s)), ExcludedStep("objectSelector"))
    BY <1>4 DEF EvaluationOf
  <2>2. v = Verdict("determinate", "skipped", "OBJECT_SELECTOR_NO_MATCH", FALSE)
    BY <1>4 DEF VerdictOf, Decided, NamespaceOutcome, ObjectOutcome
  <2>3. Concludes(e, "determinate", "skipped", "OBJECT_SELECTOR_NO_MATCH", FALSE)
    BY <1>4, <2>1, SelectorsConclude
  <2> QED BY <1>1, <2>2, <2>3
<1>5. CASE ~exempt /\ Unexcluded(w, s) /\ Rules(w, s) = "no-match"
  <2>1. e = NoMatchEnd(w, s)
    BY <1>5 DEF EvaluationOf, Unexcluded
  <2>2. v = Verdict("determinate", "skipped", "RULE_NO_MATCH", FALSE)
    BY <1>5 DEF VerdictOf, Decided, NamespaceOutcome, ObjectOutcome, Unexcluded
  <2>3. Concludes(e, "determinate", "skipped", "RULE_NO_MATCH", FALSE)
    BY <1>5, <2>1, NoMatchConcludes
  <2> QED BY <1>1, <2>2, <2>3
<1>6. CASE ~exempt /\ Unexcluded(w, s) /\ Rules(w, s) = "unknown"
  <2>1. e = UnknownEnd(w, s)
    BY <1>6 DEF EvaluationOf, Unexcluded
  <2>2. v = Verdict("indeterminate", NoOutcome, "EQUIVALENCE_CONTEXT_MISSING", FALSE)
    BY <1>6 DEF VerdictOf, Undecided, NamespaceOutcome, ObjectOutcome, Unexcluded
  <2>3. Concludes(e, "indeterminate", NoOutcome, "EQUIVALENCE_CONTEXT_MISSING", FALSE)
    BY <1>6, <2>1, UnknownConcludes
  <2> QED BY <1>1, <2>2, <2>3
<1>7. ASSUME ~exempt, Unexcluded(w, s), Rules(w, s) = "match"
      PROVE  v = IF controlling = "missing-context"
                 THEN Verdict("indeterminate", NoOutcome, "NAMESPACE_CONTEXT_MISSING", FALSE)
                 ELSE IF controlling = "evaluation-error"
                 THEN Verdict("determinate", "rejected-before-call",
                              "KUBERNETES_EVALUATION_ERROR", FALSE)
                 ELSE IF AttributesFail(s.request)
                 THEN Verdict("indeterminate", NoOutcome, "INTERNAL_ERROR", TRUE)
                 ELSE ConditionsVerdict(w, s)
  BY <1>7 DEF VerdictOf, Decided, Undecided, NamespaceOutcome, ObjectOutcome, Unexcluded,
              AttributesFail, Undecodable, Undecoded
<1>8. CASE ~exempt /\ Unexcluded(w, s) /\ Rules(w, s) = "match" /\ Deferred(w, s) # <<>>
  <2>1. e = ControlledEnd(w, s)
    BY <1>8 DEF EvaluationOf, Unexcluded
  <2>2. \/ /\ controlling = "missing-context"
           /\ Concludes(e, "indeterminate", NoOutcome, "NAMESPACE_CONTEXT_MISSING", FALSE)
        \/ /\ controlling = "evaluation-error"
           /\ Concludes(e, "determinate", "rejected-before-call", "KUBERNETES_EVALUATION_ERROR",
                        FALSE)
    BY <1>8, <2>1, ControlledConcludes
  <2> HIDE DEF e, v, controlling
  <2>3. (\E steps, last : Ends(e, steps, last)) /\ VerdictIn(e) = v
    BY <1>1, <1>7, <1>8, <2>2
  <2> QED BY <2>3 DEF e, v
<1>9. ASSUME Unexcluded(w, s), Deferred(w, s) = <<>>
      PROVE  controlling \notin {"missing-context", "evaluation-error"}
  BY <1>9, DeferredFacts
<1>10. CASE /\ ~exempt /\ Unexcluded(w, s) /\ Rules(w, s) = "match" /\ Deferred(w, s) = <<>>
            /\ AttributesFail(s.request)
  <2>1. e = UndecodedEnd(w, s)
    BY <1>10 DEF EvaluationOf, Unexcluded
  <2>2. Concludes(e, "indeterminate", NoOutcome, "INTERNAL_ERROR", TRUE)
    BY <1>10, <2>1, UndecodedConcludes
  <2>3. v = Verdict("indeterminate", NoOutcome, "INTERNAL_ERROR", TRUE)
    BY <1>7, <1>9, <1>10
  <2> QED BY <1>1, <2>2, <2>3
<1>11. CASE /\ ~exempt /\ Unexcluded(w, s) /\ Rules(w, s) = "match" /\ Deferred(w, s) = <<>>
            /\ ~AttributesFail(s.request)
  <2>1. e = ConditionsEnd(w, s)
    BY <1>11 DEF EvaluationOf, Unexcluded
  <2>2. v = ConditionsVerdict(w, s)
    BY <1>7, <1>9, <1>11
  <2> QED BY <1>11, <2>1, <2>2, ConditionsConclude
<1> HIDE DEF e, v
<1> QED BY <1>2, <1>3, <1>4, <1>5, <1>6, <1>8, <1>10, <1>11, RulesCases
          DEF Unexcluded, e, v

LEMMA ResultsConclude ==
  ASSUME FInv, NEW i \in DOMAIN results
  PROVE  /\ i \in DOMAIN snapshot.webhooks
         /\ results[i] = EvaluationOf(snapshot.webhooks[i], snapshot)
         /\ WellFormedConditions(snapshot.webhooks[i])
         /\ \E steps, last : Ends(results[i], steps, last)
         /\ VerdictIn(results[i]) = VerdictOf(snapshot.webhooks[i], snapshot)
<1> PICK w \in {snapshot.webhooks[i]}, s \in {snapshot} : TRUE
  OBVIOUS
<1>1. i \in DOMAIN s.webhooks /\ s \in Snapshots
  <2>1. snapshot \in Snapshots /\ results \in Seq(WebhookEvaluation)
          /\ Len(results) <= Len(snapshot.webhooks)
    BY DEF FInv, IInv, TypeOK
  <2>2. s.webhooks \in Seq({s.webhooks[k] : k \in DOMAIN s.webhooks})
    BY <2>1, SnapshotAssumption
  <2> QED BY <2>1, <2>2
<1>2. WellFormedConditions(w)
  BY <1>1, SnapshotWebhook
<1>3. results[i] = EvaluationOf(w, s)
  BY DEF FInv, ResultsDetermined
<1> QED BY <1>1, <1>2, <1>3, EvaluationConcludes

-------------------------------------------------------------------------------
(***************************************************************************)
(* What is said of the published results follows from how they end.        *)
(***************************************************************************)
LEMMA EndShape ==
  ASSUME NEW e, NEW steps, NEW last, Ends(e, steps, last)
  PROVE  LET n == Len(steps) IN
           /\ n \in Nat /\ DOMAIN e.trace = 1..(n + 1) /\ Len(e.trace) = n + 1
           /\ e.trace[n + 1] = last
           /\ \A k \in 1..n : e.trace[k] = steps[k]
           /\ TerminalSteps(e.trace) = {n + 1}
<1> DEFINE all == Append(steps, last)
           n == Len(steps)
<1>1. /\ IsSequence(all) /\ Len(all) = n + 1 /\ all[n + 1] = last
      /\ \A k \in 1..n : all[k] = steps[k]
  BY AppendFacts DEF Ends
<1>2. n \in Nat /\ DOMAIN all = 1..(n + 1)
  <2>1. IsSequence(steps)
    BY DEF Ends
  <2> QED BY <1>1, <2>1, SequenceFacts
<1>3. TerminalSteps(all) = {Len(all)}
  <2>1. IsSequence(steps) /\ last.terminal /\ \A k \in 1..Len(steps) : ~steps[k].terminal
    BY DEF Ends
  <2> QED BY <2>1, LastReason
<1>4. e.trace = all
  BY DEF Ends
<1> HIDE DEF all, n
<1> QED BY <1>1, <1>2, <1>3, <1>4 DEF n

LEMMA EndInOrder ==
  ASSUME NEW e, NEW steps, NEW last, Ends(e, steps, last)
  PROVE  /\ TerminalSteps(e.trace) = {Len(e.trace)}
         /\ \A a, b \in DOMAIN e.trace :
              a < b => Before(e.trace[a].stage, e.trace[b].stage)
<1> DEFINE n == Len(steps)
           all == e.trace
<1>1. /\ n \in Nat /\ DOMAIN all = 1..(n + 1) /\ Len(all) = n + 1 /\ all[n + 1] = last
      /\ \A k \in 1..n : all[k] = steps[k]
      /\ TerminalSteps(all) = {n + 1}
  BY EndShape
<1>2. /\ \A k \in 1..n : Before(steps[k].stage, last.stage)
      /\ \A j, k \in 1..n : j < k => Before(steps[j].stage, steps[k].stage)
  BY DEF Ends
<1> HIDE DEF all, n
<1>3. ASSUME NEW a \in DOMAIN all, NEW b \in DOMAIN all, a < b
      PROVE  Before(all[a].stage, all[b].stage)
  <2>1. a \in 1..n /\ (b \in 1..n \/ b = n + 1)
    BY <1>1, <1>3
  <2>2. CASE b \in 1..n
    <3>1. all[a] = steps[a] /\ all[b] = steps[b]
      BY <1>1, <2>1, <2>2
    <3> QED BY <1>2, <1>3, <2>1, <2>2, <3>1
  <2>3. CASE b = n + 1
    <3>1. all[a] = steps[a] /\ all[b] = last
      BY <1>1, <2>1, <2>3
    <3> QED BY <1>2, <2>1, <3>1
  <2> QED BY <2>1, <2>2, <2>3
<1> QED BY <1>1, <1>3 DEF all

(***************************************************************************)
(* Whatever excluded, decided or deferred it, a Webhook's trace is ended   *)
(* by its only terminal step and reads in the order of the pipeline        *)
(* (sequenceTrace, resequence, markDryRunUnsupported).                     *)
(***************************************************************************)
THEOREM TracesInOrder == Spec => []TraceInOrder
<1>1. FInv => TraceInOrder
  <2> SUFFICES ASSUME FInv, NEW i \in DOMAIN results
               PROVE  /\ TerminalSteps(results[i].trace) = {Len(results[i].trace)}
                      /\ \A a, b \in DOMAIN results[i].trace :
                           a < b => Before(results[i].trace[a].stage, results[i].trace[b].stage)
    BY DEF TraceInOrder, Before
  <2> PICK e \in {results[i]} : TRUE
    OBVIOUS
  <2>1. \E steps, last : Ends(e, steps, last)
    BY ResultsConclude
  <2> QED BY <2>1, EndInOrder
<1> QED
  BY <1>1, EvaluationDetermined, PTL

LEMMA EndSettled ==
  ASSUME NEW e, NEW steps, NEW last, Ends(e, steps, last)
  PROVE  LET all == e.trace
             final == all[Len(all)]
             open == {k \in DOMAIN all : all[k].pending}
         IN \/ open = {}
            \/ final.stage = "equivalentRules" /\ final.result = "indeterminate"
            \/ \E k \in open : /\ open = {k}
                               /\ final.stage = ProblemStage(all[k].stage)
                               /\ final.result = all[k].result
                               /\ \A j \in 1..(k - 1) : ~all[j].discarded
<1> DEFINE n == Len(steps)
           all == e.trace
           open == {k \in DOMAIN all : all[k].pending}
<1>1. /\ n \in Nat /\ DOMAIN all = 1..(n + 1) /\ Len(all) = n + 1 /\ all[n + 1] = last
      /\ \A k \in 1..n : all[k] = steps[k]
  BY EndShape
<1>2. Settles(steps, last) /\ ~last.pending
  BY DEF Ends
<1>3. Open(steps) = {k \in 1..n : steps[k].pending}
  BY DEF Open
<1> HIDE DEF all, n
<1>4. \A k \in 1..(n + 1) : k \in 1..n \/ k = n + 1
  BY <1>1
<1>5. \A k \in 1..n : k \in 1..(n + 1)
  BY <1>1
<1>6. open = Open(steps)
  BY <1>1, <1>2, <1>3, <1>4, <1>5
<1>7. ASSUME NEW k \in Open(steps)
      PROVE  /\ all[k] = steps[k]
             /\ \A j \in 1..(k - 1) : all[j] = steps[j]
  <2>1. k \in 1..n
    BY <1>3
  <2>2. \A j \in 1..(k - 1) : j \in 1..n
    BY <1>1, <2>1
  <2> QED BY <1>1, <2>1, <2>2
<1>8. all[Len(all)] = last
  BY <1>1
<1> HIDE DEF open
<1>9. CASE \E k \in Open(steps) : /\ Open(steps) = {k}
                                  /\ last.stage = ProblemStage(steps[k].stage)
                                  /\ last.result = steps[k].result
                                  /\ \A j \in 1..(k - 1) : ~steps[j].discarded
  <2>1. PICK k \in Open(steps) : /\ Open(steps) = {k}
                                 /\ last.stage = ProblemStage(steps[k].stage)
                                 /\ last.result = steps[k].result
                                 /\ \A j \in 1..(k - 1) : ~steps[j].discarded
    BY <1>9
  <2>2. /\ last.stage = ProblemStage(all[k].stage) /\ last.result = all[k].result
        /\ \A j \in 1..(k - 1) : ~all[j].discarded
    BY <1>7, <2>1
  <2> QED BY <1>6, <1>8, <2>1, <2>2 DEF open, all
<1> QED BY <1>2, <1>6, <1>8, <1>9 DEF Settles, open, all

(***************************************************************************)
(* No selector problem is left pending by accident: the Webhook was        *)
(* excluded and the problem discarded, or it ends with the problem, or the *)
(* rules themselves were left open (discardPending, applicableResult).     *)
(***************************************************************************)
THEOREM ProblemsSettled == Spec => []PendingSettled
<1>1. FInv => PendingSettled
  <2>1. ASSUME FInv, NEW i \in DOMAIN results
        PROVE  \E steps, last : Ends(results[i], steps, last)
    BY <2>1, ResultsConclude
  <2> QED BY <2>1, EndSettled DEF PendingSettled
<1> QED
  BY <1>1, EvaluationDetermined, PTL

(***************************************************************************)
(* A Webhook that is rejected or left undetermined says why, by one        *)
(* diagnostic with the reason of its last step (completeProblem,           *)
(* terminalReason, markDryRunUnsupported).                                 *)
(***************************************************************************)
THEOREM ProblemsExplained == Spec => []ProblemsDiagnosed
<1>1. ASSUME NEW e, NEW steps, NEW last, Ends(e, steps, last),
             e.determination # "determinate" \/ e.outcome = "rejected-before-call"
      PROVE  /\ Len(e.diagnostics) = 1
             /\ e.diagnostics[1].code = e.trace[Len(e.trace)].reason
             /\ e.diagnostics[1].severity # "info"
  <2>1. PICK severity \in {"warning", "error"} : e.diagnostics = Diagnosed(last.reason, severity)
    BY <1>1 DEF Ends, Accounts
  <2>2. e.trace[Len(e.trace)] = last
    BY <1>1, EndShape
  <2>3. severity # "info"
    OBVIOUS
  <2>4. ASSUME NEW code PROVE /\ Len(Diagnosed(code, severity)) = 1
                              /\ Diagnosed(code, severity)[1].code = code
                              /\ Diagnosed(code, severity)[1].severity = severity
    BY DEF Diagnosed
  <2> QED BY <2>1, <2>2, <2>3, <2>4
<1>2. FInv => ProblemsDiagnosed
  <2>1. ASSUME FInv, NEW i \in DOMAIN results
        PROVE  \E steps, last : Ends(results[i], steps, last)
    BY <2>1, ResultsConclude
  <2> QED BY <1>1, <2>1 DEF ProblemsDiagnosed
<1> QED
  BY <1>2, EvaluationDetermined, PTL

-------------------------------------------------------------------------------
(***************************************************************************)
(* The refinement: a step of the pipeline pronounces on one Webhook, or    *)
(* changes nothing Dispatch looks at.                                      *)
(***************************************************************************)
LEMMA SameVerdict ==
  ASSUME NEW w, NEW s
  PROVE  D!VerdictOf(w, s) = VerdictOf(w, s)
BY Zenon
  DEF D!VerdictOf, VerdictOf, D!Undecoded, Undecoded, D!ConditionsVerdict, ConditionsVerdict,
      D!BrokenReason, BrokenReason, D!FirstBroken, FirstBroken, D!Completed, Completed,
      D!Stopping, Stopping, D!Spent, Spent, D!InvocationKind, InvocationKind, D!Rules, Rules,
      D!Verdict, Verdict, D!Decided, Decided, D!Undecided, Undecided,
      D!Unsupported, Unsupported, D!ConditionCost, ConditionCost, D!Asked, Asked,
      D!Allowed, Allowed, D!Authorize, Authorize, D!AuthorizationErrors, AuthorizationErrors,
      D!RecordedErrors, RecordedErrors, D!Holds, Holds, D!Cardinality, Cardinality,
      D!EquivalentInvocation, EquivalentInvocation, D!EquivalentMatches, EquivalentMatches,
      D!Precedes, Precedes, D!CandidateMatches, CandidateMatches,
      D!RequestReference, RequestReference, D!MatchExactRules, MatchExactRules,
      D!ExactRuleMatches, ExactRuleMatches, D!Covers, Covers, D!ScopeMatches, ScopeMatches,
      D!NamespaceGVR, NamespaceGVR, D!MatchObjectSelector, MatchObjectSelector,
      D!PayloadMatches, PayloadMatches, D!MatchNamespaceSelector, MatchNamespaceSelector,
      D!EmptySelector, EmptySelector, D!MatchOutcome, MatchOutcome,
      D!SelectorProblems, SelectorProblems, D!NamespaceContextFor, NamespaceContextFor,
      D!NamespaceFixtureLookupName, NamespaceFixtureLookupName,
      D!NamespaceContextModeFor, NamespaceContextModeFor,
      D!IsNamespaceResource, IsNamespaceResource,
      D!IsExemptAdmissionConfigurationResource, IsExemptAdmissionConfigurationResource,
      D!NoOutcome, NoOutcome

LEMMA StepsAppend ==
  ASSUME [Next]_vars
  PROVE  snapshot' = snapshot /\ (results' = results \/ \E e : results' = Append(results, e))
<1>1. \A e : Finish(e) => snapshot' = snapshot /\ \E x : results' = Append(results, x)
  BY Zenon DEF Finish, FinishBy
<1> DEFINE goal == snapshot' = snapshot
                     /\ (results' = results \/ \E e : results' = Append(results, e))
<1>2. CASE CheckExemption
  BY Zenon, <1>1, <1>2 DEF CheckExemption, SkipExempt, SkippedResult, StartPipeline
<1>3. ASSUME NEW selector, NEW outcome, NEW next, EvaluateSelector(selector, outcome, next)
      PROVE  goal
  BY Zenon, <1>1, <1>3
     DEF EvaluateSelector, SelectorMatched, SelectorDeferred, SelectorExcluded, SkippedResult
<1>4. CASE EvaluateNamespaceSelector
  BY Zenon, <1>3, <1>4 DEF EvaluateNamespaceSelector
<1>5. CASE EvaluateObjectSelector
  BY Zenon, <1>3, <1>5 DEF EvaluateObjectSelector
<1>6. ASSUME NEW steps, NEW invocationKind, Applicable(steps, invocationKind)
      PROVE  goal
  <2>1. ASSUME NEW all, NEW err, CompleteProblem(all, err) PROVE goal
    BY Zenon, <1>1, <2>1 DEF CompleteProblem
  <2>2. CASE pending = <<>>
    BY <1>6, <2>2 DEF Applicable
  <2>3. CASE pending # <<>>
    <3>1. \E all, err : CompleteProblem(all, err)
      BY Zenon, <1>6, <2>3 DEF Applicable
    <3> QED BY <2>1, <3>1
  <2> QED BY <2>2, <2>3
<1>7. ASSUME NEW ruleStage, RulesExcluded(ruleStage) PROVE goal
  BY Zenon, <1>1, <1>7 DEF RulesExcluded, SkippedResult
<1>8. CASE EvaluateExactRules
  BY Zenon, <1>6, <1>7, <1>8 DEF EvaluateExactRules
<1>9. CASE EvaluateEquivalentRules
  <2>1. CASE EquivalenceMissing
    BY Zenon, <1>1, <2>1 DEF EquivalenceMissing, CompleteProblem
  <2>2. \/ EquivalenceMissing
        \/ RulesExcluded("equivalentRules")
        \/ \E steps, invocationKind : Applicable(steps, invocationKind)
    BY Zenon, <1>9 DEF EvaluateEquivalentRules
  <2> QED BY <1>6, <1>7, <2>1, <2>2
<1>10. CASE StartMatchConditions
  BY Zenon, <1>1, <1>10 DEF StartMatchConditions, StartMatchConditionsWith
<1>11. CASE EvaluateCondition
  BY <1>11 DEF EvaluateCondition
<1>12. CASE ReduceConditions
  <2>1. \E e : Finish(e)
    BY Zenon, <1>12 DEF ReduceConditions
  <2> QED BY <1>1, <2>1
<1>13. CASE UNCHANGED vars
  BY <1>13 DEF vars
<1> QED
  BY <1>2, <1>4, <1>5, <1>8, <1>9, <1>10, <1>11, <1>12, <1>13 DEF Next

LEMMA VerdictsAppend ==
  ASSUME NEW done, IsSequence(done), NEW e
  PROVE  LET verdicts(all) == [i \in DOMAIN all |-> VerdictIn(all[i])]
         IN /\ IsSequence(verdicts(done)) /\ Len(verdicts(done)) = Len(done)
            /\ verdicts(Append(done, e)) = Append(verdicts(done), VerdictIn(e))
<1> DEFINE all == Append(done, e)
           n == Len(done)
           old == [i \in DOMAIN done |-> VerdictIn(done[i])]
           new == [i \in DOMAIN all |-> VerdictIn(all[i])]
           v == VerdictIn(e)
           both == Append(old, v)
<1>1. /\ IsSequence(all) /\ Len(all) = n + 1 /\ all[n + 1] = e
      /\ \A i \in 1..n : all[i] = done[i]
  BY AppendFacts
<1>2. n \in Nat /\ DOMAIN done = 1..n /\ DOMAIN all = 1..(n + 1)
  BY <1>1, SequenceFacts
<1> HIDE DEF all, n, v
<1>3. /\ \A i \in 1..n : old[i] = VerdictIn(done[i])
      /\ \A i \in 1..(n + 1) : new[i] = VerdictIn(all[i])
      /\ old = [i \in 1..n |-> old[i]] /\ new = [i \in 1..(n + 1) |-> new[i]]
  BY <1>2
<1> HIDE DEF old, new
<1>4. IsSequence(old) /\ Len(old) = n
  BY <1>2, <1>3, TableIsSequence
<1>5. /\ IsSequence(both) /\ Len(both) = n + 1 /\ both[n + 1] = v
      /\ \A i \in 1..n : both[i] = old[i]
  <2>1. /\ IsSequence(both) /\ Len(both) = Len(old) + 1 /\ both[Len(old) + 1] = v
        /\ \A i \in 1..Len(old) : both[i] = old[i]
    BY <1>4, AppendFacts
  <2> HIDE DEF both
  <2> QED BY <1>4, <2>1
<1> HIDE DEF both
<1>6. both = [i \in 1..(n + 1) |-> both[i]]
  BY <1>5, SequenceFacts
<1>7. ASSUME NEW i \in 1..(n + 1) PROVE new[i] = both[i]
  <2>1. CASE i = n + 1
    BY <1>1, <1>3, <1>5, <2>1 DEF v
  <2>2. CASE i # n + 1
    <3>1. i \in 1..n
      BY <1>2, <2>2
    <3>2. new[i] = VerdictIn(all[i]) /\ all[i] = done[i]
      BY <1>1, <1>3, <3>1
    <3> QED BY <1>3, <1>5, <3>1, <3>2
  <2> QED BY <2>1, <2>2
<1>8. new = both
  BY <1>3, <1>6, <1>7
<1> QED BY <1>4, <1>8 DEF n, old, new, both, v, all

LEMMA PipelinePronounces ==
  ASSUME FInv, FInv', [Next]_vars
  PROVE  [D!Next]_<<snapshot, [i \in DOMAIN results |-> VerdictIn(results[i])]>>
<1> DEFINE verdicts == [i \in DOMAIN results |-> VerdictIn(results[i])]
           n == Len(results)
<1>1. results' = results \/ \E e : results' = Append(results, e)
  BY StepsAppend
<1>2. snapshot' = snapshot
  BY StepsAppend
<1>3. CASE results' = results
  BY <1>2, <1>3
<1>4. CASE \E e : results' = Append(results, e)
  <2>1. PICK e : results' = Append(results, e)
    BY <1>4
  <2>2. IsSequence(results)
    <3>1. results \in Seq(WebhookEvaluation)
      BY DEF FInv, IInv, TypeOK
    <3> QED BY <3>1, SequenceOf
  <2>3. /\ Len(results') = n + 1 /\ results'[n + 1] = e /\ n \in Nat
        /\ DOMAIN results' = 1..(n + 1)
    <3>1. IsSequence(results') /\ Len(results') = n + 1 /\ results'[n + 1] = e
      BY <2>1, <2>2, AppendFacts
    <3>2. n \in Nat /\ DOMAIN results' = 1..Len(results')
      BY <2>2, <3>1, SequenceFacts
    <3> QED BY <3>1, <3>2
  <2>4. VerdictIn(e) = VerdictOf(snapshot.webhooks[n + 1], snapshot)
    <3> PICK s \in {snapshot} : TRUE
      OBVIOUS
    <3>1. results'[n + 1] = EvaluationOf(s.webhooks[n + 1], s)
      <4>1. \A i \in DOMAIN results' : results'[i] = EvaluationOf(snapshot'.webhooks[i], snapshot')
        BY DEF FInv, ResultsDetermined
      <4>2. n + 1 \in DOMAIN results'
        BY <2>3
      <4> QED BY <1>2, <4>1, <4>2
    <3>2. WellFormedConditions(s.webhooks[n + 1])
      <4>1. s \in Snapshots /\ Len(results') <= Len(s.webhooks)
        BY <1>2 DEF FInv, IInv, TypeOK
      <4>2. s.webhooks \in Seq({s.webhooks[k] : k \in DOMAIN s.webhooks})
        BY <4>1, SnapshotAssumption
      <4>3. n + 1 \in DOMAIN s.webhooks
        BY <2>3, <4>1, <4>2
      <4> QED BY <4>1, <4>3, SnapshotWebhook
    <3> QED BY <2>3, <3>1, <3>2, EvaluationConcludes
  <2>5. n < Len(snapshot.webhooks)
    <3>1. snapshot \in Snapshots /\ Len(results') <= Len(snapshot.webhooks)
      BY <1>2 DEF FInv, IInv, TypeOK
    <3>2. Len(snapshot.webhooks) \in Nat
      BY <3>1, SnapshotAssumption
    <3> QED BY <2>3, <3>1, <3>2
  <2>6. /\ Len(verdicts) = n
        /\ [i \in DOMAIN results' |-> VerdictIn(results'[i])] = Append(verdicts, VerdictIn(e))
    BY <2>1, <2>2, VerdictsAppend
  <2>7. VerdictIn(e) = D!VerdictOf(snapshot.webhooks[n + 1], snapshot)
    BY <2>4, SameVerdict
  <2>8. D!Next
    <3> HIDE DEF n, verdicts
    <3> QED BY <1>2, <2>5, <2>6, <2>7 DEF D!Next, D!Pronounce, verdicts
  <2> QED BY <2>8
<1> QED BY <1>1, <1>3, <1>4

(***************************************************************************)
(* The pipeline implements Dispatch: the Webhooks get the verdict stated   *)
(* for them, one after the other and in configuration order, whatever the  *)
(* pipeline deferred, discarded or reduced on the way (Evaluator.Evaluate, *)
(* docs/product/reference.md).                                             *)
(***************************************************************************)
THEOREM DispatchImplemented == Spec => ImplementsDispatch
<1>1. Init => D!Init
  <2> SUFFICES ASSUME Init PROVE D!Init
    OBVIOUS
  <2>1. [i \in DOMAIN <<>> |-> VerdictIn(<<>>[i])] = <<>>
    BY EmptySequence
  <2> QED BY <2>1 DEF Init, D!Init
<1>2. FInv /\ FInv' /\ [Next]_vars
        => [D!Next]_<<snapshot, [i \in DOMAIN results |-> VerdictIn(results[i])]>>
  BY PipelinePronounces
<1> QED
  BY <1>1, <1>2, EvaluationDetermined, PTL DEF Spec, ImplementsDispatch, D!Spec

-------------------------------------------------------------------------------
(***************************************************************************)
(* What the failure policy changes: two Webhooks that differ in it alone   *)
(* are evaluated alike up to the decision on their conditions.             *)
(***************************************************************************)
SameRouting(w, v) ==
  /\ SameSelection(w, v)
  /\ v.matchConditions = w.matchConditions /\ v.sideEffects = w.sideEffects

LEMMA PolicyNotRouted ==
  ASSUME NEW w, NEW v, SameRouting(w, v), NEW s
  PROVE  /\ NamespaceOutcome(v, s) = NamespaceOutcome(w, s)
         /\ ObjectOutcome(v, s) = ObjectOutcome(w, s)
         /\ Rules(v, s) = Rules(w, s)
         /\ MatchExactRules(v, s.request) = MatchExactRules(w, s.request)
         /\ Problem1(v, s) = Problem1(w, s) /\ Deferred(v, s) = Deferred(w, s)
         /\ Trace1(v, s) = Trace1(w, s) /\ Trace2(v, s) = Trace2(w, s)
         /\ Trace3(v, s) = Trace3(w, s) /\ RulesTrace(v, s) = RulesTrace(w, s)
         /\ InvocationKind(v, s) = InvocationKind(w, s)
<1>1. /\ NamespaceOutcome(v, s) = NamespaceOutcome(w, s)
      /\ ObjectOutcome(v, s) = ObjectOutcome(w, s)
      /\ Rules(v, s) = Rules(w, s)
      /\ MatchExactRules(v, s.request) = MatchExactRules(w, s.request)
      /\ InvocationKind(v, s) = InvocationKind(w, s)
  BY SelectedAlike DEF SameRouting
<1>2. Problem1(v, s) = Problem1(w, s)
  BY <1>1 DEF Problem1
<1>3. Deferred(v, s) = Deferred(w, s)
  BY <1>1, <1>2 DEF Deferred
<1>4. Trace1(v, s) = Trace1(w, s)
  BY <1>1 DEF Trace1
<1>5. Trace2(v, s) = Trace2(w, s)
  BY <1>1, <1>4 DEF Trace2
<1>6. Trace3(v, s) = Trace3(w, s)
  BY <1>1, <1>5 DEF Trace3
<1>7. RulesTrace(v, s) = RulesTrace(w, s)
  BY <1>1, <1>6 DEF RulesTrace
<1> QED BY <1>1, <1>2, <1>3, <1>4, <1>5, <1>6, <1>7

LEMMA PolicyNotReported ==
  ASSUME NEW w, NEW v, SameRouting(w, v), NEW s
  PROVE  /\ Reports(v, s) = Reports(w, s) /\ Overruns(v, s) = Overruns(w, s)
         /\ ReportSteps(v, s) = ReportSteps(w, s)
<1>0. v.matchConditions = w.matchConditions
  BY DEF SameRouting
<1>1. Spent(v, s) = Spent(w, s)
  BY <1>0 DEF Spent
<1>2. Stopping(v, s) = Stopping(w, s)
  BY <1>0, <1>1 DEF Stopping
<1>3. Seen(v, s) = Seen(w, s)
  BY <1>0, <1>2 DEF Seen
<1>4. \A k : Report(v, s, k) = Report(w, s, k)
  BY <1>0, <1>1, PolicyNotRouted DEF Report, Left
<1>5. Reports(v, s) = Reports(w, s)
  BY <1>3, <1>4 DEF Reports
<1>6. ReportSteps(v, s) = ReportSteps(w, s)
  BY <1>5, PolicyNotRouted DEF ReportSteps
<1> QED BY <1>2, <1>5, <1>6 DEF Overruns

Overruled(fail, ignore) ==
  \E steps, last, diagnostics :
    /\ fail = Ended("determinate", "rejected-before-call", steps, last, diagnostics)
    /\ ignore = Ended("determinate", "skipped", steps, last, diagnostics)
    /\ IsSequence(steps) /\ last.stage = "matchConditions" /\ last.result = "error"

LEMMA PolicyDecides ==
  ASSUME NEW w, NEW v, SameRouting(w, v), NEW s, WellFormedConditions(w),
         Unexcluded(w, s), Deferred(w, s) = <<>>,
         w.failurePolicy = "Fail", v.failurePolicy = "Ignore"
  PROVE  ConditionsEnd(v, s) = ConditionsEnd(w, s)
           \/ Overruled(ConditionsEnd(w, s), ConditionsEnd(v, s))
<1> DEFINE reports == Reports(w, s)
           classified == ClassifyAll(reports)
           over == Overruns(w, s)
           fail == DecisionOf(w, s)
           ignore == DecisionOf(v, s)
           steps == ReportSteps(w, s)
<1>1. /\ fail = PreserveAuthorizationContext(Decide(reports, over, "Fail"), classified)
      /\ ignore = PreserveAuthorizationContext(Decide(reports, over, "Ignore"), classified)
  BY PolicyNotReported DEF DecisionOf
<1>2. \/ Decide(reports, over, "Fail") = Decide(reports, over, "Ignore")
      \/ /\ Decide(reports, over, "Fail") = "reject"
         /\ Decide(reports, over, "Ignore") = "skip-error"
  BY Zenon DEF Decide, ByMatcher, Match
<1> HIDE DEF reports, classified, over, fail, ignore, steps
<1>3. fail = ignore \/ (fail = "reject" /\ ignore = "skip-error")
  BY <1>1, <1>2 DEF PreserveAuthorizationContext
<1>4. Unmakeable(v, s) = Unmakeable(w, s)
  BY DEF Unmakeable, SameRouting
<1>5. ReportSteps(v, s) = steps /\ ClassifyAll(Reports(v, s)) = classified
        /\ ReportSteps(w, s) = steps /\ ClassifyAll(Reports(w, s)) = classified
  BY PolicyNotReported DEF steps, classified, reports
<1>6. CASE fail = ignore
  BY Zenon, <1>4, <1>5, <1>6 DEF ConditionsEnd, fail, ignore
<1>7. CASE fail = "reject" /\ ignore = "skip-error"
  <2> DEFINE rejected == Summary("reject", classified)
             skipped == Summary("skip-error", classified)
             last == rejected.step
             diagnostics == ConditionDiagnostics(rejected)
             told == Step("matchConditions", "error", ControllingReason(classified), TRUE)
  <2>1. /\ rejected = [determination |-> "determinate", outcome |-> "rejected-before-call",
                       step |-> told]
        /\ skipped = [determination |-> "determinate", outcome |-> "skipped", step |-> told]
    BY DEF Summary
  <2>2. /\ rejected.determination = "determinate" /\ rejected.outcome = "rejected-before-call"
        /\ skipped.determination = "determinate" /\ skipped.outcome = "skipped"
        /\ skipped.step = last
        /\ last.stage = "matchConditions" /\ last.result = "error"
    <3>1. "reject" \in Decisions /\ "skip-error" \in Decisions
      BY DEF Decisions
    <3>2. skipped.step = last
      <4> HIDE DEF rejected, skipped, told
      <4>1. rejected.step = told /\ skipped.step = told
        BY <2>1
      <4> QED BY <4>1
    <3> QED BY <3>1, <3>2, SummaryFacts
  <2>3. ConditionDiagnostics(skipped) = diagnostics
    BY <2>2 DEF ConditionDiagnostics
  <2> HIDE DEF rejected, skipped, last, diagnostics
  <2>4. ConditionsEnd(w, s)
          = Ended("determinate", "rejected-before-call", steps, last, diagnostics)
    <3>1. Summary(DecisionOf(w, s), ClassifyAll(Reports(w, s))) = rejected
      BY <1>5, <1>7 DEF fail, rejected
    <3>2. ConditionsEnd(w, s) = Ended(rejected.determination, rejected.outcome, steps,
                                      rejected.step, ConditionDiagnostics(rejected))
      BY <1>5, <2>2, <3>1 DEF ConditionsEnd
    <3> QED BY <2>2, <3>2 DEF last, diagnostics
  <2>5. ConditionsEnd(v, s) = Ended("determinate", "skipped", steps, last, diagnostics)
    <3>1. Summary(DecisionOf(v, s), ClassifyAll(Reports(v, s))) = skipped
      BY <1>5, <1>7 DEF ignore, skipped
    <3>2. ConditionsEnd(v, s) = Ended(skipped.determination, skipped.outcome, steps,
                                      skipped.step, ConditionDiagnostics(skipped))
      BY <1>5, <2>2, <3>1 DEF ConditionsEnd
    <3> QED BY <2>2, <2>3, <3>2
  <2>6. IsSequence(steps)
    BY ReportStepsRise DEF Rises, steps
  <2> QED BY <2>2, <2>4, <2>5, <2>6 DEF Overruled
<1> QED BY <1>3, <1>6, <1>7

LEMMA PolicyAlone ==
  ASSUME NEW w, NEW v, SameRouting(w, v), NEW s, WellFormedConditions(w),
         w.failurePolicy = "Fail", v.failurePolicy = "Ignore"
  PROVE  EvaluationOf(v, s) = EvaluationOf(w, s)
           \/ Overruled(EvaluationOf(w, s), EvaluationOf(v, s))
<1> DEFINE exempt == IsExemptAdmissionConfigurationResource(s.request)
           reached == /\ ~exempt /\ Unexcluded(w, s) /\ Rules(w, s) = "match"
                      /\ Deferred(w, s) = <<>> /\ ~AttributesFail(s.request)
<1>1. NoMatchEnd(v, s) = NoMatchEnd(w, s)
  <2>1. v.matchPolicy = w.matchPolicy
    BY DEF SameRouting, SameSelection
  <2> QED BY <2>1, PolicyNotRouted DEF NoMatchEnd
<1>2. UnknownEnd(v, s) = UnknownEnd(w, s)
  BY PolicyNotRouted DEF UnknownEnd
<1>3. ControlledEnd(v, s) = ControlledEnd(w, s)
  BY PolicyNotRouted DEF ControlledEnd
<1>4. UndecodedEnd(v, s) = UndecodedEnd(w, s)
  BY PolicyNotRouted DEF UndecodedEnd
<1>5. /\ NamespaceOutcome(v, s) = NamespaceOutcome(w, s)
      /\ ObjectOutcome(v, s) = ObjectOutcome(w, s)
      /\ Rules(v, s) = Rules(w, s) /\ Deferred(v, s) = Deferred(w, s)
      /\ Trace1(v, s) = Trace1(w, s) /\ Problem1(v, s) = Problem1(w, s)
  BY PolicyNotRouted
<1>6. CASE reached
  <2>1. EvaluationOf(w, s) = ConditionsEnd(w, s)
    BY <1>6 DEF EvaluationOf, Unexcluded
  <2>2. EvaluationOf(v, s) = ConditionsEnd(v, s)
    BY <1>5, <1>6 DEF EvaluationOf, Unexcluded
  <2> QED BY <1>6, <2>1, <2>2, PolicyDecides
<1>7. CASE ~reached
  <2>1. CASE exempt
    BY <2>1 DEF EvaluationOf
  <2>2. CASE ~exempt /\ ~Unexcluded(w, s)
    BY <1>5, <2>2 DEF EvaluationOf, Unexcluded
  <2>3. CASE ~exempt /\ Unexcluded(w, s)
    BY <1>1, <1>2, <1>3, <1>4, <1>5, <1>7, <2>3, RulesCases DEF EvaluationOf, Unexcluded
  <2> QED BY <2>1, <2>2, <2>3
<1> QED BY <1>6, <1>7

LEMMA OverruledFacts ==
  ASSUME NEW fail, NEW ignore, Overruled(fail, ignore)
  PROVE  /\ fail.determination = ignore.determination /\ fail.trace = ignore.trace
         /\ fail.outcome = "rejected-before-call" /\ ignore.outcome = "skipped"
         /\ fail.trace[Len(fail.trace)].stage = "matchConditions"
         /\ fail.trace[Len(fail.trace)].result = "error"
<1>1. PICK steps, last, diagnostics :
        /\ fail = Ended("determinate", "rejected-before-call", steps, last, diagnostics)
        /\ ignore = Ended("determinate", "skipped", steps, last, diagnostics)
        /\ IsSequence(steps) /\ last.stage = "matchConditions" /\ last.result = "error"
  BY DEF Overruled
<1> DEFINE all == Append(steps, last)
<1>2. /\ fail.determination = "determinate" /\ ignore.determination = "determinate"
      /\ fail.outcome = "rejected-before-call" /\ ignore.outcome = "skipped"
      /\ fail.trace = all /\ ignore.trace = all
  BY <1>1, EndedFacts
<1>3. Len(all) = Len(steps) + 1 /\ all[Len(steps) + 1] = last
  BY <1>1, AppendFacts
<1> HIDE DEF all
<1>4. fail.trace[Len(fail.trace)] = last
  BY <1>2, <1>3
<1>5. last.stage = "matchConditions" /\ last.result = "error"
  BY <1>1
<1> QED BY <1>2, <1>4, <1>5

(***************************************************************************)
(* Between Fail and Ignore nothing changes but the outcome of a Webhook    *)
(* whose conditions end in an error: a selector that cannot be evaluated,  *)
(* a missing fixture or a call that cannot be made give the same           *)
(* evaluation under both (Matcher.Match, completeProblem).                 *)
(***************************************************************************)
THEOREM PolicyContained == Spec => []PolicyDecidesConditionProblemsOnly
<1>1. FInv => PolicyDecidesConditionProblemsOnly
  <2> SUFFICES ASSUME FInv, NEW i \in DOMAIN results, NEW j \in DOMAIN results,
                      snapshot.webhooks[i].failurePolicy = "Fail",
                      snapshot.webhooks[j]
                        = [snapshot.webhooks[i] EXCEPT !.failurePolicy = "Ignore"]
               PROVE  LET fail == results[i]
                          ignore == results[j]
                          last == fail.trace[Len(fail.trace)]
                      IN /\ fail.determination = ignore.determination
                         /\ fail.trace = ignore.trace
                         /\ fail.outcome # ignore.outcome =>
                              /\ fail.outcome = "rejected-before-call"
                              /\ ignore.outcome = "skipped"
                              /\ last.stage = "matchConditions" /\ last.result = "error"
    BY DEF PolicyDecidesConditionProblemsOnly
  <2> PICK w \in {snapshot.webhooks[i]}, v \in {snapshot.webhooks[j]}, s \in {snapshot} : TRUE
    OBVIOUS
  <2>1. /\ WellFormedConditions(w) /\ i \in DOMAIN s.webhooks /\ s \in Snapshots
        /\ results[i] = EvaluationOf(w, s)
    BY ResultsConclude DEF FInv, IInv, TypeOK
  <2>2. results[j] = EvaluationOf(v, s)
    BY ResultsConclude
  <2>3. w = [field \in WebhookFields |-> w[field]] /\ v = [w EXCEPT !.failurePolicy = "Ignore"]
    <3>1. s.webhooks[i] = [field \in WebhookFields |-> s.webhooks[i][field]]
      BY <2>1, Zenon, SnapshotAssumption
    <3>2. w = s.webhooks[i]
      OBVIOUS
    <3> QED BY Zenon, <3>1, <3>2
  <2>4. SameRouting(w, v) /\ v.failurePolicy = "Ignore" /\ w.failurePolicy = "Fail"
    BY <2>3 DEF SameRouting, SameSelection, WebhookFields
  <2>5. results[j] = results[i] \/ Overruled(results[i], results[j])
    BY <2>1, <2>2, <2>4, PolicyAlone
  <2> QED BY <2>5, OverruledFacts
<1> QED
  BY <1>1, EvaluationDetermined, PTL

-------------------------------------------------------------------------------
(***************************************************************************)
(* What more fixtures change.  A condition that missed no decision asks    *)
(* the same queries and gets the same answers.                             *)
(***************************************************************************)

(* What a selector, or the rules, said without a fixture they still say.   *)

LEMMA ContextSupplies ==
  ASSUME NEW s \in Snapshots, NEW more \in MoreContext(s)
  PROVE  SuppliesMore(more, s)
<1>1. PICK c \in Contexts :
        /\ Extends(c.namespaces, s.namespaces)
        /\ Extends(c.equivalents, s.equivalents)
        /\ Extends(c.authorization, s.authorization)
        /\ more = WithContext(s, c)
  BY Zenon DEF MoreContext
<1>2. s = [field \in SnapshotFields |-> s[field]]
  BY Zenon, SnapshotAssumption
<1>3. /\ more.request = s.request /\ more.namespaces = c.namespaces
      /\ more.equivalents = c.equivalents /\ more.authorization = c.authorization
  BY <1>1, <1>2 DEF WithContext, SnapshotFields
<1> QED BY <1>1, <1>3 DEF SuppliesMore

(***************************************************************************)
(* Supplying more fixtures never changes an answer that was determinate,   *)
(* for every configuration and every extension of the fixtures, as long as *)
(* the conditions stay within their budget (fixture, routing,              *)
(* matchcondition; docs/product/reference.md).                             *)
(***************************************************************************)
THEOREM DeterminateIsFinal == Spec => []MoreContextKeepsVerdict
<1>1. FInv => MoreContextKeepsVerdict
  <2> SUFFICES ASSUME FInv, NEW i \in DOMAIN results,
                      results[i].determination = "determinate",
                      ~Overruns(snapshot.webhooks[i], snapshot),
                      NEW more \in MoreContext(snapshot),
                      ~Overruns(snapshot.webhooks[i], more)
               PROVE  Agrees(VerdictOf(snapshot.webhooks[i], more), VerdictIn(results[i]))
    BY DEF MoreContextKeepsVerdict
  <2> PICK w \in {snapshot.webhooks[i]}, less \in {snapshot} : TRUE
    OBVIOUS
  <2>1. WellFormedConditions(w) /\ VerdictIn(results[i]) = VerdictOf(w, less)
    BY ResultsConclude
  <2>2. VerdictIn(results[i]).determination = "determinate"
    BY DEF VerdictIn, Verdict
  <2>3. SuppliesMore(more, less)
    <3>1. less \in Snapshots
      BY DEF FInv, IInv, TypeOK
    <3> QED BY <3>1, ContextSupplies
  <2>4. Stopping(w, more) = Stopping(w, less)
    BY DEF Overruns
  <2> QED BY <2>1, <2>2, <2>3, <2>4, MoreKeepsVerdict
<1> QED
  BY <1>1, EvaluationDetermined, PTL

-------------------------------------------------------------------------------
(***************************************************************************)
(* Where two sentences of the documentation hold after all.                *)
(***************************************************************************)

(* Who rejects: the failure policy, or a selector nobody can evaluate. *)
LEMMA WhoRejects ==
  ASSUME NEW w, NEW s, VerdictOf(w, s).outcome = "rejected-before-call",
         w.failurePolicy # "Fail"
  PROVE  ControllingOutcome(w, s) = "evaluation-error"
<1> DEFINE rejects(v) == v.outcome = "rejected-before-call"
           onward == ConditionsVerdict(w, s)
<1>1. /\ \A reason : /\ ~rejects(Decided("skipped", reason, TRUE))
                     /\ ~rejects(Decided("skipped", reason, FALSE))
                     /\ ~rejects(Decided("called", reason, TRUE))
                     /\ ~rejects(Undecided(reason, TRUE))
                     /\ ~rejects(Undecided(reason, FALSE))
      /\ ~rejects(Unsupported)
  BY DEF Decided, Undecided, Unsupported, Verdict, NoOutcome
<1>2. ~rejects(onward)
  <2> HIDE DEF rejects
  <2> QED BY <1>1, VerdictOfConditions DEF onward
<1>3. rejects(Routed(w, s, onward))
  BY VerdictRouted
<1> HIDE DEF rejects, onward
<1> QED BY <1>1, <1>2, <1>3 DEF Routed

(***************************************************************************)
(* A request is rejected before the call under the failure policy Fail     *)
(* only, where every selector can be evaluated: nothing else in the        *)
(* pipeline or in the reducer rejects (contract/result.go,                 *)
(* completeProblem).                                                       *)
(***************************************************************************)
THEOREM RejectedByPolicy ==
  ASSUME SelectorsEvaluate
  PROVE  Spec => []RejectedOnlyUnderFail
<1>1. FInv => RejectedOnlyUnderFail
  <2> SUFFICES ASSUME FInv, NEW i \in DOMAIN results,
                      results[i].outcome = "rejected-before-call",
                      snapshot.webhooks[i].failurePolicy # "Fail"
               PROVE  FALSE
    BY DEF RejectedOnlyUnderFail
  <2>1. /\ i \in DOMAIN snapshot.webhooks
        /\ VerdictIn(results[i]) = VerdictOf(snapshot.webhooks[i], snapshot)
    BY ResultsConclude
  <2>2. VerdictIn(results[i]).outcome = "rejected-before-call"
    BY DEF VerdictIn, Verdict
  <2>3. ControllingOutcome(snapshot.webhooks[i], snapshot) = "evaluation-error"
    BY <2>1, <2>2, WhoRejects
  <2>4. snapshot \in Snapshots
    BY DEF FInv, IInv, TypeOK
  <2> QED BY <2>1, <2>3, <2>4 DEF ControllingOutcome, NamespaceOutcome, ObjectOutcome,
             SelectorsEvaluate
<1> QED
  BY <1>1, EvaluationDetermined, PTL

(***************************************************************************)
(* A determinate answer stays what it is when a decision asked for in vain *)
(* is supplied, where no list of conditions overruns                       *)
(* (docs/product/reference.md, internal/matchcondition).                   *)
(***************************************************************************)
THEOREM AbsenceIsIndeterminate ==
  ASSUME NothingOverruns
  PROVE  Spec => []AbsentFixtureIsIndeterminate
<1>1. FInv /\ MoreContextKeepsVerdict => AbsentFixtureIsIndeterminate
  <2> SUFFICES ASSUME FInv, MoreContextKeepsVerdict, NEW i \in DOMAIN results,
                      results[i].determination = "determinate",
                      NEW s \in MoreContext(snapshot)
               PROVE  Agrees(VerdictOf(snapshot.webhooks[i], s), VerdictIn(results[i]))
    BY DEF AbsentFixtureIsIndeterminate
  <2>1. i \in DOMAIN snapshot.webhooks /\ snapshot \in Snapshots
    BY ResultsConclude DEF FInv, IInv, TypeOK
  <2>2. ~Overruns(snapshot.webhooks[i], snapshot) /\ ~Overruns(snapshot.webhooks[i], s)
    BY <2>1 DEF NothingOverruns
  <2> QED BY <2>2 DEF MoreContextKeepsVerdict
<1> QED
  BY <1>1, EvaluationDetermined, DeterminateIsFinal, PTL
=============================================================================
