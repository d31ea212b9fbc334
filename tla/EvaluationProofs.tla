--------------------------- MODULE EvaluationProofs ---------------------------
(***************************************************************************)
(* Proofs that Evaluation keeps its types, and that every evaluation it    *)
(* publishes satisfies the result contract, for every set of snapshots and *)
(* every budget.                                                           *)
(***************************************************************************)
EXTENDS EvaluationProperties, TLAPS, FiniteSetTheorems, SequenceTheorems,
        WellFoundedInduction

-------------------------------------------------------------------------------
(***************************************************************************)
(* Steps and traces.                                                       *)
(***************************************************************************)

(* A step with a completed reason is valid, terminal or not. *)
LEMMA StepSound ==
  ASSUME NEW s \in Stages, NEW r \in TraceResults \ {"not-run"},
         NEW c \in CompletedReasons, NEW t \in BOOLEAN
  PROVE  /\ Step(s, r, c, t) \in TraceStep
         /\ StepValid(Step(s, r, c, t))
         /\ Step(s, r, c, t).terminal = t
         /\ Step(s, r, c, t).result = r
         /\ Step(s, r, c, t).reason = c
BY DEF Step, TraceStep, StepValid, ReasonCodes

(* A step of a deferred selector problem is valid (appendSelector). *)
LEMMA PendingStepSound ==
  ASSUME NEW selector \in {"namespaceSelector", "objectSelector"},
         NEW outcome \in SelectorProblems
  PROVE  /\ PendingStep(selector, outcome) \in TraceStep
         /\ StepValid(PendingStep(selector, outcome))
         /\ ~PendingStep(selector, outcome).terminal
         /\ PendingStep(selector, outcome).pending
BY DEF PendingStep, ProblemResult, Step, TraceStep, StepValid, ReasonCodes, Stages,
       TraceResults, DeferredProblemResults, PendingReason, DiscardedReason,
       NotRunReason, CompletedReasons

(* Discarding a pending step keeps it valid (discardTraceStep). *)
LEMMA DiscardSound ==
  ASSUME NEW step \in TraceStep, StepValid(step), ~step.terminal, step.pending
  PROVE  /\ DiscardTraceStep(step) \in TraceStep
         /\ StepValid(DiscardTraceStep(step))
         /\ ~DiscardTraceStep(step).terminal
<1>1. step.result \in DeferredProblemResults
  BY DEF StepValid
<1>2. DiscardTraceStep(step) \in TraceStep
  BY DEF DiscardTraceStep, TraceStep, ReasonCodes
<1>3. /\ DiscardTraceStep(step).reason = DiscardedReason
      /\ DiscardTraceStep(step).discarded
      /\ ~DiscardTraceStep(step).pending
      /\ ~DiscardTraceStep(step).terminal
      /\ DiscardTraceStep(step).result = step.result
  BY DEF DiscardTraceStep, TraceStep
<1> QED
  BY <1>1, <1>2, <1>3 DEF StepValid

(* A trace stays sound when a sound step is added to it. *)
LEMMA AppendSound ==
  ASSUME NEW steps \in Seq(TraceStep), Sound(steps),
         NEW step \in TraceStep, StepValid(step), ~step.terminal
  PROVE  /\ Append(steps, step) \in Seq(TraceStep)
         /\ Sound(Append(steps, step))
         /\ Len(Append(steps, step)) = Len(steps) + 1
         /\ \A i \in DOMAIN steps : /\ i \in DOMAIN Append(steps, step)
                                    /\ Append(steps, step)[i] = steps[i]
         /\ Append(steps, step)[Len(steps) + 1] = step
BY DEF Sound

(* A trace stays sound when its pending steps are discarded (discardPending). *)
LEMMA DiscardPendingSound ==
  ASSUME NEW steps \in Seq(TraceStep), Sound(steps),
         NEW problems, PointsAtPending(problems, steps)
  PROVE  /\ DiscardPending(steps, problems) \in Seq(TraceStep)
         /\ Sound(DiscardPending(steps, problems))
<1> DEFINE D1(i) == IF \E p \in DOMAIN problems : problems[p].index = i
                    THEN DiscardTraceStep(steps[i]) ELSE steps[i]
<1>1. \A i \in DOMAIN steps : D1(i) \in TraceStep /\ StepValid(D1(i)) /\ ~D1(i).terminal
  <2> SUFFICES ASSUME NEW i \in DOMAIN steps
               PROVE  D1(i) \in TraceStep /\ StepValid(D1(i)) /\ ~D1(i).terminal
    OBVIOUS
  <2>1. steps[i] \in TraceStep /\ StepValid(steps[i]) /\ ~steps[i].terminal
    BY DEF Sound
  <2>2. CASE \E p \in DOMAIN problems : problems[p].index = i
    <3>1. steps[i].pending
      BY <2>2 DEF PointsAtPending
    <3> QED
      BY <2>1, <2>2, <3>1, DiscardSound
  <2>3. CASE ~ \E p \in DOMAIN problems : problems[p].index = i
    BY <2>1, <2>3
  <2> QED
    BY <2>2, <2>3
<1>2. DiscardPending(steps, problems) = [i \in DOMAIN steps |-> D1(i)]
  BY DEF DiscardPending
<1> HIDE DEF D1
<1>3. DOMAIN steps = 1..Len(steps) /\ Len(steps) \in Nat
  OBVIOUS
<1>4. [i \in DOMAIN steps |-> D1(i)] \in Seq(TraceStep)
  BY <1>1, <1>3
<1>5. Sound([i \in DOMAIN steps |-> D1(i)])
  BY <1>1 DEF Sound
<1> QED
  BY <1>2, <1>4, <1>5

(***************************************************************************)
(* WebhookEvaluation.Validate accepts a sound trace that ends in one       *)
(* terminal step agreeing with the determination.                          *)
(***************************************************************************)
LEMMA EndedTraceValid ==
  ASSUME NEW steps \in Seq(TraceStep), Sound(steps),
         NEW last \in TraceStep, StepValid(last), last.terminal,
         NEW determination \in Determinations,
         NEW outcome \in Outcomes \cup {NoOutcome},
         OutcomeValid(determination, outcome),
         TerminalResultValid(determination, last.result),
         NEW diagnostics \in Seq(Diagnostic)
  PROVE  LET e == Evaluated(determination, outcome, Append(steps, last), diagnostics)
         IN  e \in WebhookEvaluation /\ EvaluationValid(e)
<1> DEFINE all == Append(steps, last)
           e   == Evaluated(determination, outcome, all, diagnostics)
<1>1. /\ all \in Seq(TraceStep)
      /\ DOMAIN all = 1..(Len(steps) + 1)
      /\ Len(steps) \in Nat /\ DOMAIN steps = 1..Len(steps)
      /\ \A i \in 1..Len(steps) : all[i] = steps[i]
      /\ all[Len(steps) + 1] = last
  OBVIOUS
<1>2. /\ e.determination = determination /\ e.outcome = outcome
      /\ e.trace = all /\ e.diagnostics = diagnostics
      /\ e \in WebhookEvaluation
  BY <1>1 DEF Evaluated, WebhookEvaluation
<1> HIDE DEF all
<1>3. \A i \in DOMAIN all : StepValid(all[i])
  BY <1>1 DEF Sound
<1>4. \A i \in DOMAIN all : all[i].terminal => i = Len(steps) + 1
  BY <1>1 DEF Sound
<1>5. TerminalSteps(all) = {Len(steps) + 1}
  BY <1>1, <1>4 DEF TerminalSteps
<1>6. ExactlyOneTerminal(all)
  BY <1>5 DEF ExactlyOneTerminal
<1>7. \A i \in DOMAIN all : all[i].terminal =>
                              TerminalResultValid(determination, all[i].result)
  BY <1>1, <1>4
<1>8. EvaluationValid(e)
  BY <1>2, <1>3, <1>6, <1>7 DEF EvaluationValid
<1> QED
  BY <1>2, <1>8 DEF all

-------------------------------------------------------------------------------
(***************************************************************************)
(* How a stage preserves the invariant: it ends the Webhook, or goes on.   *)
(***************************************************************************)

(* The configuration is a sequence of Webhooks (SnapshotAssumption). *)
LEMMA WebhookCount ==
  ASSUME IInv
  PROVE  /\ Len(snapshot.webhooks) \in Nat
         /\ DOMAIN snapshot.webhooks = 1..Len(snapshot.webhooks)
BY SnapshotAssumption DEF IInv, TypeOK

(* What the actions leave of the variables no property is about. *)
Locals ==
  /\ pending' \in Seq(PendingSelector)
  /\ observations' \in Seq(Observation)
  /\ remaining' \in 0..CostBudget

(* Publishing a valid evaluation preserves the invariant (the loop of Evaluate). *)
LEMMA FinishKeeps ==
  ASSUME IInv, stage # "done",
         NEW e \in WebhookEvaluation, EvaluationValid(e), Finish(e), Locals
  PROVE  IInv'
<1>1. /\ snapshot' = snapshot
      /\ results' = Append(results, e)
      /\ stage' = IF Len(results) + 1 = Len(snapshot.webhooks) THEN "done" ELSE "exemption"
      /\ trace' = e.trace
  BY DEF Finish, FinishBy
<1>2. /\ snapshot \in Snapshots
      /\ results \in Seq(WebhookEvaluation)
      /\ Len(results) < Len(snapshot.webhooks)
      /\ Len(snapshot.webhooks) \in Nat
  BY WebhookCount DEF IInv, TypeOK
<1>3. /\ results' \in Seq(WebhookEvaluation)
      /\ Len(results') = Len(results) + 1
      /\ \A i \in DOMAIN results' : results'[i] = IF i = Len(results) + 1 THEN e ELSE results[i]
      /\ \A i \in DOMAIN results' : i # Len(results) + 1 => i \in DOMAIN results
  BY <1>1, <1>2
<1>4. Len(results') <= Len(snapshot'.webhooks)
  BY <1>1, <1>2, <1>3
<1>5. stage' # "done" => Len(results') < Len(snapshot'.webhooks)
  BY <1>1, <1>2, <1>3
<1>6. trace' \in Seq(TraceStep)
  BY <1>1 DEF WebhookEvaluation
<1>7. TypeOK'
  BY <1>1, <1>2, <1>3, <1>4, <1>5, <1>6 DEF TypeOK, Locals, PipelineStages
<1>8. ResultsValid'
  BY <1>3 DEF IInv, ResultsValid
<1>9. BetweenStages'
  BY <1>1 DEF BetweenStages
<1> QED
  BY <1>7, <1>8, <1>9 DEF IInv

(* Going on to the next stage with a sound trace preserves the invariant. *)
LEMMA ContinueKeeps ==
  ASSUME IInv, stage # "done",
         stage' \in PipelineStages \ {"done"}, snapshot' = snapshot, results' = results,
         trace' \in Seq(TraceStep), Sound(trace)', PointsAtPending(pending, trace)', Locals
  PROVE  IInv'
<1>1. TypeOK'
  BY DEF IInv, TypeOK, Locals
<1>2. ResultsValid'
  BY DEF IInv, ResultsValid
<1>3. BetweenStages'
  BY DEF BetweenStages
<1> QED
  BY <1>1, <1>2, <1>3 DEF IInv

(* A Webhook that is skipped at a no-match step (skippedResult). *)
LEMMA SkippedKeeps ==
  ASSUME IInv, stage # "done",
         NEW steps \in Seq(TraceStep), Sound(steps),
         NEW last \in TraceStep, StepValid(last), last.terminal, last.result = "no-match",
         SkippedResult(Append(steps, last)), Locals
  PROVE  IInv'
<1> DEFINE e == Evaluated("determinate", "skipped", Append(steps, last), <<>>)
<1>1. /\ OutcomeValid("determinate", "skipped")
      /\ TerminalResultValid("determinate", last.result)
      /\ "determinate" \in Determinations /\ "skipped" \in Outcomes \cup {NoOutcome}
      /\ <<>> \in Seq(Diagnostic)
  BY DEF OutcomeValid, TerminalResultValid, Determinations, Outcomes
<1>2. e \in WebhookEvaluation /\ EvaluationValid(e)
  BY <1>1, EndedTraceValid
<1> QED
  BY <1>2, FinishKeeps DEF SkippedResult

(* A Webhook that ends at a problem of the stages before CEL (completeProblem). *)
LEMMA ProblemKeeps ==
  ASSUME IInv, stage # "done",
         NEW steps \in Seq(TraceStep), Sound(steps),
         NEW err \in SelectorProblems,
         NEW last \in TraceStep, StepValid(last), last.terminal,
         last.result = ProblemResult(err),
         CompleteProblem(Append(steps, last), err), Locals
  PROVE  IInv'
<1> DEFINE all == Append(steps, last)
           diagnostics == <<[code |-> all[Len(all)].reason, severity |-> Severity(err)]>>
<1>1. all[Len(all)] = last
  OBVIOUS
<1>2. diagnostics \in Seq(Diagnostic)
  BY <1>1 DEF Diagnostic, TraceStep, Severity
<1>3. CASE err = "evaluation-error"
  <2> DEFINE e == Evaluated("determinate", "rejected-before-call", all, diagnostics)
  <2>1. /\ OutcomeValid("determinate", "rejected-before-call")
        /\ TerminalResultValid("determinate", last.result)
        /\ "determinate" \in Determinations
        /\ "rejected-before-call" \in Outcomes \cup {NoOutcome}
    BY <1>3 DEF OutcomeValid, TerminalResultValid, Determinations, Outcomes, ProblemResult
  <2> HIDE DEF diagnostics
  <2>2. e \in WebhookEvaluation /\ EvaluationValid(e)
    BY <1>2, <2>1, EndedTraceValid
  <2>3. Finish(e)
    BY <1>3 DEF CompleteProblem, diagnostics
  <2> QED
    BY <2>2, <2>3, FinishKeeps
<1>4. CASE err # "evaluation-error"
  <2> DEFINE e == Evaluated("indeterminate", NoOutcome, all, diagnostics)
  <2>1. /\ OutcomeValid("indeterminate", NoOutcome)
        /\ TerminalResultValid("indeterminate", last.result)
        /\ "indeterminate" \in Determinations
        /\ NoOutcome \in Outcomes \cup {NoOutcome}
    BY <1>4 DEF OutcomeValid, TerminalResultValid, Determinations, ProblemResult, SelectorProblems
  <2> HIDE DEF diagnostics
  <2>2. e \in WebhookEvaluation /\ EvaluationValid(e)
    BY <1>2, <2>1, EndedTraceValid
  <2>3. Finish(e)
    BY <1>4 DEF CompleteProblem, diagnostics
  <2> QED
    BY <2>2, <2>3, FinishKeeps
<1> QED
  BY <1>3, <1>4

-------------------------------------------------------------------------------
(***************************************************************************)
(* The stages before CEL.                                                  *)
(***************************************************************************)

(* The invariant's parts, for a Webhook under evaluation. *)
LEMMA Running ==
  ASSUME IInv, stage \notin {"exemption", "done"}
  PROVE  /\ trace \in Seq(TraceStep) /\ Sound(trace)
         /\ pending \in Seq(PendingSelector) /\ PointsAtPending(pending, trace)
         /\ observations \in Seq(Observation)
         /\ remaining \in 0..CostBudget
BY DEF IInv, TypeOK, BetweenStages

(* The exemption precheck, which ends the Webhook or starts its trace. *)
LEMMA ExemptionKeeps == ASSUME IInv, CheckExemption PROVE IInv'
<1>1. /\ stage # "done"
      /\ pending' = <<>> /\ observations' = observations /\ remaining' = remaining
  BY DEF CheckExemption
<1>2. Locals
  BY <1>1 DEF Locals, IInv, TypeOK
<1>3. CASE SkipExempt
  <2> DEFINE last == Step("admissionConfigurationExemption", "no-match",
                          "ADMISSION_CONFIGURATION_EXCLUDED", TRUE)
  <2>1. /\ last \in TraceStep /\ StepValid(last) /\ last.terminal
        /\ last.result = "no-match"
    <3>1. /\ "admissionConfigurationExemption" \in Stages
          /\ "no-match" \in TraceResults \ {"not-run"}
          /\ "ADMISSION_CONFIGURATION_EXCLUDED" \in CompletedReasons
      BY DEF Stages, TraceResults, CompletedReasons
    <3> QED
      BY <3>1, StepSound
  <2>2. <<>> \in Seq(TraceStep) /\ Sound(<<>>)
    BY DEF Sound
  <2> HIDE DEF last
  <2>3. Append(<<>>, last) = <<last>>
    OBVIOUS
  <2>4. SkippedResult(Append(<<>>, last))
    BY <1>3, <2>3 DEF SkipExempt, last
  <2> QED
    BY <1>1, <1>2, <2>1, <2>2, <2>4, SkippedKeeps
<1>4. CASE StartPipeline
  <2>1. /\ trace' = <<>> /\ stage' = "namespaceSelector"
        /\ snapshot' = snapshot /\ results' = results
    BY <1>4 DEF StartPipeline
  <2>2. Sound(trace)' /\ PointsAtPending(pending, trace)' /\ trace' \in Seq(TraceStep)
    BY <1>1, <2>1 DEF Sound, PointsAtPending
  <2> QED
    BY <1>1, <1>2, <2>1, <2>2, ContinueKeeps DEF PipelineStages
<1> QED
  BY <1>3, <1>4 DEF CheckExemption

(* The reasons a selector stage gives are completed ones. *)
LEMMA SelectorReasonCompleted ==
  ASSUME NEW selector \in {"namespaceSelector", "objectSelector"},
         NEW outcome \in SelectorOutcomes
  PROVE  SelectorReason(selector, outcome) \in CompletedReasons
BY DEF SelectorReason, SelectorOutcomes, SelectorProblems, CompletedReasons

(* Discarding the problems of a trace leaves the step added after them alone. *)
LEMMA DiscardThenAppend ==
  ASSUME NEW steps \in Seq(TraceStep), NEW last \in TraceStep,
         NEW problems, PointsAtPending(problems, steps)
  PROVE  DiscardPending(Append(steps, last), problems) =
           Append(DiscardPending(steps, problems), last)
<1> DEFINE n == Len(steps)
           all == Append(steps, last)
           discarded == DiscardPending(steps, problems)
           marked(i) == \E p \in DOMAIN problems : problems[p].index = i
<1>1. /\ n \in Nat /\ DOMAIN steps = 1..n /\ all \in Seq(TraceStep)
      /\ DOMAIN all = 1..(n + 1)
      /\ \A i \in 1..n : all[i] = steps[i]
      /\ all[n + 1] = last
  OBVIOUS
<1>2. ~marked(n + 1)
  BY <1>1 DEF PointsAtPending
<1>3. DiscardPending(all, problems) =
        [i \in 1..(n + 1) |-> IF marked(i) THEN DiscardTraceStep(all[i]) ELSE all[i]]
  BY <1>1 DEF DiscardPending
<1>4. discarded = [i \in 1..n |-> IF marked(i) THEN DiscardTraceStep(steps[i]) ELSE steps[i]]
  BY <1>1 DEF DiscardPending
<1>5. Len(discarded) = n
  BY <1>1, <1>4
<1>6. Append(discarded, last) =
        [i \in 1..(n + 1) |-> IF i = n + 1 THEN last ELSE discarded[i]]
  BY <1>1, <1>4, <1>5
<1> HIDE DEF marked, all
<1>7. \A i \in 1..(n + 1) :
        (IF marked(i) THEN DiscardTraceStep(all[i]) ELSE all[i]) =
        (IF i = n + 1 THEN last ELSE discarded[i])
  BY <1>1, <1>2, <1>4
<1> QED
  BY <1>3, <1>6, <1>7 DEF all

(* A selector stage: match, no match or a problem that is deferred (appendSelector). *)
LEMMA SelectorKeeps ==
  ASSUME IInv,
         NEW selector \in {"namespaceSelector", "objectSelector"}, NEW outcome,
         NEW next \in {"objectSelector", "exactRules"},
         EvaluateSelector(selector, outcome, next)
  PROVE  IInv'
<1>1. stage \notin {"exemption", "done"}
  BY DEF EvaluateSelector
<1>2. next \in PipelineStages \ {"done"} /\ selector \in Stages
  BY DEF PipelineStages, Stages
<1>3. CASE outcome = "match" /\ SelectorMatched(selector, next)
  <2> DEFINE step == Step(selector, "match", SelectorReason(selector, "match"), FALSE)
  <2>1. SelectorReason(selector, "match") \in CompletedReasons
    BY SelectorReasonCompleted DEF SelectorOutcomes
  <2>2. step \in TraceStep /\ StepValid(step) /\ ~step.terminal
    <3>1. "match" \in TraceResults \ {"not-run"}
      BY DEF TraceResults
    <3> QED
      BY <1>2, <2>1, <3>1, StepSound
  <2>3. /\ trace' = Append(trace, step) /\ stage' = next
        /\ UNCHANGED <<snapshot, pending, observations, remaining, results>>
    BY <1>3 DEF SelectorMatched
  <2> HIDE DEF step
  <2>4. trace' \in Seq(TraceStep) /\ Sound(trace)'
    BY <1>1, <2>2, <2>3, Running, AppendSound
  <2>5. PointsAtPending(pending, trace)'
    BY <1>1, <2>2, <2>3, Running, AppendSound DEF PointsAtPending
  <2>6. Locals
    BY <1>1, <2>3, Running DEF Locals
  <2> QED
    BY <1>1, <1>2, <2>3, <2>4, <2>5, <2>6, ContinueKeeps
<1>4. CASE outcome = "no-match" /\ SelectorExcluded(selector)
  <2> DEFINE last == Step(selector, "no-match", SelectorReason(selector, "no-match"), TRUE)
             steps == DiscardPending(trace, pending)
  <2>1. SelectorReason(selector, "no-match") \in CompletedReasons
    BY SelectorReasonCompleted DEF SelectorOutcomes
  <2>2. /\ last \in TraceStep /\ StepValid(last) /\ last.terminal
        /\ last.result = "no-match"
    <3>1. "no-match" \in TraceResults \ {"not-run"}
      BY DEF TraceResults
    <3> QED
      BY <1>2, <2>1, <3>1, StepSound
  <2>3. /\ SkippedResult(DiscardPending(Append(trace, last), pending))
        /\ UNCHANGED <<pending, observations, remaining>>
    BY <1>4 DEF SelectorExcluded
  <2> HIDE DEF last
  <2>4. steps \in Seq(TraceStep) /\ Sound(steps)
    BY <1>1, Running, DiscardPendingSound
  <2>5. SkippedResult(Append(steps, last))
    BY <1>1, <2>2, <2>3, Running, DiscardThenAppend
  <2> HIDE DEF steps
  <2>6. Locals
    BY <1>1, <2>3, Running DEF Locals
  <2> QED
    BY <1>1, <2>2, <2>4, <2>5, <2>6, SkippedKeeps
<1>5. CASE outcome \in SelectorProblems /\ SelectorDeferred(selector, outcome, next)
  <2> DEFINE step == PendingStep(selector, outcome)
             problem == [index |-> Len(trace) + 1, selector |-> selector, outcome |-> outcome]
  <2>1. /\ step \in TraceStep /\ StepValid(step) /\ ~step.terminal /\ step.pending
    BY <1>5, PendingStepSound
  <2>2. /\ trace' = Append(trace, step) /\ pending' = Append(pending, problem)
        /\ stage' = next
        /\ UNCHANGED <<snapshot, observations, remaining, results>>
    BY <1>5 DEF SelectorDeferred
  <2>3. problem \in PendingSelector /\ problem.index = Len(trace) + 1
    BY <1>1, <1>5, Running DEF PendingSelector
  <2> HIDE DEF step, problem
  <2>4. trace' \in Seq(TraceStep) /\ Sound(trace)'
    BY <1>1, <2>1, <2>2, Running, AppendSound
  <2>5. PointsAtPending(pending, trace)'
    <3>1. /\ \A i \in DOMAIN trace : i \in DOMAIN trace' /\ trace'[i] = trace[i]
          /\ Len(trace) + 1 \in DOMAIN trace' /\ trace'[Len(trace) + 1] = step
      BY <1>1, <2>1, <2>2, Running
    <3>2. \A p \in DOMAIN pending' : \/ p \in DOMAIN pending /\ pending'[p] = pending[p]
                                     \/ pending'[p] = problem
      BY <1>1, <2>2, <2>3, Running
    <3> QED
      BY <1>1, <2>1, <2>3, <3>1, <3>2, Running DEF PointsAtPending
  <2>6. Locals
    BY <1>1, <2>2, <2>3, Running DEF Locals
  <2> QED
    BY <1>1, <1>2, <2>2, <2>4, <2>5, <2>6, ContinueKeeps
<1> QED
  BY <1>3, <1>4, <1>5 DEF EvaluateSelector

(* The problem that controls an applicable Webhook ends it; without one the
   conditions are next (applicableResult). *)
LEMMA ApplicableKeeps ==
  ASSUME IInv, stage \notin {"exemption", "done"},
         NEW steps \in Seq(TraceStep), Sound(steps), PointsAtPending(pending, steps),
         NEW invocationKind, Applicable(steps, invocationKind),
         UNCHANGED <<pending, observations, remaining>>
  PROVE  IInv'
<1>1. Locals
  BY Running DEF Locals
<1>2. CASE pending = <<>>
  <2>1. /\ trace' = steps /\ stage' = "matchConditions"
        /\ UNCHANGED <<snapshot, results>>
    BY <1>2 DEF Applicable
  <2>2. Sound(trace)' /\ PointsAtPending(pending, trace)' /\ trace' \in Seq(TraceStep)
    BY <2>1
  <2> QED
    BY <1>1, <2>1, <2>2, ContinueKeeps DEF PipelineStages
<1>3. CASE pending # <<>>
  <2> DEFINE reason == SelectorReason(Controlling.selector, Controlling.outcome)
             last == Step(ProblemStage(Controlling.selector),
                          ProblemResult(Controlling.outcome), reason, TRUE)
             kept == DiscardPending(steps, Tail(pending))
  <2>1. /\ Controlling.selector \in {"namespaceSelector", "objectSelector"}
        /\ Controlling.outcome \in SelectorProblems
    <3>1. pending[1] \in PendingSelector
      BY <1>3, Running
    <3> QED
      BY <3>1 DEF Controlling, PendingSelector
  <2>2. reason \in CompletedReasons
    BY <2>1, SelectorReasonCompleted DEF SelectorOutcomes
  <2>3. /\ ProblemStage(Controlling.selector) \in Stages
        /\ ProblemResult(Controlling.outcome) \in TraceResults \ {"not-run"}
    BY DEF ProblemStage, Stages, ProblemResult, TraceResults
  <2> HIDE DEF reason
  <2>4. /\ last \in TraceStep /\ StepValid(last) /\ last.terminal
        /\ last.result = ProblemResult(Controlling.outcome)
    BY <2>2, <2>3, StepSound
  <2>5. PointsAtPending(Tail(pending), steps)
    <3>1. /\ pending \in Seq(PendingSelector)
          /\ DOMAIN Tail(pending) = 1..(Len(pending) - 1)
          /\ \A p \in DOMAIN Tail(pending) : /\ p + 1 \in DOMAIN pending
                                             /\ Tail(pending)[p] = pending[p + 1]
      BY <1>3, Running
    <3> QED
      BY <3>1 DEF PointsAtPending
  <2>6. kept \in Seq(TraceStep) /\ Sound(kept)
    BY <2>5, DiscardPendingSound
  <2>7. CompleteProblem(Append(kept, last), Controlling.outcome)
    BY <1>3 DEF Applicable, reason
  <2> HIDE DEF kept, last
  <2> QED
    BY <1>1, <2>1, <2>4, <2>6, <2>7, ProblemKeeps
<1> QED
  BY <1>2, <1>3

(* The step of a rule stage is valid, and terminal only when asked for. *)
LEMMA RuleStepSound ==
  ASSUME NEW ruleStage \in {"exactRules", "equivalentRules"},
         NEW matched \in BOOLEAN, NEW terminal \in BOOLEAN
  PROVE  LET step == RuleStep(ruleStage, matched, terminal)
         IN  /\ step \in TraceStep /\ StepValid(step) /\ step.terminal = terminal
             /\ ~matched => step.result = "no-match"
<1>1. /\ ruleStage \in Stages
      /\ "match" \in TraceResults \ {"not-run"} /\ "no-match" \in TraceResults \ {"not-run"}
      /\ "RULE_MATCH" \in CompletedReasons /\ "RULE_NO_MATCH" \in CompletedReasons
  BY DEF Stages, TraceResults, CompletedReasons
<1> QED
  BY <1>1, StepSound DEF RuleStep

(* Rules that match go on with the step of the stage added to the trace. *)
LEMMA RulesMatchedKeeps ==
  ASSUME IInv, stage \notin {"exemption", "done"},
         NEW ruleStage \in {"exactRules", "equivalentRules"}, NEW invocationKind,
         Applicable(Append(trace, RuleStep(ruleStage, TRUE, FALSE)), invocationKind),
         UNCHANGED <<pending, observations, remaining>>
  PROVE  IInv'
<1> DEFINE step == RuleStep(ruleStage, TRUE, FALSE)
<1>1. step \in TraceStep /\ StepValid(step) /\ ~step.terminal
  BY RuleStepSound
<1> HIDE DEF step
<1>2. Append(trace, step) \in Seq(TraceStep) /\ Sound(Append(trace, step))
  BY <1>1, Running, AppendSound
<1>3. PointsAtPending(pending, Append(trace, step))
  BY <1>1, Running, AppendSound DEF PointsAtPending
<1>4. Applicable(Append(trace, step), invocationKind)
  BY DEF step
<1> QED
  BY <1>2, <1>3, <1>4, ApplicableKeeps

(* Rules that exclude the Webhook discard its problems and skip it. *)
LEMMA RulesExcludedKeeps ==
  ASSUME IInv, stage \notin {"exemption", "done"},
         NEW ruleStage \in {"exactRules", "equivalentRules"}, RulesExcluded(ruleStage),
         UNCHANGED <<pending, observations, remaining>>
  PROVE  IInv'
<1> DEFINE last == RuleStep(ruleStage, FALSE, TRUE)
           steps == DiscardPending(trace, pending)
<1>1. last \in TraceStep /\ StepValid(last) /\ last.terminal /\ last.result = "no-match"
  BY RuleStepSound
<1>2. steps \in Seq(TraceStep) /\ Sound(steps)
  BY Running, DiscardPendingSound
<1>3. SkippedResult(Append(steps, last))
  BY DEF RulesExcluded
<1>4. Locals
  BY Running DEF Locals
<1> HIDE DEF last, steps
<1> QED
  BY <1>1, <1>2, <1>3, <1>4, SkippedKeeps

(* MatchExactRules' three ways out: applicable, excluded, or on to Equivalent. *)
LEMMA ExactRulesKeeps == ASSUME IInv, EvaluateExactRules PROVE IInv'
<1> DEFINE matched == MatchExactRules(webhook, request)
           step == RuleStep("exactRules", FALSE, FALSE)
<1>1. /\ stage \notin {"exemption", "done"}
      /\ UNCHANGED <<pending, observations, remaining>>
  BY DEF EvaluateExactRules
<1>2. CASE Applicable(Append(trace, RuleStep("exactRules", TRUE, FALSE)), request.kind)
  BY <1>1, <1>2, RulesMatchedKeeps
<1>3. CASE RulesExcluded("exactRules")
  BY <1>1, <1>3, RulesExcludedKeeps
<1>4. CASE /\ trace' = Append(trace, step)
           /\ stage' = "equivalentRules"
           /\ UNCHANGED <<snapshot, kind, results>>
  <2>1. step \in TraceStep /\ StepValid(step) /\ ~step.terminal
    BY RuleStepSound
  <2> HIDE DEF step
  <2>2. trace' \in Seq(TraceStep) /\ Sound(trace)'
    BY <1>1, <1>4, <2>1, Running, AppendSound
  <2>3. PointsAtPending(pending, trace)'
    BY <1>1, <1>4, <2>1, Running, AppendSound DEF PointsAtPending
  <2>4. Locals
    BY <1>1, Running DEF Locals
  <2> QED
    BY <1>1, <1>4, <2>2, <2>3, <2>4, ContinueKeeps DEF PipelineStages
<1> QED
  BY <1>2, <1>3, <1>4 DEF EvaluateExactRules

(* matchEquivalentRules: no mapping, no candidate that matches, or one. *)
LEMMA EquivalentRulesKeeps == ASSUME IInv, EvaluateEquivalentRules PROVE IInv'
<1>1. /\ stage \notin {"exemption", "done"}
      /\ UNCHANGED <<pending, observations, remaining>>
  BY DEF EvaluateEquivalentRules
<1>2. CASE EquivalenceMissing
  <2> DEFINE last == Step("equivalentRules", "indeterminate",
                          "EQUIVALENCE_CONTEXT_MISSING", TRUE)
  <2>1. /\ "equivalentRules" \in Stages
        /\ "indeterminate" \in TraceResults \ {"not-run"}
        /\ "EQUIVALENCE_CONTEXT_MISSING" \in CompletedReasons
        /\ "missing-context" \in SelectorProblems
        /\ ProblemResult("missing-context") = "indeterminate"
    BY DEF Stages, TraceResults, CompletedReasons, SelectorProblems, ProblemResult
  <2>2. /\ last \in TraceStep /\ StepValid(last) /\ last.terminal
        /\ last.result = ProblemResult("missing-context")
    BY <2>1, StepSound
  <2>3. CompleteProblem(Append(trace, last), "missing-context")
    BY <1>2 DEF EquivalenceMissing
  <2>4. Locals
    BY <1>1, Running DEF Locals
  <2> HIDE DEF last
  <2> QED
    BY <1>1, <2>1, <2>2, <2>3, <2>4, Running, ProblemKeeps
<1>3. CASE RulesExcluded("equivalentRules")
  BY <1>1, <1>3, RulesExcludedKeeps
<1>4. ASSUME NEW invocationKind,
             Applicable(Append(trace, RuleStep("equivalentRules", TRUE, FALSE)), invocationKind)
      PROVE  IInv'
  BY <1>1, <1>4, RulesMatchedKeeps
<1> QED
  BY <1>2, <1>3, <1>4 DEF EvaluateEquivalentRules

-------------------------------------------------------------------------------
(***************************************************************************)
(* The conditions.                                                         *)
(***************************************************************************)

(* Starting them: a payload that does not decode ends the Webhook instead. *)
LEMMA StartKeeps == ASSUME IInv, StartMatchConditions PROVE IInv'
<1>1. /\ stage \notin {"exemption", "done"} /\ pending' = pending
  BY DEF StartMatchConditions, StartMatchConditionsWith
<1>2. CASE AttributesFail(request)
  <2> DEFINE last == Step("matchConditions", "indeterminate", "INTERNAL_ERROR", TRUE)
             diagnostics == <<[code |-> "INTERNAL_ERROR", severity |-> "error"]>>
             e == Evaluated("indeterminate", NoOutcome, Append(trace, last), diagnostics)
  <2>1. /\ "matchConditions" \in Stages
        /\ "indeterminate" \in TraceResults \ {"not-run"}
        /\ "INTERNAL_ERROR" \in CompletedReasons
    BY DEF Stages, TraceResults, CompletedReasons
  <2>2. /\ last \in TraceStep /\ StepValid(last) /\ last.terminal
        /\ last.result = "indeterminate"
    BY <2>1, StepSound
  <2>3. diagnostics \in Seq(Diagnostic)
    BY <2>1 DEF Diagnostic, ReasonCodes
  <2>4. /\ OutcomeValid("indeterminate", NoOutcome)
        /\ TerminalResultValid("indeterminate", last.result)
        /\ "indeterminate" \in Determinations
        /\ NoOutcome \in Outcomes \cup {NoOutcome}
    BY <2>2 DEF OutcomeValid, TerminalResultValid, Determinations
  <2>5. /\ Finish(e)
        /\ UNCHANGED <<pending, observations, remaining>>
    BY <1>2 DEF StartMatchConditions, StartMatchConditionsWith
  <2>6. Locals
    BY <1>1, <2>5, Running DEF Locals
  <2> HIDE DEF last, diagnostics
  <2>7. e \in WebhookEvaluation /\ EvaluationValid(e)
    BY <1>1, <2>2, <2>3, <2>4, Running, EndedTraceValid
  <2> QED
    BY <1>1, <2>5, <2>6, <2>7, FinishKeeps
<1>3. CASE ~AttributesFail(request)
  <2>1. /\ observations' = <<>> /\ remaining' = CostBudget /\ stage' = "conditions"
        /\ UNCHANGED <<snapshot, trace, results>>
    BY <1>3 DEF StartMatchConditions, StartMatchConditionsWith
  <2>2. Locals
    BY <1>1, <2>1, Running, CostAssumption DEF Locals
  <2>3. trace' \in Seq(TraceStep) /\ Sound(trace)' /\ PointsAtPending(pending, trace)'
    BY <1>1, <2>1, Running
  <2> QED
    BY <1>1, <2>1, <2>2, <2>3, ContinueKeeps DEF PipelineStages
<1> QED
  BY <1>2, <1>3

(* Whatever a condition does, one of the observations of ForInput is made of it. *)
LEMMA ObserveType ==
  ASSUME NEW condition, NEW authorization, NEW k, NEW left
  PROVE  Observe(condition, authorization, k, left) \in Observation
<1> DEFINE errors == RecordedErrors(condition, authorization)
           value == IF Holds(condition, authorization, k) THEN "true" ELSE "false"
<1>1. errors \in SUBSET AuthorizationErrors
  BY DEF RecordedErrors
<1> HIDE DEF errors
<1>2. /\ Problem("runtime", {}) \in Observation
      /\ Problem("cost", {}) \in Observation
      /\ Problem("compile", {}) \in Observation
      /\ Problem("authorization", errors) \in Observation
  BY <1>1 DEF Problem, Observation, Problems
<1>3. [value |-> value, problem |-> "none", errors |-> {}] \in Observation
  BY DEF Observation, Problems
<1> HIDE DEF value
<1>4. \/ Observe(condition, authorization, k, left) = Problem("runtime", {})
      \/ Observe(condition, authorization, k, left) = Problem("cost", {})
      \/ Observe(condition, authorization, k, left) = Problem("compile", {})
      \/ Observe(condition, authorization, k, left) = Problem("authorization", errors)
      \/ Observe(condition, authorization, k, left) =
           [value |-> value, problem |-> "none", errors |-> {}]
  BY DEF Observe, errors, value
<1> QED
  BY <1>2, <1>3, <1>4

(* A condition costs a natural number: it asks a finite number of queries. *)
LEMMA CostType ==
  ASSUME NEW condition, NEW authorization, condition.cost \in Nat,
         condition.queries \in Seq({condition.queries[q] : q \in DOMAIN condition.queries})
  PROVE  ConditionCost(condition, authorization) \in Nat
<1> DEFINE asked == Asked(condition, authorization)
           n == Len(condition.queries)
<1>1. n \in Nat /\ DOMAIN condition.queries = 1..n
  OBVIOUS
<1>2. asked \in SUBSET (1..n)
  BY <1>1 DEF Asked
<1> HIDE DEF asked, n
<1>3. IsFiniteSet(1..n)
  BY <1>1, FS_Interval
<1>4. IsFiniteSet(asked)
  BY <1>2, <1>3, FS_Subset
<1>5. Cardinality(asked) \in Nat
  BY <1>4, FS_CardinalityType
<1>6. CheckCost * Cardinality(asked) \in Nat
  BY <1>5, CostAssumption
<1>7. ConditionCost(condition, authorization) =
        IF condition.form = "compile-error" THEN 0
        ELSE condition.cost + CheckCost * Cardinality(asked)
  BY DEF ConditionCost, asked
<1> QED
  BY <1>6, <1>7

(* One turn of the loop of ForInput keeps the budget and adds an observation. *)
LEMMA ConditionKeeps == ASSUME IInv, EvaluateCondition PROVE IInv'
<1> DEFINE condition == webhook.matchConditions[Len(observations) + 1]
           cost == ConditionCost(condition, snapshot.authorization)
           fails == EvaluatorFails(condition, snapshot.authorization, remaining)
           observed == Observe(condition, snapshot.authorization, kind, remaining)
<1>1. /\ stage = "conditions" /\ stage \notin {"exemption", "done"}
      /\ Len(observations) < Len(webhook.matchConditions)
      /\ observations' = Append(observations, observed)
      /\ remaining' = IF fails THEN remaining ELSE remaining - cost
      /\ UNCHANGED <<snapshot, stage, trace, pending, kind, results>>
  BY DEF EvaluateCondition
<1>2. cost \in Nat
  <2>1. /\ snapshot \in Snapshots
        /\ Len(results) + 1 \in DOMAIN snapshot.webhooks
    BY <1>1, WebhookCount DEF IInv, TypeOK
  <2> DEFINE conditions == webhook.matchConditions
  <2>2. /\ conditions \in Seq({conditions[k] : k \in DOMAIN conditions})
        /\ \A k \in DOMAIN conditions :
             /\ conditions[k].cost \in Nat
             /\ conditions[k].queries \in
                  Seq({conditions[k].queries[q] : q \in DOMAIN conditions[k].queries})
    BY <2>1, SnapshotAssumption DEF webhook
  <2> HIDE DEF conditions
  <2>3. Len(observations) + 1 \in DOMAIN conditions
    BY <1>1, <2>2, Running DEF conditions
  <2>4. /\ condition.cost \in Nat
        /\ condition.queries \in
             Seq({condition.queries[q] : q \in DOMAIN condition.queries})
    BY <2>2, <2>3 DEF conditions
  <2> QED
    BY <2>4, CostType
<1>3. ~fails => cost <= remaining
  BY <1>1, <1>2, Running DEF EvaluatorFails, OverBudget
<1>4. observed \in Observation
  BY ObserveType
<1> HIDE DEF cost, fails, observed
<1>5. remaining' \in 0..CostBudget
  BY <1>1, <1>2, <1>3, Running, CostAssumption
<1>6. observations' \in Seq(Observation)
  BY <1>1, <1>4, Running
<1>7. Locals
  BY <1>1, <1>5, <1>6, Running DEF Locals
<1>8. trace' \in Seq(TraceStep) /\ Sound(trace)' /\ PointsAtPending(pending, trace)'
  BY <1>1, Running
<1> QED
  BY <1>1, <1>7, <1>8, ContinueKeeps DEF PipelineStages

(* The reduction of the conditions keeps to the result contract (explainResult). *)
LEMMA ControllingReasonCompleted ==
  ASSUME NEW classified
  PROVE  ControllingReason(classified) \in CompletedReasons
<1>1. \A problem : ProblemReason(problem) \in CompletedReasons
  BY DEF ProblemReason, CompletedReasons
<1>2. "INTERNAL_ERROR" \in CompletedReasons
  BY DEF CompletedReasons
<1> QED
  BY <1>1, <1>2 DEF ControllingReason

(* The terminal step of explainResult agrees with the determination beside it. *)
LEMMA SummarySound ==
  ASSUME NEW decision, NEW classified
  PROVE  LET summary == Summary(decision, classified)
         IN  /\ summary.step \in TraceStep /\ StepValid(summary.step)
             /\ summary.step.terminal
             /\ summary.determination \in Determinations
             /\ summary.outcome \in Outcomes \cup {NoOutcome}
             /\ OutcomeValid(summary.determination, summary.outcome)
             /\ TerminalResultValid(summary.determination, summary.step.result)
<1> DEFINE summary == Summary(decision, classified)
           reason == ControllingReason(classified)
           Ends(determination, outcome, result, why) ==
             summary = [determination |-> determination, outcome |-> outcome,
                        step |-> Step("matchConditions", result, why, TRUE)]
<1>1. \/ Ends("determinate", "called", "true", "MATCH_CONDITIONS_TRUE")
      \/ Ends("determinate", "skipped", "false", "MATCH_CONDITION_FALSE")
      \/ Ends("determinate", "rejected-before-call", "error", reason)
      \/ Ends("determinate", "skipped", "error", reason)
      \/ Ends("indeterminate", NoOutcome, "indeterminate", "AUTHORIZATION_CONTEXT_MISSING")
      \/ Ends("unsupported", NoOutcome, "unsupported", "CAPABILITY_OUTSIDE_PROFILE")
  BY DEF Summary
<1>2. \E determination \in Determinations, outcome \in Outcomes \cup {NoOutcome},
         result \in TraceResults \ {"not-run"}, why \in CompletedReasons :
        /\ OutcomeValid(determination, outcome)
        /\ TerminalResultValid(determination, result)
        /\ Ends(determination, outcome, result, why)
  <2>1. /\ {"determinate", "indeterminate", "unsupported"} \subseteq Determinations
        /\ {"called", "skipped", "rejected-before-call"} \subseteq Outcomes
        /\ {"true", "false", "error", "indeterminate", "unsupported"}
             \subseteq TraceResults \ {"not-run"}
        /\ {"MATCH_CONDITIONS_TRUE", "MATCH_CONDITION_FALSE", "AUTHORIZATION_CONTEXT_MISSING",
            "CAPABILITY_OUTSIDE_PROFILE"} \subseteq CompletedReasons
    BY DEF Determinations, Outcomes, TraceResults, CompletedReasons
  <2>2. reason \in CompletedReasons
    BY ControllingReasonCompleted
  <2>3. /\ \A outcome \in Outcomes : OutcomeValid("determinate", outcome)
        /\ OutcomeValid("indeterminate", NoOutcome) /\ OutcomeValid("unsupported", NoOutcome)
        /\ \A result \in {"true", "false", "error"} :
             TerminalResultValid("determinate", result)
        /\ TerminalResultValid("indeterminate", "indeterminate")
        /\ TerminalResultValid("unsupported", "unsupported")
    BY DEF OutcomeValid, TerminalResultValid
  <2> HIDE DEF Ends, reason
  <2> QED
    BY <1>1, <2>1, <2>2, <2>3
<1>3. PICK determination \in Determinations, outcome \in Outcomes \cup {NoOutcome},
           result \in TraceResults \ {"not-run"}, why \in CompletedReasons :
        /\ OutcomeValid(determination, outcome)
        /\ TerminalResultValid(determination, result)
        /\ Ends(determination, outcome, result, why)
  BY <1>2
<1> DEFINE last == Step("matchConditions", result, why, TRUE)
<1>4. /\ last \in TraceStep /\ StepValid(last) /\ last.terminal
      /\ last.result = result
  <2>1. "matchConditions" \in Stages
    BY DEF Stages
  <2> QED
    BY <2>1, StepSound
<1>5. /\ summary.determination = determination /\ summary.outcome = outcome
      /\ summary.step = last
  BY <1>3
<1> HIDE DEF summary, last
<1>6. /\ summary.step \in TraceStep /\ StepValid(summary.step)
      /\ summary.step.terminal
      /\ summary.determination \in Determinations
      /\ summary.outcome \in Outcomes \cup {NoOutcome}
      /\ OutcomeValid(summary.determination, summary.outcome)
      /\ TerminalResultValid(summary.determination, summary.step.result)
  BY <1>3, <1>4, <1>5
<1> QED
  BY <1>6 DEF summary

(* The step a condition leaves in the trace is valid and not terminal. *)
LEMMA ObservationStepSound ==
  ASSUME NEW observation \in Observation
  PROVE  LET step == ObservationStep(observation)
         IN  step \in TraceStep /\ StepValid(step) /\ ~step.terminal
<1> DEFINE Sounds(result, why) ==
             /\ Step("matchConditions", result, why, FALSE) \in TraceStep
             /\ StepValid(Step("matchConditions", result, why, FALSE))
             /\ ~Step("matchConditions", result, why, FALSE).terminal
<1>1. \A problem : ProblemReason(problem) \in CompletedReasons
  BY DEF ProblemReason, CompletedReasons
<1>2. /\ "matchConditions" \in Stages
      /\ {"true", "false", "error", "indeterminate", "unsupported"}
           \subseteq TraceResults \ {"not-run"}
      /\ {"MATCH_CONDITION_TRUE", "MATCH_CONDITION_FALSE"} \subseteq CompletedReasons
  BY DEF Stages, TraceResults, CompletedReasons
<1>3. \A result \in TraceResults \ {"not-run"}, why \in CompletedReasons : Sounds(result, why)
  BY <1>2, StepSound
<1>4. \E result \in {"true", "false", "error", "indeterminate", "unsupported"},
         why \in {"MATCH_CONDITION_TRUE", "MATCH_CONDITION_FALSE",
                 ProblemReason(observation.problem)} :
        ObservationStep(observation) = Step("matchConditions", result, why, FALSE)
  BY DEF ObservationStep
<1> QED
  BY <1>1, <1>2, <1>3, <1>4

(* preserveAuthorizationContext renames a problem, and leaves an observation. *)
LEMMA ClassifyType ==
  ASSUME NEW observation \in Observation
  PROVE  Classify(observation) \in Observation
BY DEF Classify, Observation, Problems

(* The step that ended a trace, when it is taken back as its end. *)
LEMMA Reopened ==
  ASSUME NEW steps \in Seq(TraceStep), NEW last \in TraceStep
  PROVE  LET all == Append(steps, last)
         IN  [all EXCEPT ![Len(all)].terminal = FALSE] =
               Append(steps, [last EXCEPT !.terminal = FALSE])
<1> DEFINE all == Append(steps, last)
           n == Len(steps)
           open == [last EXCEPT !.terminal = FALSE]
           kept == Append(steps, open)
<1>1. open \in TraceStep
  BY DEF TraceStep
<1>2. all \in Seq(TraceStep) /\ Len(all) = n + 1 /\ all[n + 1] = last /\ n \in Nat
  OBVIOUS
<1>3. [all EXCEPT ![Len(all)].terminal = FALSE] = [all EXCEPT ![n + 1] = open]
  BY <1>2
<1> HIDE DEF open
<1>4. /\ [all EXCEPT ![n + 1] = open] \in Seq(TraceStep)
      /\ kept \in Seq(TraceStep)
      /\ Len([all EXCEPT ![n + 1] = open]) = n + 1 /\ Len(kept) = n + 1
  BY <1>1, <1>2
<1>5. \A i \in 1..(n + 1) : [all EXCEPT ![n + 1] = open][i] = kept[i]
  <2>1. /\ \A i \in 1..n : all[i] = steps[i] /\ kept[i] = steps[i]
        /\ kept[n + 1] = open
    BY <1>1, <1>2
  <2> HIDE DEF all, kept, n
  <2>2. \A i \in 1..(n + 1) :
          [all EXCEPT ![n + 1] = open][i] = IF i = n + 1 THEN open ELSE all[i]
    BY <1>2
  <2> QED
    BY <1>2, <2>1, <2>2
<1>6. [all EXCEPT ![n + 1] = open] = kept
  BY <1>4, <1>5, SeqEqual
<1> QED
  BY <1>3, <1>6 DEF open

(* A call that a dry run cannot make is valid as well: the step that would have
   ended the Webhook is no longer terminal (markDryRunUnsupported). *)
LEMMA DryRunSound ==
  ASSUME NEW steps \in Seq(TraceStep), Sound(steps),
         NEW last \in TraceStep, StepValid(last), last.terminal
  PROVE  LET e == MarkDryRunUnsupported(Append(steps, last))
         IN  e \in WebhookEvaluation /\ EvaluationValid(e)
<1> DEFINE all == Append(steps, last)
           open == [last EXCEPT !.terminal = FALSE]
           kept == Append(steps, open)
           added == Step("dryRunSideEffects", "unsupported", "CAPABILITY_OUTSIDE_PROFILE", TRUE)
           diagnostics == <<[code |-> "CAPABILITY_OUTSIDE_PROFILE", severity |-> "warning"]>>
<1>1. open \in TraceStep /\ StepValid(open) /\ ~open.terminal
  BY DEF TraceStep, StepValid
<1>2. [all EXCEPT ![Len(all)].terminal = FALSE] = kept
  BY Reopened
<1> HIDE DEF open
<1>3. kept \in Seq(TraceStep) /\ Sound(kept)
  BY <1>1, AppendSound
<1>4. /\ "dryRunSideEffects" \in Stages
      /\ "unsupported" \in TraceResults \ {"not-run"}
      /\ "CAPABILITY_OUTSIDE_PROFILE" \in CompletedReasons
  BY DEF Stages, TraceResults, CompletedReasons
<1>5. added \in TraceStep /\ StepValid(added) /\ added.terminal /\ added.result = "unsupported"
  BY <1>4, StepSound
<1>6. diagnostics \in Seq(Diagnostic)
  BY <1>4 DEF Diagnostic, ReasonCodes
<1>7. /\ OutcomeValid("unsupported", NoOutcome)
      /\ TerminalResultValid("unsupported", added.result)
      /\ "unsupported" \in Determinations
      /\ NoOutcome \in Outcomes \cup {NoOutcome}
  BY <1>5 DEF OutcomeValid, TerminalResultValid, Determinations
<1>8. MarkDryRunUnsupported(all) =
        Evaluated("unsupported", NoOutcome, Append(kept, added), diagnostics)
  BY <1>2 DEF MarkDryRunUnsupported, DryRunUnsupportedAfter
<1> HIDE DEF all, kept, added, diagnostics
<1>9. LET e == Evaluated("unsupported", NoOutcome, Append(kept, added), diagnostics)
      IN  e \in WebhookEvaluation /\ EvaluationValid(e)
  BY <1>3, <1>5, <1>6, <1>7, EndedTraceValid
<1> QED
  BY <1>8, <1>9 DEF all

(* The evaluation a Webhook gets from its conditions satisfies the contract. *)
LEMMA ExplainValid ==
  ASSUME trace \in Seq(TraceStep), Sound(trace),
         NEW decision, NEW classified \in Seq(Observation)
  PROVE  LET e == Explain(decision, classified)
         IN  e \in WebhookEvaluation /\ EvaluationValid(e)
<1> DEFINE summary == Summary(decision, classified)
           last == summary.step
           mapped == [i \in DOMAIN classified |-> ObservationStep(classified[i])]
           steps == trace \o mapped
           explained == Explain(decision, classified)
           called == <<[code |-> "CAPABILITY_OUTSIDE_PROFILE", severity |-> "info"]>>
<1>1. /\ last \in TraceStep /\ StepValid(last) /\ last.terminal
      /\ summary.determination \in Determinations
      /\ summary.outcome \in Outcomes \cup {NoOutcome}
      /\ OutcomeValid(summary.determination, summary.outcome)
      /\ TerminalResultValid(summary.determination, last.result)
  BY SummarySound
<1>2. /\ mapped \in Seq(TraceStep) /\ Sound(mapped)
      /\ DOMAIN mapped = 1..Len(mapped) /\ Len(mapped) \in Nat
  <2>1. \A i \in DOMAIN classified :
          LET step == ObservationStep(classified[i])
          IN  step \in TraceStep /\ StepValid(step) /\ ~step.terminal
    BY ObservationStepSound
  <2>2. DOMAIN classified = 1..Len(classified) /\ Len(classified) \in Nat
    OBVIOUS
  <2>3. mapped \in Seq(TraceStep)
    BY <2>1, <2>2
  <2>4. Sound(mapped)
    BY <2>1 DEF Sound
  <2> QED
    BY <2>3, <2>4
<1> HIDE DEF mapped
<1>3. /\ steps \in Seq(TraceStep)
      /\ Len(steps) = Len(trace) + Len(mapped)
      /\ \A i \in DOMAIN steps : IF i <= Len(trace) THEN steps[i] = trace[i]
                                 ELSE steps[i] = mapped[i - Len(trace)]
  BY <1>2
<1>4. Sound(steps)
  <2> SUFFICES ASSUME NEW i \in DOMAIN steps
               PROVE  StepValid(steps[i]) /\ ~steps[i].terminal
    BY DEF Sound
  <2>1. CASE i <= Len(trace)
    <3>1. i \in DOMAIN trace /\ steps[i] = trace[i]
      BY <1>3, <2>1
    <3> QED
      BY <3>1 DEF Sound
  <2>2. CASE ~(i <= Len(trace))
    <3>1. i - Len(trace) \in DOMAIN mapped /\ steps[i] = mapped[i - Len(trace)]
      BY <1>2, <1>3, <2>2
    <3> QED
      BY <1>2, <3>1 DEF Sound
  <2> QED
    BY <2>1, <2>2
<1> HIDE DEF steps, summary
<1>5. explained = IF summary.outcome # "called"
          THEN Evaluated(summary.determination, summary.outcome, steps \o <<last>>,
                         ConditionDiagnostics(summary))
          ELSE IF DryRunUnsupported THEN MarkDryRunUnsupported(steps \o <<last>>)
          ELSE Evaluated(summary.determination, summary.outcome, steps \o <<last>>, called)
  BY DEF Explain, summary, steps, mapped
<1> HIDE DEF explained, last
<1>6. steps \o <<last>> = Append(steps, last)
  BY <1>1, <1>3
<1>7. ConditionDiagnostics(summary) \in Seq(Diagnostic)
  <2>1. last.reason \in ReasonCodes
    BY <1>1 DEF TraceStep
  <2>2. \A severity \in {"error", "warning"} :
          <<[code |-> last.reason, severity |-> severity]>> \in Seq(Diagnostic)
    BY <2>1 DEF Diagnostic
  <2>3. \/ ConditionDiagnostics(summary) = <<>>
        \/ \E severity \in {"error", "warning"} :
             ConditionDiagnostics(summary) = <<[code |-> last.reason, severity |-> severity]>>
    BY DEF ConditionDiagnostics, last
  <2>4. <<>> \in Seq(Diagnostic)
    OBVIOUS
  <2> QED
    BY <2>2, <2>3, <2>4
<1>8. called \in Seq(Diagnostic)
  BY DEF Diagnostic, ReasonCodes, CompletedReasons
<1> HIDE DEF called
<1>9. \A diagnostics \in Seq(Diagnostic) :
        LET e == Evaluated(summary.determination, summary.outcome,
                           Append(steps, last), diagnostics)
        IN  e \in WebhookEvaluation /\ EvaluationValid(e)
  BY <1>1, <1>3, <1>4, EndedTraceValid
<1>10. LET e == MarkDryRunUnsupported(Append(steps, last))
       IN  e \in WebhookEvaluation /\ EvaluationValid(e)
  BY <1>1, <1>3, <1>4, DryRunSound
<1>11. explained \in WebhookEvaluation /\ EvaluationValid(explained)
  BY <1>5, <1>6, <1>7, <1>8, <1>9, <1>10
<1> QED
  BY <1>11 DEF explained

(* The reduction of the conditions, which ends the Webhook. *)
LEMMA ReduceKeeps == ASSUME IInv, ReduceConditions PROVE IInv'
<1> DEFINE classified == ClassifyAll(observations)
           decision == PreserveAuthorizationContext(
                         Decide(observations, Failed, webhook.failurePolicy), classified)
<1>1. /\ stage \notin {"exemption", "done"}
      /\ Finish(Explain(decision, classified))
      /\ UNCHANGED <<pending, observations, remaining>>
  BY DEF ReduceConditions
<1>2. classified \in Seq(Observation)
  <2>1. \A i \in DOMAIN observations : Classify(observations[i]) \in Observation
    BY <1>1, Running, ClassifyType
  <2>2. DOMAIN observations = 1..Len(observations) /\ Len(observations) \in Nat
    BY <1>1, Running
  <2> QED
    BY <2>1, <2>2 DEF ClassifyAll
<1>3. Locals
  BY <1>1, Running DEF Locals
<1> HIDE DEF classified, decision
<1> QED
  BY <1>1, <1>2, <1>3, Running, ExplainValid, FinishKeeps

-------------------------------------------------------------------------------
(***************************************************************************)
(* The induction.                                                          *)
(***************************************************************************)

(* Evaluate starts with no results and an empty trace. *)
LEMMA InitHolds == Init => IInv
<1> SUFFICES ASSUME Init PROVE IInv
  OBVIOUS
<1>1. /\ snapshot \in Snapshots
      /\ trace = <<>> /\ pending = <<>> /\ observations = <<>> /\ results = <<>>
      /\ remaining = 0
      /\ stage = IF snapshot.webhooks = <<>> THEN "done" ELSE "exemption"
  BY DEF Init
<1>2. /\ Len(snapshot.webhooks) \in Nat
      /\ snapshot.webhooks # <<>> => Len(snapshot.webhooks) > 0
  BY <1>1, SnapshotAssumption
<1>3. TypeOK
  BY <1>1, <1>2, CostAssumption DEF TypeOK, PipelineStages
<1>4. ResultsValid
  BY <1>1 DEF ResultsValid
<1>5. BetweenStages
  BY <1>1 DEF BetweenStages
<1> QED
  BY <1>3, <1>4, <1>5 DEF IInv

(* Every step of the pipeline preserves the invariant. *)
LEMMA NextKeeps == IInv /\ [Next]_vars => IInv'
<1> SUFFICES ASSUME IInv, [Next]_vars PROVE IInv'
  OBVIOUS
<1>1. CASE CheckExemption
  BY <1>1, ExemptionKeeps
<1>2. CASE EvaluateNamespaceSelector
  BY <1>2, SelectorKeeps DEF EvaluateNamespaceSelector
<1>3. CASE EvaluateObjectSelector
  BY <1>3, SelectorKeeps DEF EvaluateObjectSelector
<1>4. CASE EvaluateExactRules
  BY <1>4, ExactRulesKeeps
<1>5. CASE EvaluateEquivalentRules
  BY <1>5, EquivalentRulesKeeps
<1>6. CASE StartMatchConditions
  BY <1>6, StartKeeps
<1>7. CASE EvaluateCondition
  BY <1>7, ConditionKeeps
<1>8. CASE ReduceConditions
  BY <1>8, ReduceKeeps
<1>9. CASE UNCHANGED vars
  BY <1>9 DEF vars, IInv, TypeOK, ResultsValid, BetweenStages, Sound, PointsAtPending
<1> QED
  BY <1>1, <1>2, <1>3, <1>4, <1>5, <1>6, <1>7, <1>8, <1>9 DEF Next

(***************************************************************************)
(* The invariant holds of every evaluation, of any snapshot.               *)
(***************************************************************************)
THEOREM Invariance == Spec => []IInv
<1>1. Init => IInv
  BY InitHolds
<1>2. IInv /\ [Next]_vars => IInv'
  BY NextKeeps
<1> QED
  BY <1>1, <1>2, PTL DEF Spec

(***************************************************************************)
(* Evaluate keeps its types: the budget never goes below zero, a deferred  *)
(* problem is one of a selector, and there is never a result too many.     *)
(***************************************************************************)
THEOREM TypeCorrectness == Spec => []TypeOK
<1>1. IInv => TypeOK
  BY DEF IInv
<1> QED
  BY <1>1, Invariance, PTL

(***************************************************************************)
(* Every evaluation Evaluate publishes passes WebhookEvaluation.Validate,  *)
(* for every configuration, request, fixture and budget.                   *)
(***************************************************************************)
THEOREM ContractKept == Spec => []ResultsValid
<1>1. IInv => ResultsValid
  BY DEF IInv
<1> QED
  BY <1>1, Invariance, PTL

-------------------------------------------------------------------------------
(***************************************************************************)
(* The identity guard.                                                     *)
(***************************************************************************)

(* The step the guard ends a trace with. *)
LEMMA MissingStepSound ==
  LET last == Step("matchConditions", "indeterminate", "IDENTITY_CONTEXT_MISSING", TRUE)
  IN /\ last \in TraceStep /\ StepValid(last) /\ last.terminal
     /\ last.stage = "matchConditions" /\ last.result = "indeterminate"
<1>1. /\ "matchConditions" \in Stages
      /\ "indeterminate" \in TraceResults \ {"not-run"}
      /\ "IDENTITY_CONTEXT_MISSING" \in CompletedReasons
  BY DEF Stages, TraceResults, CompletedReasons
<1>2. Step("matchConditions", "indeterminate", "IDENTITY_CONTEXT_MISSING", TRUE).stage
        = "matchConditions"
  BY DEF Step
<1> QED
  BY <1>1, <1>2, StepSound

(* A valid step that ends nothing any more is a valid step still. *)
LEMMA UnendedSound ==
  ASSUME NEW step \in TraceStep, StepValid(step)
  PROVE  LET unended == [step EXCEPT !.terminal = FALSE]
         IN unended \in TraceStep /\ StepValid(unended) /\ ~unended.terminal
BY DEF TraceStep, StepValid

(* What is left of a trace that is cut is sound, wherever it is cut. *)
LEMMA CutSound ==
  ASSUME NEW steps \in Seq(TraceStep), \A i \in DOMAIN steps : StepValid(steps[i]),
         NEW first \in DOMAIN steps
  PROVE  LET cut == [i \in 1..(first - 1) |-> [steps[i] EXCEPT !.terminal = FALSE]]
         IN cut \in Seq(TraceStep) /\ Sound(cut)
<1> DEFINE cut == [i \in 1..(first - 1) |-> [steps[i] EXCEPT !.terminal = FALSE]]
<1>1. /\ first - 1 \in Nat
      /\ \A i \in 1..(first - 1) : i \in DOMAIN steps /\ steps[i] \in TraceStep
  OBVIOUS
<1>2. \A i \in 1..(first - 1) :
        cut[i] \in TraceStep /\ StepValid(cut[i]) /\ ~cut[i].terminal
  BY <1>1, UnendedSound
<1>3. DOMAIN cut = 1..(first - 1)
  OBVIOUS
<1> HIDE DEF cut
<1>4. cut \in Seq(TraceStep)
  <2>1. cut = [i \in 1..(first - 1) |-> cut[i]]
    BY DEF cut
  <2> QED
    BY <1>1, <1>2, <2>1
<1>5. Sound(cut)
  BY <1>2, <1>3 DEF Sound
<1> QED
  BY <1>4, <1>5 DEF cut

(* Of the steps of the conditions, if there are any, one is the first. *)
LEMMA FirstConditionStep ==
  ASSUME NEW steps \in Seq(TraceStep), ConditionSteps(steps) # {}
  PROVE  (CHOOSE i \in ConditionSteps(steps) : \A j \in ConditionSteps(steps) : i <= j)
           \in DOMAIN steps
<1>1. ConditionSteps(steps) \subseteq Nat
  BY DEF ConditionSteps
<1>2. PICK i \in ConditionSteps(steps) :
        \A j \in ConditionSteps(steps) : ~(<<j, i>> \in OpToRel(<, Nat))
  BY <1>1, NatLessThanWellFounded, WFMin
<1>3. ASSUME NEW j \in Nat, NEW k \in Nat, j < k
      PROVE  <<j, k>> \in OpToRel(<, Nat)
  BY <1>3 DEF OpToRel
<1>4. \A j \in ConditionSteps(steps) : i <= j
  <2> SUFFICES ASSUME NEW j \in ConditionSteps(steps) PROVE ~(j < i)
    BY <1>1
  <2> QED
    BY <1>1, <1>2, <1>3
<1> QED
  BY <1>4 DEF ConditionSteps

(* The last step of a sound trace that was ended gives its reason. *)
LEMMA EndedTraceReason ==
  ASSUME NEW steps \in Seq(TraceStep), Sound(steps),
         NEW last \in TraceStep, last.terminal
  PROVE  TerminalReasonCode(Append(steps, last)) = last.reason
<1> DEFINE all == Append(steps, last)
           n   == Len(steps) + 1
<1>1. /\ DOMAIN all = 1..n /\ n \in Nat /\ DOMAIN steps = 1..(n - 1)
      /\ \A i \in 1..(n - 1) : all[i] = steps[i] /\ ~steps[i].terminal
      /\ all[n] = last
  BY DEF Sound
<1>2. TerminalSteps(all) = {n}
  BY <1>1 DEF TerminalSteps
<1>3. (CHOOSE i \in {n} : \A j \in {n} : j <= i) = n
  BY <1>1
<1> QED
  BY <1>1, <1>2, <1>3 DEF TerminalReasonCode

(* The guard on one valid evaluation. *)
LEMMA GuardSound ==
  ASSUME NEW e \in WebhookEvaluation, EvaluationValid(e)
  PROVE  /\ EvaluationValid(MarkMissingIdentity(e))
         /\ VerdictIn(MarkMissingIdentity(e)) = Guarded(VerdictIn(e))
<1> DEFINE reached == ConditionSteps(e.trace)
           first   == CHOOSE i \in reached : \A j \in reached : i <= j
           cut     == [i \in 1..(first - 1) |-> [e.trace[i] EXCEPT !.terminal = FALSE]]
           last    == Step("matchConditions", "indeterminate",
                           "IDENTITY_CONTEXT_MISSING", TRUE)
           diagnostics == <<[code |-> "IDENTITY_CONTEXT_MISSING", severity |-> "warning"]>>
           guarded == Evaluated("indeterminate", NoOutcome, Append(cut, last), diagnostics)
<1>1. e.trace \in Seq(TraceStep) /\ \A i \in DOMAIN e.trace : StepValid(e.trace[i])
  BY DEF WebhookEvaluation, EvaluationValid
<1>2. VerdictIn(e).reached <=> reached # {}
  BY DEF VerdictIn, Verdict, ConditionSteps
<1>3. CASE reached = {}
  <2>1. MarkMissingIdentity(e) = e
    BY <1>3 DEF MarkMissingIdentity
  <2>2. Guarded(VerdictIn(e)) = VerdictIn(e)
    BY <1>2, <1>3 DEF Guarded
  <2> QED
    BY <2>1, <2>2
<1>4. CASE reached # {}
  <2>1. first \in DOMAIN e.trace
    BY <1>1, <1>4, FirstConditionStep
  <2>2. cut \in Seq(TraceStep) /\ Sound(cut)
    <3> HIDE DEF first
    <3> QED
      BY <1>1, <2>1, CutSound
  <2>3. MarkMissingIdentity(e) = guarded
    BY <1>4 DEF MarkMissingIdentity, IdentityMissing, Evaluated
  <2>4. diagnostics \in Seq(Diagnostic)
    <3>1. "IDENTITY_CONTEXT_MISSING" \in ReasonCodes
      BY DEF ReasonCodes, CompletedReasons
    <3> QED
      BY <3>1 DEF Diagnostic
  <2>6. /\ last \in TraceStep /\ StepValid(last) /\ last.terminal
        /\ last.stage = "matchConditions" /\ last.result = "indeterminate"
    BY MissingStepSound
  <2>7. /\ OutcomeValid("indeterminate", NoOutcome)
        /\ TerminalResultValid("indeterminate", "indeterminate")
        /\ "indeterminate" \in Determinations
        /\ NoOutcome \in Outcomes \cup {NoOutcome}
    BY DEF OutcomeValid, TerminalResultValid, Determinations
  <2> HIDE DEF cut, last, diagnostics
  <2>8. EvaluationValid(guarded)
    BY <2>2, <2>4, <2>6, <2>7, EndedTraceValid
  <2>9. Append(cut, last)[Len(cut) + 1] = last /\ Len(cut) + 1 \in DOMAIN Append(cut, last)
    BY <2>2, <2>6
  <2>10. VerdictIn(guarded) = Undecided("IDENTITY_CONTEXT_MISSING", TRUE)
    <3>1. guarded.trace = Append(cut, last)
      BY DEF Evaluated
    <3>2. TerminalReasonCode(guarded.trace) = last.reason
      BY <2>2, <2>6, <3>1, EndedTraceReason
    <3>3. last.reason = "IDENTITY_CONTEXT_MISSING"
      BY DEF last, Step
    <3> QED
      BY <2>6, <2>9, <3>1, <3>2, <3>3 DEF VerdictIn, Evaluated, Undecided
  <2>11. Guarded(VerdictIn(e)) = Undecided("IDENTITY_CONTEXT_MISSING", TRUE)
    BY <1>2, <1>4 DEF Guarded
  <2> QED
    BY <2>3, <2>8, <2>10, <2>11
<1> QED
  BY <1>3, <1>4

(***************************************************************************)
(* Taking back the answer of any evaluation Evaluate publishes, for want   *)
(* of an identity, leaves a valid evaluation that says just that, and      *)
(* leaves alone the Webhooks that never came to their conditions.          *)
(***************************************************************************)
THEOREM GuardSafe == Spec => []GuardKeepsResultsValid
<1>1. ASSUME IInv PROVE GuardKeepsResultsValid
  <2>1. \A i \in DOMAIN results :
          results[i] \in WebhookEvaluation /\ EvaluationValid(results[i])
    BY <1>1 DEF IInv, TypeOK, ResultsValid
  <2> QED
    BY <2>1, GuardSound DEF GuardKeepsResultsValid
<1> QED
  BY <1>1, Invariance, PTL
===============================================================================
