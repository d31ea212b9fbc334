----------------------------- MODULE VerdictLemmas -----------------------------
(***************************************************************************)
(* What the proofs about the pipeline and about the commands need of a     *)
(* verdict: what more fixtures leave of it, and what it contributes to an  *)
(* exit code.                                                              *)
(***************************************************************************)
EXTENDS ExitCode, Judgement, DataLemmas

(***************************************************************************)
(* The exit codes.                                                         *)
(***************************************************************************)
(* The code of the highest priority among those that are not 0. *)
LEMMA SelectedCode ==
  ASSUME NEW codes
  PROVE  \/ /\ SelectExitCode(codes) = ExitSuccess
            /\ \A q \in 1..4 : ExitPriority[q] \notin codes
         \/ \E p \in 1..4 :
              /\ SelectExitCode(codes) = ExitPriority[p] /\ ExitPriority[p] \in codes
              /\ \A q \in 1..4 : ExitPriority[q] \in codes => q <= p
<1> DEFINE ranked == {p \in DOMAIN ExitPriority : ExitPriority[p] \in codes}
           worst == CHOOSE p \in ranked : \A q \in ranked : q <= p
<1>1. DOMAIN ExitPriority = 1..4
  BY DEF ExitPriority
<1>2. SelectExitCode(codes) = IF ranked = {} THEN ExitSuccess ELSE ExitPriority[worst]
  BY DEF SelectExitCode
<1>3. CASE ranked = {}
  BY <1>1, <1>2, <1>3
<1>4. CASE ranked # {}
  <2>1. ranked \subseteq 0..4
    BY <1>1
  <2>2. \E p \in ranked : \A q \in ranked : q <= p
    <3> HIDE DEF ranked
    <3> QED BY <1>4, <2>1, NatMaximum
  <2>3. worst \in ranked /\ \A q \in ranked : q <= worst
    BY <2>2
  <2>4. SelectExitCode(codes) = ExitPriority[worst]
    BY <1>2, <1>4
  <2> HIDE DEF worst
  <2>5. worst \in 1..4 /\ ExitPriority[worst] \in codes
    BY <1>1, <2>3
  <2>6. \A q \in 1..4 : ExitPriority[q] \in codes => q <= worst
    BY <1>1, <2>3
  <2> QED BY <2>4, <2>5, <2>6
<1> QED BY <1>3, <1>4

LEMMA Priorities ==
  /\ ExitPriority[1] = ExitIncompleteEvaluation /\ ExitPriority[2] = ExitExpectationMismatch
  /\ ExitPriority[3] = ExitInvalidInput /\ ExitPriority[4] = ExitInternalError
BY DEF ExitPriority

(* An incomplete result, or an error, and nothing else. *)
Unclear == {ExitIncompleteEvaluation, ExitInternalError}

LEMMA UnclearSelected ==
  ASSUME NEW codes, codes \subseteq {ExitSuccess} \cup Unclear
  PROVE  /\ SelectExitCode(codes) \in {ExitSuccess} \cup Unclear
         /\ codes \cap Unclear # {} => SelectExitCode(codes) \in Unclear
<1>1. CASE \E p \in 1..4 : SelectExitCode(codes) = ExitPriority[p] /\ ExitPriority[p] \in codes
  <2>1. PICK p \in 1..4 : SelectExitCode(codes) = ExitPriority[p] /\ ExitPriority[p] \in codes
    BY <1>1
  <2>2. ExitPriority[p] # ExitSuccess
    BY <2>1, Priorities DEF ExitSuccess, ExitIncompleteEvaluation, ExitExpectationMismatch,
       ExitInvalidInput, ExitInternalError
  <2> QED BY <2>1, <2>2
<1>2. CASE /\ SelectExitCode(codes) = ExitSuccess
           /\ \A q \in 1..4 : ExitPriority[q] \notin codes
  <2>1. codes \cap Unclear = {}
    BY <1>2, Priorities DEF Unclear
  <2> QED BY <1>2, <2>1
<1> QED BY <1>1, <1>2, SelectedCode

(* One evaluation is clean when all its verdicts are determinate. *)
LEMMA EvaluationCode ==
  ASSUME NEW verdicts
  PROVE  /\ EvaluationExitCode(verdicts) \in {ExitSuccess} \cup Unclear
         /\ EvaluationExitCode(verdicts) = ExitSuccess =>
              \A v \in verdicts : v.determination = "determinate"
<1> DEFINE codes == {DiagnosticExitCode(v) : v \in verdicts}
                      \cup {ExitIncompleteEvaluation :
                             v \in {u \in verdicts : u.determination # "determinate"}}
<1>1. EvaluationExitCode(verdicts) = SelectExitCode(codes)
  BY DEF EvaluationExitCode
<1>2. codes \subseteq {ExitSuccess} \cup Unclear
  BY DEF DiagnosticExitCode, Unclear
<1>3. ASSUME NEW v \in verdicts, v.determination # "determinate"
      PROVE  codes \cap Unclear # {}
  BY <1>3 DEF Unclear
<1> HIDE DEF codes
<1>4. ExitSuccess \notin Unclear
  BY DEF Unclear, ExitSuccess, ExitIncompleteEvaluation, ExitInternalError
<1> QED BY <1>1, <1>2, <1>3, <1>4, UnclearSelected

-------------------------------------------------------------------------------
(***************************************************************************)
(* The shape of the conditions of a Webhook.                               *)
(***************************************************************************)
WellFormedConditions(w) ==
  /\ IsSequence(w.matchConditions)
  /\ \A k \in DOMAIN w.matchConditions :
       /\ w.matchConditions[k].cost \in Nat
       /\ IsSequence(w.matchConditions[k].queries)

(***************************************************************************)
(* The costs so far, a recursive function: f is the part of it up to n.    *)
(***************************************************************************)
SpentTo(f, n, w, s) ==
  f = [k \in 0..n |-> IF k = 0 THEN 0
                      ELSE f[k - 1] + ConditionCost(w.matchConditions[k], s.authorization)]

LEMMA SpentStep ==
  ASSUME NEW w, NEW s, NEW n \in Nat \ {0}, NEW f, SpentTo(f, n - 1, w, s)
  PROVE  \E g : SpentTo(g, n, w, s)
<1> DEFINE cost(k) == ConditionCost(w.matchConditions[k], s.authorization)
           g == [k \in 0..n |-> IF k = n THEN f[n - 1] + cost(n) ELSE f[k]]
<1>1. \A k \in 0..(n - 1) : f[k] = IF k = 0 THEN 0 ELSE f[k - 1] + cost(k)
  BY DEF SpentTo
<1> HIDE DEF cost
<1>2. \A k \in 0..(n - 1) : g[k] = f[k] /\ g[n] = f[n - 1] + cost(n)
  OBVIOUS
<1>3. \A k \in 1..n : k - 1 \in 0..(n - 1) /\ g[k - 1] = f[k - 1]
  BY <1>2
<1>4. \A k \in 0..n : g[k] = IF k = 0 THEN 0 ELSE g[k - 1] + cost(k)
  BY <1>1, <1>3
<1>5. g = [k \in 0..n |-> g[k]]
  OBVIOUS
<1> HIDE DEF g
<1>6. g = [k \in 0..n |-> IF k = 0 THEN 0 ELSE g[k - 1] + cost(k)]
  BY <1>4, <1>5
<1> QED BY <1>6 DEF SpentTo, cost

LEMMA SpentExists ==
  ASSUME NEW w, NEW s, NEW n \in Nat
  PROVE  \E f : SpentTo(f, n, w, s)
<1> DEFINE T == {m \in Nat : ~ \E f : SpentTo(f, m, w, s)}
<1>1. SUFFICES ASSUME T # {} PROVE FALSE
  OBVIOUS
<1>2. PICK m \in T : \A k \in T : m <= k
  BY <1>1, NatMinimum
<1>3. m # 0
  <2>1. SpentTo([k \in 0..0 |-> 0], 0, w, s)
    <3>1. \A k \in 0..0 : k = 0
      OBVIOUS
    <3> QED BY <3>1 DEF SpentTo
  <2> QED BY <2>1
<1>4. m - 1 \in Nat /\ m - 1 \notin T
  BY <1>2, <1>3
<1>5. \E f : SpentTo(f, m - 1, w, s)
  BY <1>4
<1> QED BY <1>2, <1>3, <1>5, SpentStep

LEMMA SpentFacts ==
  ASSUME NEW w, WellFormedConditions(w), NEW s
  PROVE  /\ Spent(w, s)[0] = 0
         /\ \A k \in 1..Len(w.matchConditions) :
              Spent(w, s)[k] = Spent(w, s)[k - 1]
                                 + ConditionCost(w.matchConditions[k], s.authorization)
<1> DEFINE n == Len(w.matchConditions)
           f == CHOOSE f : SpentTo(f, n, w, s)
<1>1. n \in Nat
  BY SequenceFacts DEF WellFormedConditions
<1>2. SpentTo(f, n, w, s)
  BY <1>1, SpentExists
<1>3. Spent(w, s) = f
  BY DEF Spent, SpentTo
<1> HIDE DEF f
<1>4. /\ 0 \in 0..n /\ \A k \in 1..n : k \in 0..n /\ k # 0
  BY <1>1
<1> QED BY <1>2, <1>3, <1>4 DEF SpentTo

LEMMA SameSpent ==
  ASSUME NEW w, WellFormedConditions(w), NEW r, NEW s, r.authorization = s.authorization
  PROVE  \A k \in 0..Len(w.matchConditions) : Spent(w, r)[k] = Spent(w, s)[k]
<1> DEFINE n == Len(w.matchConditions)
           T == {k \in 0..n : Spent(w, r)[k] # Spent(w, s)[k]}
<1>1. n \in Nat
  BY SequenceFacts DEF WellFormedConditions
<1>2. SUFFICES ASSUME T # {} PROVE FALSE
  OBVIOUS
<1> HIDE DEF n
<1>3. PICK m \in T : \A k \in T : m <= k
  <2>1. T \subseteq Nat
    BY <1>1
  <2> HIDE DEF T
  <2> QED BY <1>2, <2>1, NatMinimum
<1>4. m # 0
  BY SpentFacts
<1>5. m \in 1..n /\ m - 1 \in 0..n /\ m - 1 \notin T
  BY <1>1, <1>3, <1>4
<1>6. /\ Spent(w, r)[m] = Spent(w, r)[m - 1]
                            + ConditionCost(w.matchConditions[m], r.authorization)
      /\ Spent(w, s)[m] = Spent(w, s)[m - 1]
                            + ConditionCost(w.matchConditions[m], s.authorization)
  BY <1>5, SpentFacts DEF n
<1> QED BY <1>3, <1>5, <1>6

-------------------------------------------------------------------------------
(***************************************************************************)
(* What the selectors, the rules and the conditions say of a Webhook.      *)
(***************************************************************************)
NamespaceOutcome(w, s) == MatchNamespaceSelector(w, s.request, s.namespaces)
ObjectOutcome(w, s) == MatchObjectSelector(w, s.request)

LEMMA RulesCases ==
  ASSUME NEW w, NEW s
  PROVE  Rules(w, s) \in {"match", "no-match", "unknown"}
<1>1. \A b : MatchOutcome(b) \in {"match", "no-match"}
  BY DEF MatchOutcome
<1> QED BY <1>1 DEF Rules

(***************************************************************************)
(* Webhooks that differ in their conditions, policies and side effects     *)
(* only are selected alike.                                                *)
(***************************************************************************)
SameSelection(w, v) ==
  /\ v.namespaceSelector = w.namespaceSelector /\ v.objectSelector = w.objectSelector
  /\ v.rules = w.rules /\ v.matchPolicy = w.matchPolicy

LEMMA SelectedAlike ==
  ASSUME NEW w, NEW v, SameSelection(w, v), NEW s
  PROVE  /\ NamespaceOutcome(v, s) = NamespaceOutcome(w, s)
         /\ ObjectOutcome(v, s) = ObjectOutcome(w, s)
         /\ Rules(v, s) = Rules(w, s)
         /\ MatchExactRules(v, s.request) = MatchExactRules(w, s.request)
         /\ InvocationKind(v, s) = InvocationKind(w, s)
<1>1. NamespaceOutcome(v, s) = NamespaceOutcome(w, s)
  BY DEF SameSelection, NamespaceOutcome, MatchNamespaceSelector
<1>2. ObjectOutcome(v, s) = ObjectOutcome(w, s)
  BY DEF SameSelection, ObjectOutcome, MatchObjectSelector
<1>3. MatchExactRules(v, s.request) = MatchExactRules(w, s.request)
  BY DEF SameSelection, MatchExactRules
<1>4. \A candidates :
        EquivalentMatches(v, s.request, candidates) = EquivalentMatches(w, s.request, candidates)
  BY DEF SameSelection, EquivalentMatches
<1>5. Rules(v, s) = Rules(w, s)
  BY <1>3, <1>4 DEF SameSelection, Rules
<1>6. InvocationKind(v, s) = InvocationKind(w, s)
  <2> DEFINE candidates == s.equivalents[RequestReference(s.request)]
             firstOf(matches) ==
               candidates[(CHOOSE m \in matches : \A other \in matches : Precedes(m, other))[2]]
  <2>1. /\ EquivalentInvocation(v, s.request, candidates)
             = firstOf(EquivalentMatches(v, s.request, candidates)).kind
        /\ EquivalentInvocation(w, s.request, candidates)
             = firstOf(EquivalentMatches(w, s.request, candidates)).kind
    BY Zenon DEF EquivalentInvocation
  <2>2. InvocationKind(v, s) = IF MatchExactRules(v, s.request) THEN s.request.kind
                               ELSE EquivalentInvocation(v, s.request, candidates)
    BY DEF InvocationKind
  <2>3. InvocationKind(w, s) = IF MatchExactRules(w, s.request) THEN s.request.kind
                               ELSE EquivalentInvocation(w, s.request, candidates)
    BY DEF InvocationKind
  <2> HIDE DEF firstOf, candidates
  <2> QED BY <1>3, <1>4, <2>1, <2>2, <2>3
<1> QED BY <1>1, <1>2, <1>3, <1>5, <1>6

ErrorsOf(w, s, k) == RecordedErrors(w.matchConditions[k], s.authorization)

Unmakeable(w, s) == s.request.dryRun /\ w.sideEffects \notin {"nil", "None", "NoneOnDryRun"}

BrokenOf(w, s) ==
  Stopping(w, s) \cup
    {k \in Completed(w, s) : \/ w.matchConditions[k].form \in {"runtime-error", "compile-error"}
                             \/ ErrorsOf(w, s, k) # {}}

IsFalse(w, s, k) ==
  /\ k \notin BrokenOf(w, s)
  /\ ~Holds(w.matchConditions[k], s.authorization, InvocationKind(w, s))

SomeIsFalse(w, s)   == \E k \in Completed(w, s) : IsFalse(w, s, k)
Asks(w, s, err)     == \E k \in Completed(w, s) : err \in ErrorsOf(w, s, k)

LEMMA VerdictOfConditions ==
  ASSUME NEW w, NEW s
  PROVE  ConditionsVerdict(w, s) =
           IF SomeIsFalse(w, s) THEN Decided("skipped", "MATCH_CONDITION_FALSE", TRUE)
           ELSE IF Asks(w, s, "unsupported") THEN Unsupported
           ELSE IF Asks(w, s, "missing") THEN Undecided("AUTHORIZATION_CONTEXT_MISSING", TRUE)
           ELSE IF BrokenOf(w, s) # {}
                THEN Decided(IF w.failurePolicy = "Fail" THEN "rejected-before-call"
                             ELSE "skipped",
                             BrokenReason(w, s, FirstBroken(BrokenOf(w, s))), TRUE)
           ELSE IF Unmakeable(w, s) THEN Unsupported
           ELSE Decided("called", "MATCH_CONDITIONS_TRUE", TRUE)
BY DEF ConditionsVerdict, SomeIsFalse, IsFalse, BrokenOf, Asks, ErrorsOf, Unmakeable

LEMMA VerdictFields ==
  /\ \A outcome, reason : /\ Decided(outcome, reason, TRUE).determination = "determinate"
                          /\ Decided(outcome, reason, TRUE).outcome = outcome
  /\ \A outcome, reason : /\ Decided(outcome, reason, FALSE).determination = "determinate"
                          /\ Decided(outcome, reason, FALSE).outcome = outcome
  /\ \A reason : /\ Undecided(reason, TRUE).determination = "indeterminate"
                 /\ Undecided(reason, FALSE).determination = "indeterminate"
  /\ Unsupported.determination = "unsupported"
BY DEF Decided, Undecided, Unsupported, Verdict

(* A verdict that comes from the conditions says that they were reached. *)
LEMMA ConditionsReached ==
  ASSUME NEW w, NEW s
  PROVE  /\ ConditionsVerdict(w, s).reached
         /\ ConditionsVerdict(w, s).reason # "NAMESPACE_CONTEXT_MISSING"
<1> DEFINE told(v) == v.reached /\ v.reason # "NAMESPACE_CONTEXT_MISSING"
<1>1. /\ \A outcome, reason : reason # "NAMESPACE_CONTEXT_MISSING" =>
                                told(Decided(outcome, reason, TRUE))
      /\ told(Undecided("AUTHORIZATION_CONTEXT_MISSING", TRUE))
      /\ told(Unsupported)
  BY DEF Decided, Undecided, Unsupported, Verdict
<1>2. \A k : BrokenReason(w, s, k) # "NAMESPACE_CONTEXT_MISSING"
  BY DEF BrokenReason
<1> HIDE DEF told
<1>3. told(ConditionsVerdict(w, s))
  BY <1>1, <1>2, VerdictOfConditions
<1> QED BY <1>3 DEF told

-------------------------------------------------------------------------------
(***************************************************************************)
(* What more fixtures change.  A condition that missed no decision asks    *)
(* the same queries and gets the same answers.                             *)
(***************************************************************************)
LEMMA SameAnswers ==
  ASSUME NEW condition, IsSequence(condition.queries), NEW less, NEW more,
         Extends(more, less), "missing" \notin RecordedErrors(condition, less)
  PROVE  /\ Asked(condition, more) = Asked(condition, less)
         /\ \A k \in Asked(condition, less) :
              Authorize(condition.queries[k], more) = Authorize(condition.queries[k], less)
<1> DEFINE queries == condition.queries
           positions == DOMAIN queries
           first == Asked(condition, less)
           then == Asked(condition, more)
           decides(k, authorization) ==
             Allowed(queries[k], authorization) <=> condition.form = "any"
<1>1. positions \subseteq Nat
  <2>1. positions = 1..Len(queries)
    BY SequenceFacts
  <2> QED BY <2>1
<1>2. /\ \A k : k \in first <=> /\ k \in positions /\ condition.form # "compile-error"
                                /\ \A j \in positions : decides(j, less) => k <= j
      /\ \A k : k \in then <=> /\ k \in positions /\ condition.form # "compile-error"
                               /\ \A j \in positions : decides(j, more) => k <= j
  BY DEF Asked
<1>3. \A k \in first : Authorize(queries[k], less) # "missing"
  BY DEF RecordedErrors, AuthorizationErrors
<1>4. ASSUME NEW query, Authorize(query, less) # "missing"
      PROVE  Authorize(query, more) = Authorize(query, less)
  BY <1>4 DEF Authorize, Extends
<1>5. \A k \in first : Authorize(queries[k], more) = Authorize(queries[k], less)
  BY <1>3, <1>4
<1>6. \A k \in first : decides(k, more) <=> decides(k, less)
  BY <1>5 DEF Allowed
<1> HIDE DEF positions, first, then, decides
<1>7. ASSUME NEW k \in first PROVE k \in then
  <2>1. ASSUME NEW j \in positions, decides(j, more), ~(k <= j) PROVE FALSE
    <3>1. k \in Nat /\ j \in Nat
      BY <1>1, <1>2
    <3>2. j \in first
      BY <1>1, <1>2, <2>1, <3>1
    <3>3. decides(j, less)
      BY <1>6, <2>1, <3>2
    <3> QED BY <1>2, <2>1, <3>3
  <2> QED BY <1>2, <2>1
<1>8. ASSUME NEW k \in then PROVE k \in first
  <2> SUFFICES ASSUME k \notin first PROVE FALSE
    OBVIOUS
  <2> DEFINE earlier == {j \in positions : decides(j, less)}
  <2>1. PICK j \in earlier : ~(k <= j)
    BY <1>2
  <2>2. earlier \subseteq Nat /\ earlier # {}
    BY <1>1, <2>1
  <2>3. PICK m \in earlier : \A n \in earlier : m <= n
    <3> HIDE DEF earlier
    <3> QED BY <2>2, NatMinimum
  <2>4. m \in first
    BY <1>2, <2>3
  <2>5. decides(m, more)
    BY <1>6, <2>3, <2>4
  <2>6. k <= m /\ m <= j
    BY <1>2, <2>1, <2>3, <2>5
  <2>7. k \in Nat /\ m \in Nat /\ j \in Nat
    BY <1>1, <1>2, <2>1, <2>3
  <2> QED BY <2>1, <2>6, <2>7
<1> QED BY <1>5, <1>7, <1>8 DEF first, then

LEMMA SameErrors ==
  ASSUME NEW condition, IsSequence(condition.queries), NEW less, NEW more,
         Extends(more, less), "missing" \notin RecordedErrors(condition, less)
  PROVE  RecordedErrors(condition, more) = RecordedErrors(condition, less)
<1>1. /\ Asked(condition, more) = Asked(condition, less)
      /\ \A k \in Asked(condition, less) :
           Authorize(condition.queries[k], more) = Authorize(condition.queries[k], less)
  BY SameAnswers
<1> QED BY <1>1 DEF RecordedErrors

LEMMA SameValue ==
  ASSUME NEW condition, IsSequence(condition.queries), NEW less, NEW more,
         Extends(more, less), "missing" \notin RecordedErrors(condition, less),
         condition.form # "compile-error", NEW kindSeen
  PROVE  Holds(condition, more, kindSeen) = Holds(condition, less, kindSeen)
<1> DEFINE queries == condition.queries
           positions == DOMAIN queries
           first == Asked(condition, less)
           decides(k) == Allowed(queries[k], less) <=> condition.form = "any"
           held(authorization) == \E k \in positions : Allowed(queries[k], authorization)
           allHeld(authorization) == \A k \in positions : Allowed(queries[k], authorization)
<1>1. positions \subseteq Nat
  <2>1. positions = 1..Len(queries)
    BY SequenceFacts
  <2> QED BY <2>1
<1>2. \A k \in first : Allowed(queries[k], more) <=> Allowed(queries[k], less)
  BY SameAnswers DEF Allowed
<1>3. \A k : k \in first <=> k \in positions /\ \A j \in positions : decides(j) => k <= j
  BY DEF Asked
<1>4. CASE \E j \in positions : decides(j)
  <2> DEFINE deciding == {j \in positions : decides(j)}
  <2>1. deciding \subseteq Nat /\ deciding # {}
    BY <1>1, <1>4
  <2>2. PICK m \in deciding : \A n \in deciding : m <= n
    <3> HIDE DEF deciding
    <3> QED BY <2>1, NatMinimum
  <2>3. m \in first /\ m \in positions /\ decides(m)
    BY <1>3, <2>2
  <2>4. condition.form = "any" => held(less) /\ held(more)
    BY <1>2, <2>3
  <2>5. condition.form = "all" => ~allHeld(less) /\ ~allHeld(more)
    BY <1>2, <2>3
  <2> QED BY <2>4, <2>5 DEF Holds
<1>5. CASE ~ \E j \in positions : decides(j)
  <2>1. \A k \in positions : Allowed(queries[k], more) <=> Allowed(queries[k], less)
    BY <1>2, <1>3, <1>5
  <2>2. (held(more) <=> held(less)) /\ (allHeld(more) <=> allHeld(less))
    BY <2>1
  <2> QED BY <2>2 DEF Holds
<1> QED BY <1>4, <1>5

SuppliesMore(more, less) ==
  /\ more.request = less.request
  /\ Extends(more.namespaces, less.namespaces)
  /\ Extends(more.equivalents, less.equivalents)
  /\ Extends(more.authorization, less.authorization)

(* What a selector, or the rules, said without a fixture they still say.   *)
LEMMA NamespaceKept ==
  ASSUME NEW w, NEW less, NEW more, SuppliesMore(more, less)
  PROVE  \/ NamespaceOutcome(w, less) = "missing-context"
         \/ NamespaceOutcome(w, more) = NamespaceOutcome(w, less)
<1> DEFINE r == less.request
           context(s) == NamespaceContextFor(r, s.namespaces)
<1>1. more.request = r /\ Extends(more.namespaces, less.namespaces)
  BY DEF SuppliesMore
<1>2. context(less).err = "missing-context" \/ context(more) = context(less)
  BY <1>1 DEF NamespaceContextFor, Extends
<1>3. \A s : s.request = r => NamespaceOutcome(w, s) = MatchNamespaceSelector(w, r, s.namespaces)
  BY DEF NamespaceOutcome
<1>4. NamespaceOutcome(w, less) = MatchNamespaceSelector(w, r, less.namespaces)
        /\ NamespaceOutcome(w, more) = MatchNamespaceSelector(w, r, more.namespaces)
  BY <1>1, <1>3
<1>5. CASE context(more) = context(less)
  BY <1>4, <1>5 DEF MatchNamespaceSelector
<1>6. CASE context(less).err = "missing-context"
  BY <1>4, <1>6 DEF MatchNamespaceSelector
<1> QED BY <1>2, <1>5, <1>6

LEMMA RulesKept ==
  ASSUME NEW w, NEW less, NEW more, SuppliesMore(more, less), Rules(w, less) # "unknown"
  PROVE  /\ Rules(w, more) = Rules(w, less)
         /\ Rules(w, less) = "match" => InvocationKind(w, more) = InvocationKind(w, less)
<1> DEFINE r == less.request
           reference == RequestReference(r)
<1>1. more.request = r /\ Extends(more.equivalents, less.equivalents)
  BY DEF SuppliesMore
<1>2. CASE MatchExactRules(w, r)
  BY <1>1, <1>2 DEF Rules, InvocationKind
<1>3. CASE ~MatchExactRules(w, r) /\ w.matchPolicy # "Equivalent"
  BY <1>1, <1>3 DEF Rules
<1>4. CASE ~MatchExactRules(w, r) /\ w.matchPolicy = "Equivalent"
  <2>1. reference \in DOMAIN less.equivalents
    BY <1>4 DEF Rules
  <2>2. /\ reference \in DOMAIN more.equivalents
        /\ more.equivalents[reference] = less.equivalents[reference]
    BY <1>1, <2>1 DEF Extends
  <2> QED BY <1>1, <1>4, <2>1, <2>2 DEF Rules, InvocationKind
<1> QED BY <1>2, <1>3, <1>4

LEMMA ConditionsKept ==
  ASSUME NEW w, WellFormedConditions(w), NEW less, NEW more, SuppliesMore(more, less),
         InvocationKind(w, more) = InvocationKind(w, less),
         Stopping(w, more) = Stopping(w, less),
         ConditionsVerdict(w, less).determination = "determinate"
  PROVE  Agrees(ConditionsVerdict(w, more), ConditionsVerdict(w, less))
<1> DEFINE conditions == w.matchConditions
           done == Completed(w, less)
<1>1. /\ done \subseteq DOMAIN conditions
      /\ \A k : k \in Completed(w, more) <=> k \in done
      /\ \A k : k \in Stopping(w, more) <=> k \in Stopping(w, less)
  BY DEF Completed
<1> HIDE DEF done
<1>2. ASSUME NEW k \in done, "missing" \notin ErrorsOf(w, less, k)
      PROVE  /\ ErrorsOf(w, more, k) = ErrorsOf(w, less, k)
             /\ k \in BrokenOf(w, more) <=> k \in BrokenOf(w, less)
             /\ IsFalse(w, more, k) <=> IsFalse(w, less, k)
  <2> DEFINE condition == conditions[k]
  <2>1. IsSequence(condition.queries)
    BY <1>1 DEF WellFormedConditions
  <2>2. Extends(more.authorization, less.authorization)
    BY DEF SuppliesMore
  <2>3. "missing" \notin RecordedErrors(condition, less.authorization)
    BY <1>2 DEF ErrorsOf
  <2>4. RecordedErrors(condition, more.authorization)
          = RecordedErrors(condition, less.authorization)
    BY <2>1, <2>2, <2>3, SameErrors
  <2>5. ErrorsOf(w, more, k) = ErrorsOf(w, less, k)
    BY <2>4 DEF ErrorsOf
  <2>6. k \in BrokenOf(w, more) <=> k \in BrokenOf(w, less)
    BY <1>1, <2>5 DEF BrokenOf, done
  <2>7. CASE condition.form = "compile-error"
    <3>1. k \in BrokenOf(w, less)
      BY <1>2, <2>7 DEF BrokenOf, done
    <3> QED BY <2>5, <2>6, <3>1 DEF IsFalse
  <2>8. CASE condition.form # "compile-error"
    <3> DEFINE kindSeen == InvocationKind(w, less)
    <3>1. Holds(condition, more.authorization, kindSeen)
            = Holds(condition, less.authorization, kindSeen)
      BY <2>1, <2>2, <2>3, <2>8, SameValue
    <3> QED BY <2>5, <2>6, <3>1 DEF IsFalse
  <2> QED BY <2>7, <2>8
<1>3. CASE SomeIsFalse(w, less)
  <2>1. PICK k \in done : IsFalse(w, less, k)
    BY <1>3 DEF SomeIsFalse, done
  <2>2. "missing" \notin ErrorsOf(w, less, k)
    BY <2>1 DEF IsFalse, BrokenOf, done
  <2>3. SomeIsFalse(w, more)
    BY <1>1, <1>2, <2>1, <2>2 DEF SomeIsFalse, done
  <2> QED BY <1>3, <2>3, VerdictOfConditions DEF Agrees
<1>4. CASE ~SomeIsFalse(w, less)
  <2>1. ~Asks(w, less, "unsupported") /\ ~Asks(w, less, "missing")
    BY <1>4, VerdictOfConditions, VerdictFields
  <2>2. \A k \in done : "missing" \notin ErrorsOf(w, less, k)
    BY <2>1 DEF Asks, done
  <2>3. \A k \in done :
          /\ ErrorsOf(w, more, k) = ErrorsOf(w, less, k)
          /\ k \in BrokenOf(w, more) <=> k \in BrokenOf(w, less)
          /\ IsFalse(w, more, k) <=> IsFalse(w, less, k)
    BY <1>2, <2>2
  <2>4. ~SomeIsFalse(w, more)
    BY <1>1, <1>4, <2>3 DEF SomeIsFalse, done
  <2>5. ~Asks(w, more, "unsupported") /\ ~Asks(w, more, "missing")
    BY <1>1, <2>1, <2>3 DEF Asks, done
  <2>6. BrokenOf(w, more) = {} <=> BrokenOf(w, less) = {}
    <3>1. \A k : k \in BrokenOf(w, more) \/ k \in BrokenOf(w, less) =>
                  k \in done \/ k \in Stopping(w, less)
      BY <1>1 DEF BrokenOf, done
    <3>2. \A k \in Stopping(w, less) : k \in BrokenOf(w, more) /\ k \in BrokenOf(w, less)
      BY <1>1 DEF BrokenOf
    <3> QED BY <2>3, <3>1, <3>2
  <2>7. Unmakeable(w, more) <=> Unmakeable(w, less)
    BY DEF Unmakeable, SuppliesMore
  <2> DEFINE byPolicy == IF w.failurePolicy = "Fail" THEN "rejected-before-call" ELSE "skipped"
             why(s) == BrokenReason(w, s, FirstBroken(BrokenOf(w, s)))
             told(s) == IF BrokenOf(w, s) # {} THEN Decided(byPolicy, why(s), TRUE)
                        ELSE IF Unmakeable(w, s) THEN Unsupported
                        ELSE Decided("called", "MATCH_CONDITIONS_TRUE", TRUE)
  <2>8. ConditionsVerdict(w, less) = told(less) /\ ConditionsVerdict(w, more) = told(more)
    BY <1>4, <2>1, <2>4, <2>5, VerdictOfConditions
  <2> HIDE DEF byPolicy, why
  <2>9. Agrees(told(more), told(less))
    <3>1. CASE BrokenOf(w, less) # {}
      <4>1. told(more) = Decided(byPolicy, why(more), TRUE)
              /\ told(less) = Decided(byPolicy, why(less), TRUE)
        BY <2>6, <3>1
      <4>2. ASSUME NEW reason PROVE /\ Decided(byPolicy, reason, TRUE).determination = "determinate"
                                    /\ Decided(byPolicy, reason, TRUE).outcome = byPolicy
        BY DEF Decided, Verdict
      <4>3. told(more).determination = "determinate" /\ told(more).outcome = byPolicy
        BY <4>1, <4>2
      <4>4. told(less).determination = "determinate" /\ told(less).outcome = byPolicy
        BY <4>1, <4>2
      <4> HIDE DEF told
      <4> QED BY <4>3, <4>4 DEF Agrees
    <3>2. CASE BrokenOf(w, less) = {}
      <4>1. told(more) = told(less)
        BY <2>6, <2>7, <3>2
      <4> HIDE DEF told
      <4> QED BY <4>1 DEF Agrees
    <3> QED BY <3>1, <3>2
  <2> HIDE DEF told
  <2> QED BY <2>8, <2>9
<1> QED BY <1>3, <1>4

(***************************************************************************)
(* The verdict as the routing leaves it: onward is what the conditions say *)
(* of a Webhook that gets so far.                                          *)
(***************************************************************************)
PayloadsFail(r) == Undecoded(r.object) \/ Undecoded(r.oldObject)

ControllingOutcome(w, s) ==
  IF NamespaceOutcome(w, s) \in SelectorProblems THEN NamespaceOutcome(w, s)
                                                 ELSE ObjectOutcome(w, s)

Routed(w, s, onward) ==
  IF IsExemptAdmissionConfigurationResource(s.request)
  THEN Decided("skipped", "ADMISSION_CONFIGURATION_EXCLUDED", FALSE)
  ELSE IF NamespaceOutcome(w, s) = "no-match"
       THEN Decided("skipped", "NAMESPACE_SELECTOR_NO_MATCH", FALSE)
  ELSE IF ObjectOutcome(w, s) = "no-match"
       THEN Decided("skipped", "OBJECT_SELECTOR_NO_MATCH", FALSE)
  ELSE IF Rules(w, s) = "no-match" THEN Decided("skipped", "RULE_NO_MATCH", FALSE)
  ELSE IF Rules(w, s) = "unknown" THEN Undecided("EQUIVALENCE_CONTEXT_MISSING", FALSE)
  ELSE IF ControllingOutcome(w, s) = "missing-context"
       THEN Undecided("NAMESPACE_CONTEXT_MISSING", FALSE)
  ELSE IF ControllingOutcome(w, s) = "evaluation-error"
       THEN Decided("rejected-before-call", "KUBERNETES_EVALUATION_ERROR", FALSE)
  ELSE IF PayloadsFail(s.request) THEN Undecided("INTERNAL_ERROR", TRUE)
  ELSE onward

LEMMA VerdictRouted ==
  ASSUME NEW w, NEW s
  PROVE  VerdictOf(w, s) = Routed(w, s, ConditionsVerdict(w, s))
BY DEF VerdictOf, Routed, ControllingOutcome, PayloadsFail, NamespaceOutcome, ObjectOutcome

(* A verdict lacks the Namespace only if the namespace selector does. *)
LEMMA NamespaceMissing ==
  ASSUME NEW w, NEW s, VerdictOf(w, s).reason = "NAMESPACE_CONTEXT_MISSING"
  PROVE  NamespaceOutcome(w, s) = "missing-context"
<1> DEFINE lacks(v) == v.reason = "NAMESPACE_CONTEXT_MISSING"
           onward == ConditionsVerdict(w, s)
<1>1. lacks(Routed(w, s, onward)) /\ ~lacks(onward)
  BY VerdictRouted, ConditionsReached
<1>2. /\ ~lacks(Decided("skipped", "ADMISSION_CONFIGURATION_EXCLUDED", FALSE))
      /\ ~lacks(Decided("skipped", "NAMESPACE_SELECTOR_NO_MATCH", FALSE))
      /\ ~lacks(Decided("skipped", "OBJECT_SELECTOR_NO_MATCH", FALSE))
      /\ ~lacks(Decided("skipped", "RULE_NO_MATCH", FALSE))
      /\ ~lacks(Undecided("EQUIVALENCE_CONTEXT_MISSING", FALSE))
      /\ ~lacks(Decided("rejected-before-call", "KUBERNETES_EVALUATION_ERROR", FALSE))
      /\ ~lacks(Undecided("INTERNAL_ERROR", TRUE))
  BY DEF Decided, Undecided, Verdict
<1>3. ObjectOutcome(w, s) # "missing-context"
  BY DEF ObjectOutcome, MatchObjectSelector, MatchOutcome
<1> HIDE DEF lacks, onward
<1>4. ControllingOutcome(w, s) = "missing-context"
  BY <1>1, <1>2 DEF Routed
<1> QED BY <1>3, <1>4 DEF ControllingOutcome

(***************************************************************************)
(* Of two Webhooks selected alike, the second with more fixtures: a        *)
(* determinate verdict on the first is that on the second too, or both     *)
(* come from the conditions.                                               *)
(***************************************************************************)
LEMMA SelectionKept ==
  ASSUME NEW w, NEW v, SameSelection(w, v), NEW less, NEW more, SuppliesMore(more, less),
         VerdictOf(w, less).determination = "determinate"
  PROVE  \/ Agrees(VerdictOf(v, more), VerdictOf(w, less))
         \/ /\ VerdictOf(w, less) = ConditionsVerdict(w, less)
            /\ VerdictOf(v, more) = ConditionsVerdict(v, more)
            /\ InvocationKind(v, more) = InvocationKind(w, less)
<1> DEFINE exempt == IsExemptAdmissionConfigurationResource(less.request)
           first == NamespaceOutcome(w, less)
           second == ObjectOutcome(w, less)
           now == ConditionsVerdict(w, less)
           then == ConditionsVerdict(v, more)
           skipped(verdict) == verdict.determination = "determinate" /\ verdict.outcome = "skipped"
<1>1. more.request = less.request
  BY DEF SuppliesMore
<1>2. ObjectOutcome(v, more) = second
  BY <1>1, SelectedAlike DEF ObjectOutcome
<1>3. /\ VerdictOf(w, less) = Routed(w, less, now)
      /\ VerdictOf(v, more) = Routed(v, more, then)
  BY VerdictRouted
<1>4. first = "missing-context" \/ NamespaceOutcome(v, more) = first
  BY NamespaceKept, SelectedAlike
<1>5. ASSUME NEW reason PROVE skipped(Decided("skipped", reason, FALSE))
  BY VerdictFields
<1>6. ASSUME NEW a, NEW b, skipped(a), skipped(b) PROVE Agrees(a, b)
  BY <1>6 DEF Agrees
<1>7. Routed(w, less, now).determination = "determinate"
  BY <1>3
<1> HIDE DEF now, then, skipped
<1>8. CASE exempt \/ first = "no-match" \/ second = "no-match"
  <2>1. skipped(Routed(w, less, now))
    BY <1>5, <1>8 DEF Routed
  <2>2. skipped(Routed(v, more, then))
    BY <1>1, <1>2, <1>4, <1>5, <1>8 DEF Routed
  <2> QED BY <1>3, <1>6, <2>1, <2>2
<1>9. CASE ~(exempt \/ first = "no-match" \/ second = "no-match")
  <2>1. Rules(w, less) # "unknown"
    <3>1. Rules(w, less) = "unknown" =>
            Routed(w, less, now) = Undecided("EQUIVALENCE_CONTEXT_MISSING", FALSE)
      BY <1>9 DEF Routed
    <3> QED BY <1>7, <3>1, VerdictFields
  <2>2. Rules(v, more) = Rules(w, less)
    BY <2>1, RulesKept, SelectedAlike
  <2>3. CASE Rules(w, less) = "no-match"
    <3>1. skipped(Routed(w, less, now))
      BY <1>5, <1>9, <2>3 DEF Routed
    <3>2. skipped(Routed(v, more, then))
      BY <1>1, <1>2, <1>4, <1>5, <1>9, <2>2, <2>3 DEF Routed
    <3> QED BY <1>3, <1>6, <3>1, <3>2
  <2>4. CASE Rules(w, less) # "no-match"
    <3>1. Rules(w, less) = "match"
      BY <2>1, <2>4, RulesCases
    <3>2. ControllingOutcome(w, less) # "missing-context"
      <4>1. ControllingOutcome(w, less) = "missing-context" =>
              Routed(w, less, now) = Undecided("NAMESPACE_CONTEXT_MISSING", FALSE)
        BY <1>9, <3>1 DEF Routed
      <4> QED BY <1>7, <4>1, VerdictFields
    <3>3. /\ NamespaceOutcome(v, more) = first
          /\ ControllingOutcome(v, more) = ControllingOutcome(w, less)
      BY <1>2, <1>4, <3>2 DEF SelectorProblems, ControllingOutcome
    <3>4. CASE ControllingOutcome(w, less) = "evaluation-error"
      <4>1. /\ Routed(w, less, now)
                 = Decided("rejected-before-call", "KUBERNETES_EVALUATION_ERROR", FALSE)
            /\ Routed(v, more, then)
                 = Decided("rejected-before-call", "KUBERNETES_EVALUATION_ERROR", FALSE)
        BY <1>1, <1>2, <1>9, <2>2, <3>1, <3>3, <3>4 DEF Routed
      <4> QED BY <1>3, <4>1 DEF Agrees
    <3>5. CASE ControllingOutcome(w, less) # "evaluation-error"
      <4>1. ~PayloadsFail(less.request)
        <5>1. PayloadsFail(less.request) =>
                Routed(w, less, now) = Undecided("INTERNAL_ERROR", TRUE)
          BY <1>9, <3>1, <3>2, <3>5 DEF Routed
        <5> QED BY <1>7, <5>1, VerdictFields
      <4>2. Routed(w, less, now) = now
        BY <1>9, <3>1, <3>2, <3>5, <4>1 DEF Routed
      <4>3. Routed(v, more, then) = then
        BY <1>1, <1>2, <1>9, <2>2, <3>1, <3>2, <3>3, <3>5, <4>1 DEF Routed
      <4>4. InvocationKind(v, more) = InvocationKind(w, less)
        BY <2>1, <3>1, RulesKept, SelectedAlike
      <4> QED BY <1>3, <4>2, <4>3, <4>4 DEF now, then
    <3> QED BY <3>4, <3>5
  <2> QED BY <2>3, <2>4
<1> QED BY <1>8, <1>9

(***************************************************************************)
(* More fixtures keep a determinate verdict, as long as the same           *)
(* conditions are the ones that stop the evaluator; and whatever the       *)
(* conditions are, if it was reached without them.                         *)
(***************************************************************************)
LEMMA MoreKeepsVerdict ==
  ASSUME NEW w, WellFormedConditions(w), NEW less, NEW more, SuppliesMore(more, less),
         Stopping(w, more) = Stopping(w, less),
         VerdictOf(w, less).determination = "determinate"
  PROVE  Agrees(VerdictOf(w, more), VerdictOf(w, less))
<1>1. SameSelection(w, w)
  BY DEF SameSelection
<1>2. \/ Agrees(VerdictOf(w, more), VerdictOf(w, less))
      \/ /\ VerdictOf(w, less) = ConditionsVerdict(w, less)
         /\ VerdictOf(w, more) = ConditionsVerdict(w, more)
         /\ InvocationKind(w, more) = InvocationKind(w, less)
  BY <1>1, SelectionKept
<1>3. InvocationKind(w, more) = InvocationKind(w, less)
        /\ ConditionsVerdict(w, less).determination = "determinate"
        => Agrees(ConditionsVerdict(w, more), ConditionsVerdict(w, less))
  BY ConditionsKept
<1> QED BY <1>2, <1>3

LEMMA UnreachedKeepsVerdict ==
  ASSUME NEW w, NEW v, SameSelection(w, v), NEW less, NEW more, SuppliesMore(more, less),
         VerdictOf(w, less).determination = "determinate", ~VerdictOf(w, less).reached
  PROVE  Agrees(VerdictOf(v, more), VerdictOf(w, less))
BY SelectionKept, ConditionsReached
=============================================================================
