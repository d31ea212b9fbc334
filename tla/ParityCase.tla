------------------------------ MODULE ParityCase ------------------------------
(***************************************************************************)
(* One case of the parity suites (conformance/parity/case.go): a Scenario, *)
(* the independent authority it is checked against, and the result the     *)
(* product has to give.                                                    *)
(*                                                                         *)
(* A case is [group, name, oracleType, rationale, tags, expected], and     *)
(* expected is [determination, outcome, reason, trace, diagnostics].  The  *)
(* name and the oracle type stand for the Scenario and its rationale, the  *)
(* empty trace for one that is not given; diagnostics are reason codes.    *)
(***************************************************************************)
EXTENDS Contract, Functions

Observation        == "kube-apiserver-observation"
Differential       == "official-kubernetes-matcher-differential"
IncompleteContract == "incomplete-contract"

OracleTypes == {Observation, Differential, IncompleteContract}

(***************************************************************************)
(* validateTags, with a tag for a number: written in order, each once.     *)
(***************************************************************************)
TagsValid(tags) ==
  /\ tags # <<>>
  /\ \A t \in 1..Len(tags) - 1 : tags[t] < tags[t + 1]

(***************************************************************************)
(* validateExpectedResult.                                                 *)
(***************************************************************************)
ExpectedResultValid(expected) ==
  /\ ExpectationValid(expected)
  /\ \A t \in DOMAIN expected.trace : StepValid(expected.trace[t])
  /\ \A d \in DOMAIN expected.diagnostics : expected.diagnostics[d] \in ReasonCodes

(***************************************************************************)
(* validateIncompleteEvidence: the trace of an incomplete case ends in one *)
(* terminal step that says what the case says, and why is diagnosed.       *)
(***************************************************************************)
IncompleteEvidence(expected) ==
  /\ ExactlyOneTerminal(expected.trace)
  /\ \A t \in TerminalSteps(expected.trace) :
       /\ expected.trace[t].reason = expected.reason
       /\ expected.trace[t].result = expected.determination
  /\ \E d \in DOMAIN expected.diagnostics : expected.diagnostics[d] = expected.reason

(***************************************************************************)
(* ValidateCases, for one case and for a group of them.                    *)
(***************************************************************************)
CaseValidLenient(group, case) ==    \* mutant: an incomplete case may expect an outcome
  /\ case.group = group
  /\ case.oracleType \in OracleTypes
  /\ TagsValid(case.tags)
  /\ ExpectedResultValid(case.expected)

CaseValid(group, case) ==
  /\ case.group = group
  /\ case.oracleType \in OracleTypes
  /\ TagsValid(case.tags)
  /\ ExpectedResultValid(case.expected)
  /\ case.oracleType = Differential => case.expected.trace # <<>>
  /\ case.oracleType = IncompleteContract =>
       /\ case.expected.determination # "determinate"
       /\ case.expected.outcome = NoOutcome
       /\ IncompleteEvidence(case.expected)

ValidateCases(group, cases) ==
  /\ cases # <<>>
  /\ IsInjective([k \in DOMAIN cases |-> cases[k].name])
  /\ \A k \in DOMAIN cases : CaseValid(group, cases[k])

(***************************************************************************)
(* CompareEvaluation: the product gives the result the case expects.       *)
(***************************************************************************)
DiagnosticCodes(diagnostics) == [d \in DOMAIN diagnostics |-> diagnostics[d].code]

CompareEvaluation(expected, actual) ==
  /\ EvaluationValid(actual)
  /\ actual.determination = expected.determination
  /\ actual.outcome = expected.outcome
  /\ TerminalReasonCode(actual.trace) = expected.reason
  /\ expected.trace # <<>> => actual.trace = expected.trace
  /\ DiagnosticCodes(actual.diagnostics) = expected.diagnostics
===============================================================================
