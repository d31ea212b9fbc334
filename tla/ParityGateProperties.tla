--------------------------- MODULE ParityGateProperties ---------------------------
(***************************************************************************)
(* What the parity release gate guarantees.                                *)
(***************************************************************************)
EXTENDS ParityGate

(***************************************************************************)
(* The variables have their types, and there is a report only of a run     *)
(* that went through every phase.                                          *)
(***************************************************************************)
TypeOK ==
  /\ faults \in 0..MaxFaults
  /\ Len(results) <= Len(Phases) + 1
  /\ Len(observed) = IF Len(results) <= Len(Phases) THEN Len(results) ELSE Len(Phases)
  /\ \A k \in DOMAIN results :
       /\ results[k].status \in {"passed", "failed", "not-run"}
       /\ results[k].executed \subseteq DOMAIN matrix
       /\ \A category \in Categories : results[k].failures[category] \in Nat
  /\ failed \in BOOLEAN
  /\ published \in {"none", "passed", "failed"}
  /\ exit \in {-1, 0, 1}
  /\ published # "none" => Len(results) = Len(Phases) + 1 /\ exit # -1

-------------------------------------------------------------------------------
(***************************************************************************)
(* The tables agree on what each case is: every advanced case of the       *)
(* matrix has a fixture, and every fixture that is named like a case of    *)
(* the matrix is in the suite and of the oracle type the matrix says.  No  *)
(* test asks for this; the tables of the repository do.                    *)
(***************************************************************************)
TablesAgree(c) ==
  /\ \A id \in DOMAIN c.matrix :
       c.matrix[id].suite \in AdvancedSuites => Fixtures(c, c.matrix[id].suite, id) # {}
  /\ \A suite \in AdvancedSuites : \A k \in DOMAIN c.fixtures[suite] :
       LET case == c.fixtures[suite][k]
       IN case.name \in DOMAIN c.matrix =>
            /\ c.matrix[case.name].suite = suite
            /\ c.matrix[case.name].oracleType = case.oracleType

ProductAgrees(c, kubernetes, id) ==
  /\ c.product[id].determination = "determinate"
  /\ c.product[id].outcome = kubernetes[id]

ProductIncomplete(c, id) ==
  /\ c.product[id].determination # "determinate"
  /\ c.product[id].outcome = NoOutcome

PhaseOf(suite) == CHOOSE k \in DOMAIN Phases : Phases[k].suite = suite

(***************************************************************************)
(* The gate passes only a candidate whose every case keeps its promise:    *)
(* the product gives the outcome of the official matcher in a              *)
(* differential, in an observation the outcome its phase saw Kubernetes    *)
(* give, and none where the contract is to stay incomplete.  Five phases   *)
(* look at different tables and no phase looks at the product and          *)
(* Kubernetes of an advanced observation at once, so that this is the work *)
(* of all of them (main.go run, executePhase;                              *)
(* conformance/parity/README.md).  What a phase saw is what Kubernetes     *)
(* does unless the phase misread it.                                       *)
(***************************************************************************)
PassedMeansAgreed ==
  exit = 0 /\ TablesAgree(candidate) =>
    \A id \in DOMAIN matrix :
      CASE matrix[id].oracleType = IncompleteContract -> ProductIncomplete(candidate, id)
        [] matrix[id].oracleType = Differential ->
             ProductAgrees(candidate, candidate.authority, id)
        [] OTHER -> ProductAgrees(candidate, observed[PhaseOf(matrix[id].suite)], id)

(***************************************************************************)
(* Whatever the tables say, the report of a gate that passed does not      *)
(* claim more observations of a suite, or more differentials, than there   *)
(* are cases the tests of that kind compared with what they saw Kubernetes *)
(* do and found to agree (ObservationCount, OracleTypeCount,               *)
(* executePhase).                                                          *)
(***************************************************************************)
ComparedIn(c, suite) == IF suite = Core THEN DOMAIN c.core ELSE c.observation[suite]

ClaimsAreReal ==
  exit = 0 =>
    /\ \A suite \in Suites :
         Cardinality(ObservationIds(matrix, suite)) <=
           Cardinality({id \in ComparedIn(candidate, suite) \cap DOMAIN matrix :
                          ProductAgrees(candidate, observed[PhaseOf(suite)], id)})
    /\ Cardinality(OracleTypeIds(matrix, Differential)) <=
         Cardinality({id \in (UNION {candidate.differential[s] : s \in AdvancedSuites})
                               \cap DOMAIN matrix :
                        ProductAgrees(candidate, candidate.authority, id)})

(***************************************************************************)
(* A failure surfaces: a phase that fails leaves the gate failed however   *)
(* many phases pass after it, the gate fails for no other reason than a    *)
(* failed phase, an invalid matrix or a report it could not write, and a   *)
(* failed phase is counted under at least one category while a passed one  *)
(* is counted under none (run, classifyFailures, categories).              *)
(***************************************************************************)
Counted(result) == {category \in Categories : result.failures[category] > 0}

FailureSurfaces ==
  /\ \A k \in DOMAIN results : (results[k].status = "failed") <=> (Counted(results[k]) # {})
  /\ exit # -1 =>
       LET broken == \E k \in DOMAIN results : results[k].status = "failed"
       IN /\ broken => exit = 1 /\ published \in {"failed", "none"}
          /\ exit = 1 => broken \/ ~MatrixValid(matrix) \/ published = "none"

(***************************************************************************)
(* The coverage result names exactly the cases that no phase ran and       *)
(* counts them by oracle type, also when failed phases are the reason and  *)
(* nothing is counted as a failure (matrixExecutionResult).                *)
(***************************************************************************)
MissingReported ==
  Len(results) = Len(Phases) + 1 =>
    LET coverage == results[Len(Phases) + 1]
        ran      == UNION {results[k].executed : k \in 1..Len(Phases)}
    IN /\ coverage.failedCases = DOMAIN matrix \ ran
       /\ \A type \in OracleTypes :
            coverage.missing[type] = Cardinality(OracleTypeIds(matrix, type) \ ran)

(***************************************************************************)
(* A difference a phase saw makes it fail, whatever else goes wrong in it, *)
(* and a semantic mismatch is counted only in a phase that saw one: no     *)
(* command that fails, case that is missing or trouble with the setup is   *)
(* counted as one, except by the difference it makes in what was seen      *)
(* (Observe, Compare, classifyFailures).                                   *)
(***************************************************************************)
Differs(c, saw, phase, id) ==
  IF phase.suite = Core THEN c.product[id].outcome # saw[id]
  ELSE /\ Fixtures(c, phase.suite, id) # {}
       /\ Fixture(c, phase.suite, id).expected.outcome # saw[id]

DifferingCases(c, saw, phase) ==
  IF phase.suite = "" THEN {}
  ELSE {id \in Subtests(Tests(c, saw, phase)) : Differs(c, saw, phase, id)}

SeenDifferencesSurface ==
  \A k \in DOMAIN results \cap DOMAIN Phases :
    LET differing == DifferingCases(candidate, observed[k], Phases[k])
    IN /\ results[k].failures["semantic-mismatch"] > 0 => differing # {}
       /\ differing # {} => results[k].status = "failed"

-------------------------------------------------------------------------------
(***************************************************************************)
(* What the documents say of the gate and the code does not do: trouble    *)
(* with the setup is reported apart from a semantic mismatch               *)
(* (conformance/oracle/observation.go, "captures an oracle result without  *)
(* conflating setup and semantics"; conformance/parity/README.md, "reports *)
(* setup failures, determinate kube-apiserver semantic mismatches, ...     *)
(* separately"), so that one is counted only in a phase that ran a case on *)
(* which AdmiTrace, or the fixture, and Kubernetes differ.                 *)
(***************************************************************************)
MismatchMeansDifference ==
  \A k \in DOMAIN results \cap DOMAIN Phases :
    results[k].failures["semantic-mismatch"] > 0 =>
      DifferingCases(candidate, candidate.authority, Phases[k]) # {}
===============================================================================
