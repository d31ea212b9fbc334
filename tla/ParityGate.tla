------------------------------- MODULE ParityGate -------------------------------
(***************************************************************************)
(* The parity release gate (conformance/parity/gate,                       *)
(* conformance/cmd/paritygate): the matrix says which cases there are, the *)
(* phases run the tests, and the gate passes a candidate when every phase  *)
(* does and the phases together ran every case of the matrix.              *)
(*                                                                         *)
(* The gate never sees which tests exist.  It has their output only, and   *)
(* counts in it the subtests named like cases of the matrix.               *)
(***************************************************************************)
EXTENDS ParityTests, Integers, FiniteSets

CONSTANTS
  Candidates,      \* the candidates the gate may be run on
  MinimumCases,    \* the cases a matrix has at least
  RequiredTags,    \* the tags its cases cover
  MaxFaults        \* bound: the faults of one run

VARIABLES
  candidate,       \* never changed
  faults,          \* the faults so far
  results,         \* the results of the phases, in order
  observed,        \* history: what each phase saw Kubernetes do; no action reads it
  failed,          \* whether one of them failed
  published,       \* the status of the report, "none" before there is one
  exit             \* the exit code, -1 before there is one

vars == <<candidate, faults, results, observed, failed, published, exit>>

(***************************************************************************)
(* The tables are literals of the sources.                                 *)
(***************************************************************************)
TablesFinite(c) ==
  /\ IsFiniteSet(DOMAIN c.matrix) /\ IsFiniteSet(DOMAIN c.core)
  /\ \A suite \in AdvancedSuites :
       /\ IsFiniteSet(DOMAIN c.fixtures[suite])
       /\ IsFiniteSet(c.differential[suite]) /\ IsFiniteSet(c.observation[suite])

ASSUME GateAssumption ==
  /\ MinimumCases \in Nat
  /\ MaxFaults \in Nat
  /\ \A c \in Candidates : TablesFinite(c)

matrix == candidate.matrix

Init ==
  /\ candidate \in Candidates
  /\ faults = 0
  /\ results = <<>>
  /\ observed = <<>>
  /\ failed = FALSE
  /\ published = "none"
  /\ exit = -1

-------------------------------------------------------------------------------
(***************************************************************************)
(* Matrix.Validate.  A matrix is a function of the id, so that no id is    *)
(* there twice.                                                            *)
(***************************************************************************)
MatrixCaseValid(case) ==
  /\ case.suite \in Suites
  /\ case.oracleType \in OracleTypes
  /\ case.suite = Core => case.oracleType = Observation
  /\ (case.oracleType = IncompleteContract) <=> (case.outcomes = {})
  /\ case.outcomes \subseteq Outcomes
  /\ TagsValid(case.tags)

Cases(m) == {m[id] : id \in DOMAIN m}

MatrixValid(m) ==
  /\ Cardinality(DOMAIN m) >= MinimumCases
  /\ \A case \in Cases(m) : MatrixCaseValid(case)
  /\ {case.oracleType : case \in Cases(m)} = OracleTypes
  /\ UNION {case.outcomes : case \in Cases(m)} = Outcomes
  /\ {case.suite : case \in Cases(m)} = Suites
  /\ RequiredTags \subseteq UNION {{case.tags[t] : t \in DOMAIN case.tags} : case \in Cases(m)}

OracleTypeIds(m, type) == {id \in DOMAIN m : m[id].oracleType = type}

ObservationIds(m, suite) == {id \in OracleTypeIds(m, Observation) : m[id].suite = suite}

-------------------------------------------------------------------------------
(***************************************************************************)
(* releasePhases, the tests each runs, which see Kubernetes do what saw    *)
(* says, and the cases the matrix has for it (expectedCaseCount).          *)
(***************************************************************************)
Phase(name, suite, oracleType) == [name |-> name, suite |-> suite, oracleType |-> oracleType]

Phases ==
  <<Phase("offline-contracts", "", ""),
    Phase("official-kubernetes-matcher-differential", "", Differential),
    Phase("core-kube-apiserver-observations", Core, ""),
    Phase("equivalent-kube-apiserver-observation", "equivalent-selector", ""),
    Phase("cel-kube-apiserver-observations", "cel-authorizer", "")>>

Tests(c, saw, phase) ==
  LET differential == {DifferentialTest(c, suite) : suite \in AdvancedSuites}
  IN IF phase.suite = Core THEN {CoreObservationTest(c, saw)}
     ELSE IF phase.suite # "" THEN {ObservationTest(c, saw, phase.suite)}
     ELSE IF phase.oracleType # "" THEN differential
     ELSE {ParityTest(c, suite) : suite \in AdvancedSuites}
            \cup differential \cup {CoreContractTest(c)}

ExpectedIds(m, phase) ==
  IF phase.oracleType # "" THEN OracleTypeIds(m, phase.oracleType)
  ELSE IF phase.suite # "" THEN ObservationIds(m, phase.suite)
  ELSE {id \in DOMAIN m : m[id].suite # Core}

(***************************************************************************)
(* executedCaseIDs and failedCases.  A test function that failed counts    *)
(* for itself when none of its subtests did.                               *)
(***************************************************************************)
ExecutedSubtests(events, m) ==     \* mutant: a subtest the matrix does not know counts
  {e.id : e \in {x \in events : x.action = "run"}}

ExecutedCaseIDs(events, m) ==
  {e.id : e \in {x \in events : x.action = "run"}} \cap DOMAIN m

FailedCases(events) ==
  LET fails     == {e \in events : e.action = "fail"}
      subtests  == {e \in fails : e.id # NoCase}
      childless == {e \in fails \ subtests : \A x \in subtests : x.root # e.root}
  IN {e.id : e \in subtests} \cup {e.root : e \in childless}

(***************************************************************************)
(* classifyFailures: five counts, and at least one of them positive when   *)
(* the command failed.                                                     *)
(***************************************************************************)
Categories == {"setup-failure", "semantic-mismatch", "differential-contract-failure",
               "incomplete-contract-failure", "other-contract-failure"}

NoFailures == [category \in Categories |-> 0]

One(category) == [NoFailures EXCEPT ![category] = 1]

Together(a, b) == [category \in Categories |-> a[category] + b[category]]

AtLeastOne(number) == IF number > 0 THEN number ELSE 1

TypedAs(names, m, type) == names \cap OracleTypeIds(m, type)

CountedFailures(output, names, m, contractPhase) ==
  LET ofType(type) == Cardinality(TypedAs(names, m, type))
      semantic == IF output.mismatch THEN TypedAs(names, m, Observation) ELSE {}
      others   == names \ (TypedAs(names, m, Differential)
                             \cup TypedAs(names, m, IncompleteContract) \cup semantic)
  IN [category \in Categories |->
        CASE category = "setup-failure" -> IF output.setup THEN 1 ELSE 0
          [] category = "semantic-mismatch" ->
               IF output.mismatch THEN AtLeastOne(ofType(Observation)) ELSE 0
          [] ~contractPhase -> 0
          [] category = "differential-contract-failure" -> ofType(Differential)
          [] category = "incomplete-contract-failure" -> ofType(IncompleteContract)
          [] OTHER -> Cardinality(others)]

ClassifyAsCounted(output, names, m, contractPhase) ==   \* mutant: an unexplained failure has no class
  IF output.succeeds THEN NoFailures
  ELSE IF ~output.started THEN One("setup-failure")
  ELSE CountedFailures(output, names, m, contractPhase)

ClassifyByType(output, names, m, contractPhase) ==      \* mutant: every failed observation is a mismatch
  IF output.succeeds THEN NoFailures
  ELSE IF TypedAs(names, m, Observation) # {} THEN One("semantic-mismatch")
  ELSE One("other-contract-failure")

ClassifyFailures(output, names, m, contractPhase) ==
  IF output.succeeds THEN NoFailures
  ELSE IF ~output.started THEN One("setup-failure")
  ELSE IF CountedFailures(output, names, m, contractPhase) = NoFailures
  THEN One("other-contract-failure")
  ELSE CountedFailures(output, names, m, contractPhase)

-------------------------------------------------------------------------------
(***************************************************************************)
(* executePhase.                                                           *)
(***************************************************************************)
Result(name, status, expected, executed, failedCases, failures, missing) ==
  [name |-> name, status |-> status, expected |-> expected, executed |-> executed,
   failedCases |-> failedCases, failures |-> failures, missing |-> missing]

NoneMissing == [type \in OracleTypes |-> 0]

ExecutePhaseUncounted(c, phase, fault) ==   \* mutant: nobody counts the cases
  LET output   == Output(Tests(c, Seen(c, fault), phase), fault)
      events   == IF output.decodes THEN output.events ELSE {}
      executed == ExecutedCaseIDs(events, c.matrix)
      counts   == ClassifyFailures(output, FailedCases(events), c.matrix, phase.suite = "")
      broken   == output.succeeds /\ ~output.decodes
  IN Result(phase.name, IF ~output.succeeds \/ broken THEN "failed" ELSE "passed",
            Cardinality(ExpectedIds(c.matrix, phase)), executed, FailedCases(events),
            IF broken THEN Together(counts, One("other-contract-failure")) ELSE counts,
            NoneMissing)

ExecutePhase(c, phase, fault) ==
  LET output   == Output(Tests(c, Seen(c, fault), phase), fault)
      events   == IF output.decodes THEN output.events ELSE {}
      executed == ExecutedCaseIDs(events, c.matrix)
      expected == Cardinality(ExpectedIds(c.matrix, phase))
      counts   == ClassifyFailures(output, FailedCases(events), c.matrix, phase.suite = "")
      broken   == output.succeeds /\ (~output.decodes \/ Cardinality(executed) # expected)
  IN Result(phase.name, IF ~output.succeeds \/ broken THEN "failed" ELSE "passed",
            expected, executed, FailedCases(events),
            IF broken THEN Together(counts, One("other-contract-failure")) ELSE counts,
            NoneMissing)

(***************************************************************************)
(* matrixExecutionResult: the cases no phase ran.  They are failures only  *)
(* when no phase failed, which would explain them.                         *)
(***************************************************************************)
MissingCategory(type) ==
  CASE type = Differential -> "differential-contract-failure"
    [] type = IncompleteContract -> "incomplete-contract-failure"
    [] OTHER -> "other-contract-failure"

Missing(m, seen) == DOMAIN m \ seen

MissingFailures(m, missing) ==
  [category \in Categories |->
     Cardinality({id \in missing : MissingCategory(m[id].oracleType) = category})]

MatrixResultOfFailedPhases(m, seen, prerequisiteFailed) ==   \* mutant: not run, nothing to report
  IF prerequisiteFailed
  THEN Result("matrix-execution-coverage", "not-run", Cardinality(DOMAIN m), seen, {},
              NoFailures, NoneMissing)
  ELSE Result("matrix-execution-coverage",
              IF Missing(m, seen) # {} THEN "failed" ELSE "passed",
              Cardinality(DOMAIN m), seen, Missing(m, seen),
              MissingFailures(m, Missing(m, seen)),
              [type \in OracleTypes |-> Cardinality(TypedAs(Missing(m, seen), m, type))])

MatrixExecutionResult(m, seen, prerequisiteFailed) ==
  LET missing == Missing(m, seen)
  IN Result("matrix-execution-coverage",
            IF prerequisiteFailed THEN "not-run"
            ELSE IF missing # {} THEN "failed" ELSE "passed",
            Cardinality(DOMAIN m), seen, missing,
            IF prerequisiteFailed THEN NoFailures ELSE MissingFailures(m, missing),
            [type \in OracleTypes |-> Cardinality(TypedAs(missing, m, type))])

-------------------------------------------------------------------------------
(***************************************************************************)
(* run.  An invalid matrix ends it before any phase; a phase that fails    *)
(* does not keep the others from running; a report that cannot be written  *)
(* fails the gate like a failed phase.                                     *)
(***************************************************************************)
Running == exit = -1 /\ MatrixValid(matrix)

Report(result) ==
  /\ results' = Append(results, result)
  /\ failed' = (failed \/ result.status = "failed")

Execute(phase, fault) ==
  /\ Report(ExecutePhase(candidate, phase, fault))
  /\ observed' = Append(observed, Seen(candidate, fault))

RejectMatrix ==
  /\ exit = -1
  /\ ~MatrixValid(matrix)
  /\ exit' = 1
  /\ UNCHANGED <<candidate, faults, results, observed, failed, published>>

RunPhase ==
  /\ Running
  /\ Len(results) < Len(Phases)
  /\ LET phase == Phases[Len(results) + 1]
         tests == Tests(candidate, candidate.authority, phase)
     IN \/ /\ Execute(phase, NoFault)
           /\ UNCHANGED faults
        \/ /\ faults < MaxFaults
           /\ faults' = faults + 1
           /\ \E fault \in Faults(tests, phase.suite # "") : Execute(phase, fault)
  /\ UNCHANGED <<candidate, published, exit>>

CoverMatrix ==
  /\ Running
  /\ Len(results) = Len(Phases)
  /\ Report(MatrixExecutionResult(
       matrix, UNION {results[k].executed : k \in DOMAIN results}, failed))
  /\ UNCHANGED <<candidate, faults, observed, published, exit>>

WriteReport ==
  /\ Running
  /\ Len(results) = Len(Phases) + 1
  /\ \/ /\ published' = IF failed THEN "failed" ELSE "passed"
        /\ exit' = IF failed THEN 1 ELSE 0
        /\ UNCHANGED faults
     \/ /\ faults < MaxFaults
        /\ faults' = faults + 1
        /\ exit' = 1
        /\ UNCHANGED published
  /\ UNCHANGED <<candidate, results, observed, failed>>

Next == RejectMatrix \/ RunPhase \/ CoverMatrix \/ WriteReport

Spec == Init /\ [][Next]_vars
================================================================================
