--------------------------- MODULE ParityGateProofs ---------------------------
(***************************************************************************)
(* Proofs that the parity gate passes only a candidate that agrees with    *)
(* Kubernetes, claims no comparison that was not made and reports every    *)
(* missing case, for any tables of any finite matrix, any product and any  *)
(* Kubernetes, and any commands that fail.                                 *)
(***************************************************************************)
EXTENDS ParityGateProperties, TLAPS, FiniteSetTheorems

-------------------------------------------------------------------------------
(***************************************************************************)
(* What a phase that did not fail tells: nothing happened to it, none of   *)
(* its tests failed, and the subtests named like cases of the matrix were  *)
(* as many as were expected.                                               *)
(***************************************************************************)
Passing(tests) == \A test \in tests : ~TestFails(test)

Ids(c, phase) == Subtests(Tests(c, c.authority, phase)) \cap DOMAIN c.matrix

Clean(c, saw, phase) ==
  /\ Passing(Tests(c, saw, phase))
  /\ Cardinality(Ids(c, phase)) = Cardinality(ExpectedIds(c.matrix, phase))

Offline      == Phases[1]
Differences  == Phases[2]
PhaseFor(suite) == Phases[PhaseOf(suite)]

(* The phase of a suite is the one with its name. *)
LEMMA SuitePhases ==
  /\ PhaseOf(Core) = 3 /\ PhaseOf("equivalent-selector") = 4 /\ PhaseOf("cel-authorizer") = 5
  /\ \A suite \in Suites : PhaseOf(suite) \in 3..5
<1>1. DOMAIN Phases = 1..5
  BY DEF Phases
<1>2. Phases[1].suite = "" /\ Phases[2].suite = "" /\ Phases[3].suite = Core
  BY DEF Phases, Phase
<1>3. Phases[4].suite = "equivalent-selector" /\ Phases[5].suite = "cel-authorizer"
  BY DEF Phases, Phase
<1>4. \A k \in DOMAIN Phases : k = 1 \/ k = 2 \/ k = 3 \/ k = 4 \/ k = 5
  BY <1>1
<1>5. 3 \in DOMAIN Phases /\ 4 \in DOMAIN Phases /\ 5 \in DOMAIN Phases
  BY <1>1
<1>6. \A k \in DOMAIN Phases : Phases[k].suite = Core <=> k = 3
  BY <1>2, <1>3, <1>4 DEF Core
<1>7. \A k \in DOMAIN Phases : Phases[k].suite = "equivalent-selector" <=> k = 4
  BY <1>2, <1>3, <1>4 DEF Core
<1>8. \A k \in DOMAIN Phases : Phases[k].suite = "cel-authorizer" <=> k = 5
  BY <1>2, <1>3, <1>4 DEF Core
<1>9. PhaseOf(Core) = 3
  BY <1>5, <1>6 DEF PhaseOf
<1>10. PhaseOf("equivalent-selector") = 4
  BY <1>5, <1>7 DEF PhaseOf
<1>11. PhaseOf("cel-authorizer") = 5
  BY <1>5, <1>8 DEF PhaseOf
<1> QED BY <1>9, <1>10, <1>11 DEF Suites, AdvancedSuites

(* The phases as records. *)
LEMMA PhaseFields ==
  /\ Phases = <<Offline, Differences, PhaseFor(Core), PhaseFor("equivalent-selector"),
               PhaseFor("cel-authorizer")>>
  /\ Offline.suite = "" /\ Offline.oracleType = ""
  /\ Differences.suite = "" /\ Differences.oracleType = Differential
  /\ \A suite \in Suites : PhaseFor(suite).suite = suite /\ PhaseFor(suite).oracleType = ""
<1>1. /\ Offline.suite = "" /\ Offline.oracleType = ""
      /\ Differences.suite = "" /\ Differences.oracleType = Differential
  BY DEF Phases, Phase, Offline, Differences
<1>2. \A suite \in Suites : PhaseFor(suite).suite = suite /\ PhaseFor(suite).oracleType = ""
  <2>1. /\ Phases[3].suite = Core /\ Phases[3].oracleType = ""
        /\ Phases[4].suite = "equivalent-selector" /\ Phases[4].oracleType = ""
        /\ Phases[5].suite = "cel-authorizer" /\ Phases[5].oracleType = ""
    BY DEF Phases, Phase
  <2> QED BY <2>1, SuitePhases DEF PhaseFor, Suites, AdvancedSuites
<1>3. Phases = <<Phases[1], Phases[2], Phases[3], Phases[4], Phases[5]>>
  BY DEF Phases
<1> QED BY <1>1, <1>2, <1>3, SuitePhases DEF Offline, Differences, PhaseFor

LEMMA PhaseNames ==
  /\ Len(Phases) = 5
  /\ \A k \in 1..5 : \/ Phases[k] = Offline \/ Phases[k] = Differences
                      \/ \E suite \in Suites : Phases[k] = PhaseFor(suite)
  /\ Offline = Phases[1] /\ Differences = Phases[2]
  /\ \A suite \in Suites : \E k \in 3..5 : PhaseFor(suite) = Phases[k]
<1>1. \A k \in 1..5 : k = 1 \/ k = 2 \/ k = 3 \/ k = 4 \/ k = 5
  OBVIOUS
<1>2. Len(Phases) = 5
  BY DEF Phases
<1>3. /\ Phases[3] = PhaseFor(Core) /\ Phases[4] = PhaseFor("equivalent-selector")
      /\ Phases[5] = PhaseFor("cel-authorizer")
  BY SuitePhases DEF PhaseFor
<1> QED BY <1>1, <1>2, <1>3 DEF Offline, Differences, Suites, AdvancedSuites

(* The tests of a phase, and the cases the matrix has for it. *)
LEMMA PhaseTests ==
  ASSUME NEW c, NEW saw
  PROVE  /\ Tests(c, saw, Offline) =
              {ParityTest(c, suite) : suite \in AdvancedSuites}
                \cup {DifferentialTest(c, suite) : suite \in AdvancedSuites}
                \cup {CoreContractTest(c)}
         /\ Tests(c, saw, Differences) = {DifferentialTest(c, suite) : suite \in AdvancedSuites}
         /\ Tests(c, saw, PhaseFor(Core)) = {CoreObservationTest(c, saw)}
         /\ \A suite \in AdvancedSuites :
              Tests(c, saw, PhaseFor(suite)) = {ObservationTest(c, saw, suite)}
<1>1. /\ "" # Core /\ "" # Differential /\ Core \in Suites
      /\ \A suite \in AdvancedSuites : suite \in Suites /\ suite # Core /\ suite # ""
  BY DEF Core, Differential, Suites, AdvancedSuites
<1> QED BY <1>1, PhaseFields DEF Tests

LEMMA PhaseIds ==
  ASSUME NEW m
  PROVE  /\ ExpectedIds(m, Offline) = {id \in DOMAIN m : m[id].suite # Core}
         /\ ExpectedIds(m, Differences) = OracleTypeIds(m, Differential)
         /\ \A suite \in Suites : ExpectedIds(m, PhaseFor(suite)) = ObservationIds(m, suite)
<1>1. "" # Differential /\ \A suite \in Suites : suite # ""
  BY DEF Core, Differential, Suites, AdvancedSuites
<1> QED BY <1>1, PhaseFields DEF ExpectedIds

(* A test is a record of its name, its own failure and its verdicts. *)
Record(test) == test = [root |-> test.root, broken |-> test.broken, verdicts |-> test.verdicts]

LEMMA Records ==
  ASSUME NEW c, NEW saw, NEW phase
  PROVE  \A test \in Tests(c, saw, phase) : Record(test)
<1>1. \A suite : Record(ParityTest(c, suite)) /\ Record(DifferentialTest(c, suite))
               /\ Record(ObservationTest(c, saw, suite))
  BY DEF Record, ParityTest, DifferentialTest, ObservationTest
<1>2. Record(CoreContractTest(c)) /\ Record(CoreObservationTest(c, saw))
  BY DEF Record, CoreContractTest, CoreObservationTest
<1> QED BY <1>1, <1>2 DEF Tests

(* Which subtests there are does not depend on what they see. *)
LEMMA SameSubtests ==
  ASSUME NEW c, NEW saw, NEW phase
  PROVE  /\ Subtests(Tests(c, saw, phase)) = Subtests(Tests(c, c.authority, phase))
         /\ (Tests(c, saw, phase) = {}) <=> (Tests(c, c.authority, phase) = {})
<1>1. /\ DOMAIN CoreObservationTest(c, saw).verdicts
           = DOMAIN CoreObservationTest(c, c.authority).verdicts
      /\ \A suite : DOMAIN ObservationTest(c, saw, suite).verdicts
                      = DOMAIN ObservationTest(c, c.authority, suite).verdicts
  BY DEF CoreObservationTest, ObservationTest
<1>2. \A a, b : DOMAIN a.verdicts = DOMAIN b.verdicts => Subtests({a}) = Subtests({b})
  BY DEF Subtests
<1>3. CASE phase.suite = Core
  BY <1>1, <1>2, <1>3 DEF Tests
<1>4. CASE phase.suite # Core /\ phase.suite # ""
  BY <1>1, <1>2, <1>4 DEF Tests
<1>5. CASE phase.suite # Core /\ phase.suite = ""
  BY <1>5 DEF Tests
<1> QED BY <1>3, <1>4, <1>5

(* The names among the events of a run are those of its subtests. *)
LEMMA RunNames ==
  ASSUME NEW tests
  PROVE  {e.id : e \in {x \in Events(tests) : x.action = "run"}} = Subtests(tests)
<1> DEFINE runs     == {x \in Events(tests) : x.action = "run"}
           RunsOf(test)  == {Event("run", test.root, id) : id \in DOMAIN test.verdicts}
           FailsOf(test) == {Event("fail", test.root, id) : id \in FailedSubtests(test)}
           ran      == UNION {RunsOf(test) : test \in tests}
           fails    == UNION {FailsOf(test) : test \in tests}
           ownFails == {Event("fail", test.root, NoCase) : test \in {t \in tests : TestFails(t)}}
<1>0. Events(tests) = ran \cup fails \cup ownFails
  BY DEF Events
<1>1. \A action, root, id : /\ Event(action, root, id).action = action
                           /\ Event(action, root, id).id = id
  BY DEF Event
<1>2. ASSUME NEW e \in runs PROVE e.id \in Subtests(tests)
  <2>1. e \notin fails
    <3>1. ASSUME NEW test \in tests PROVE e \notin FailsOf(test)
      BY <1>1
    <3> QED BY <3>1
  <2>2. e \notin ownFails
    BY <1>1
  <2>3. PICK test \in tests : e \in RunsOf(test)
    BY <1>0, <2>1, <2>2
  <2>4. e.id \in DOMAIN test.verdicts
    BY <2>3, <1>1
  <2> QED BY <2>4 DEF Subtests
<1>3. ASSUME NEW id \in Subtests(tests) PROVE \E e \in runs : e.id = id
  <2>1. PICK test \in tests : id \in DOMAIN test.verdicts
    BY DEF Subtests
  <2>2. Event("run", test.root, id) \in RunsOf(test)
    BY <2>1
  <2>3. Event("run", test.root, id) \in ran
    BY <2>2
  <2> QED BY <2>3, <1>0, <1>1
<1> QED BY <1>2, <1>3

(* A verdict put in the place of another. *)
LEMMA VerdictPut ==
  ASSUME NEW test, Record(test), NEW id \in DOMAIN test.verdicts
  PROVE  TestFails(WithVerdict(test, id, "fail"))
<1> DEFINE verdicts == [i \in DOMAIN test.verdicts |-> IF i = id THEN "fail" ELSE test.verdicts[i]]
           after    == WithVerdict(test, id, "fail")
<1>1. after.verdicts = verdicts
  BY DEF Record, WithVerdict
<1>2. id \in DOMAIN after.verdicts /\ after.verdicts[id] = "fail"
  BY <1>1
<1> QED BY <1>2 DEF TestFails, FailedSubtests

(* A fault that is not a misreading shows in the exit of the command or in *)
(* its output, and a misreading leaves the tests as they are.              *)
LEMMA FaultsShow ==
  ASSUME NEW tests, tests # {}, \A test \in tests : Record(test),
         NEW needs \in BOOLEAN, NEW fault \in Faults(tests, needs) \cup {NoFault},
         Output(tests, fault).succeeds, Output(tests, fault).decodes
  PROVE  Ran(tests, fault) = tests
<1>1. fault.kind \notin {"not-started", "build-failed", "garbled"}
  BY DEF Output
<1>2. \A test \in Ran(tests, fault) : ~TestFails(test)
  BY <1>1 DEF Output
<1>3. ASSUME fault.kind = "setup" PROVE FALSE
  <2>1. PICK test \in tests : Record(test)
    OBVIOUS
  <2> DEFINE after == [test EXCEPT !.broken = TRUE, !.verdicts = NoSubtests]
  <2>2. after \in Ran(tests, fault)
    BY <1>3 DEF Ran
  <2>3. after.broken
    BY <2>1 DEF Record
  <2> QED BY <2>2, <2>3, <1>2 DEF TestFails
<1>4. ASSUME fault.kind = "unstopped" PROVE FALSE
  <2>1. PICK test \in tests : Record(test)
    OBVIOUS
  <2> DEFINE after == [test EXCEPT !.broken = TRUE]
  <2>2. after \in Ran(tests, fault)
    BY <1>4 DEF Ran
  <2>3. after.broken
    BY <2>1 DEF Record
  <2> QED BY <2>2, <2>3, <1>2 DEF TestFails
<1>5. ASSUME NEW id \in Subtests(tests), fault = Fault("lost", id) PROVE FALSE
  <2>1. PICK test \in tests : id \in DOMAIN test.verdicts
    BY DEF Subtests
  <2>2. fault.kind = "lost" /\ fault.id = id
    BY <1>5 DEF Fault
  <2>3. WithVerdict(test, id, "fail") \in Ran(tests, fault)
    BY <2>2 DEF Ran
  <2> QED BY <2>1, <2>3, <1>2, VerdictPut
<1>6. ASSUME NEW id \in Subtests(tests), NEW what \in {"untidy", "unclosed"},
             fault = Fault(what, id)
      PROVE  FALSE
  <2>1. PICK test \in tests : id \in DOMAIN test.verdicts
    BY DEF Subtests
  <2>2. fault.kind = what /\ fault.id = id
    BY <1>6 DEF Fault
  <2>3. FailedAfterwards(test, id) \in Ran(tests, fault)
    BY <2>2 DEF Ran
  <2>4. CASE test.verdicts[id] = "pass"
    <3>1. FailedAfterwards(test, id) = WithVerdict(test, id, "fail")
      BY <2>1, <2>4 DEF FailedAfterwards
    <3> QED BY <2>1, <2>3, <3>1, <1>2, VerdictPut
  <2>5. CASE test.verdicts[id] # "pass"
    <3>1. FailedAfterwards(test, id) = test
      BY <2>5 DEF FailedAfterwards
    <3>2. TestFails(test)
      BY <2>1, <2>5 DEF TestFails, FailedSubtests
    <3> QED BY <2>3, <3>1, <3>2, <1>2
  <2> QED BY <2>4, <2>5
<1>7. \/ \E what \in {"not-started", "build-failed", "garbled", "setup", "unstopped"} :
           fault = Fault(what, NoCase)
      \/ \E id \in Subtests(tests) :
           \E what \in {"lost", "untidy", "unclosed", "refused", "ineffective"} :
             fault = Fault(what, id)
      \/ fault = NoFault
  BY DEF Faults, ToolFaults, ControlPlaneFaults, Misread
<1>8. fault.kind \in {"none", "refused", "ineffective"}
  BY <1>1, <1>3, <1>4, <1>5, <1>6, <1>7 DEF Fault, NoFault
<1> QED BY <1>8 DEF Ran

(* A phase that does not fail is clean, and ran the cases it says it ran. *)
LEMMA CleanPhase ==
  ASSUME NEW c, NEW phase, Tests(c, c.authority, phase) # {}, NEW needs \in BOOLEAN,
         NEW fault \in Faults(Tests(c, c.authority, phase), needs) \cup {NoFault},
         ExecutePhase(c, phase, fault).status # "failed"
  PROVE  /\ Clean(c, Seen(c, fault), phase)
         /\ ExecutePhase(c, phase, fault).executed = Ids(c, phase)
<1> DEFINE tests    == Tests(c, Seen(c, fault), phase)
           output   == Output(tests, fault)
           events   == IF output.decodes THEN output.events ELSE {}
           executed == ExecutedCaseIDs(events, c.matrix)
<1>1. /\ ExecutePhase(c, phase, fault).executed = executed
      /\ ExecutePhase(c, phase, fault).status =
           IF \/ ~output.succeeds
              \/ /\ output.succeeds
                 /\ \/ ~output.decodes
                    \/ Cardinality(executed) # Cardinality(ExpectedIds(c.matrix, phase))
           THEN "failed" ELSE "passed"
  BY DEF ExecutePhase, Result
<1>2. /\ output.succeeds /\ output.decodes
      /\ Cardinality(executed) = Cardinality(ExpectedIds(c.matrix, phase))
  BY <1>1
<1>3. \A test \in tests : Record(test)
  BY Records
<1>4. /\ tests # {} /\ Subtests(tests) = Subtests(Tests(c, c.authority, phase))
      /\ fault \in Faults(tests, needs) \cup {NoFault}
  BY SameSubtests DEF Faults
<1>5. Ran(tests, fault) = tests
  <2> HIDE DEF tests
  <2> QED BY <1>2, <1>3, <1>4, FaultsShow
<1>6. Passing(tests)
  BY <1>2, <1>5 DEF Output, Passing
<1>7. events = Events(tests)
  BY <1>2, <1>5 DEF Output
<1>8. executed = Ids(c, phase)
  BY <1>4, <1>7, RunNames DEF ExecutedCaseIDs, Ids
<1> QED BY <1>1, <1>2, <1>6, <1>8 DEF Clean

-------------------------------------------------------------------------------
(***************************************************************************)
(* What each phase shows of the cases it ran.                              *)
(***************************************************************************)

(* The contract tests compare the product with every fixture. *)
LEMMA OfflineCompares ==
  ASSUME NEW c, NEW saw, Clean(c, saw, Offline), NEW suite \in AdvancedSuites, NEW id,
         Fixtures(c, suite, id) # {}
  PROVE  /\ Fixture(c, suite, id).name = id
         /\ \E k \in DOMAIN c.fixtures[suite] : Fixture(c, suite, id) = c.fixtures[suite][k]
         /\ CaseValid(suite, Fixture(c, suite, id))
         /\ CompareEvaluation(Fixture(c, suite, id).expected, c.product[id])
<1> DEFINE cases == c.fixtures[suite]
           test  == ParityTest(c, suite)
<1>1. PICK k \in DOMAIN cases : cases[k].name = id /\ Fixture(c, suite, id) = cases[k]
  BY DEF Fixtures, Fixture
<1>2. ~TestFails(test)
  BY PhaseTests DEF Clean, Passing
<1>3. ValidateCases(suite, cases)
  BY <1>2 DEF ParityTest, TestFails
<1>4. test.verdicts = [i \in {cases[j].name : j \in DOMAIN cases} |->
                         PassIf(CompareEvaluation(Fixture(c, suite, i).expected, c.product[i]))]
  BY <1>3 DEF ParityTest
<1>5. id \in DOMAIN test.verdicts
      /\ test.verdicts[id] =
           PassIf(CompareEvaluation(Fixture(c, suite, id).expected, c.product[id]))
  BY <1>1, <1>4
<1>6. test.verdicts[id] = "pass"
  BY <1>2, <1>5 DEF TestFails, FailedSubtests
<1>7. CompareEvaluation(Fixture(c, suite, id).expected, c.product[id])
  BY <1>5, <1>6 DEF PassIf
<1> QED BY <1>1, <1>3, <1>7 DEF ValidateCases

(* The name of a fixture belongs to a case of its suite and oracle type. *)
LEMMA FixtureIsCase ==
  ASSUME NEW c, TablesAgree(c), NEW suite \in AdvancedSuites, NEW id \in DOMAIN c.matrix,
         NEW k \in DOMAIN c.fixtures[suite], c.fixtures[suite][k].name = id
  PROVE  c.matrix[id].suite = suite /\ c.matrix[id].oracleType = c.fixtures[suite][k].oracleType
BY DEF TablesAgree

LEMMA OutcomeMeansDeterminate ==
  ASSUME NEW evaluation, EvaluationValid(evaluation), evaluation.outcome # NoOutcome
  PROVE  evaluation.determination = "determinate"
BY DEF EvaluationValid, OutcomeValid

(* The differential tests compare the product with the official matcher. *)
LEMMA DifferentialAgrees ==
  ASSUME NEW c, NEW saw, Clean(c, saw, Differences), NEW suite \in AdvancedSuites,
         NEW id \in c.differential[suite]
  PROVE  /\ ProductAgrees(c, c.authority, id)
         /\ \E k \in DOMAIN c.fixtures[suite] :
              /\ c.fixtures[suite][k].name = id
              /\ c.fixtures[suite][k].oracleType = Differential
<1> DEFINE test == DifferentialTest(c, suite)
<1>1. ~TestFails(test)
  BY PhaseTests DEF Clean, Passing
<1>2. id \in DOMAIN test.verdicts /\ test.verdicts[id] = "pass"
  BY <1>1 DEF TestFails, FailedSubtests, DifferentialTest
<1>3. /\ Fixtures(c, suite, id) # {}
      /\ Fixture(c, suite, id).oracleType = Differential
      /\ CompareEvaluation(Fixture(c, suite, id).expected, c.product[id])
      /\ c.product[id].outcome # NoOutcome
      /\ c.product[id].outcome = c.authority[id]
  BY <1>2 DEF DifferentialTest, PassIf
<1>4. c.product[id].determination = "determinate"
  BY <1>3, OutcomeMeansDeterminate DEF CompareEvaluation
<1>5. PICK k \in DOMAIN c.fixtures[suite] :
        c.fixtures[suite][k].name = id /\ Fixture(c, suite, id) = c.fixtures[suite][k]
  BY <1>3 DEF Fixtures, Fixture
<1> QED BY <1>3, <1>4, <1>5 DEF ProductAgrees

(* The observations compare the fixture with Kubernetes, the contract      *)
(* tests the product with the fixture.                                     *)
LEMMA ObservationAgrees ==
  ASSUME NEW c, NEW suite \in AdvancedSuites, NEW before, Clean(c, before, Offline),
         NEW saw, Clean(c, saw, PhaseFor(suite)), NEW id \in c.observation[suite]
  PROVE  /\ ProductAgrees(c, saw, id)
         /\ \E k \in DOMAIN c.fixtures[suite] :
              /\ c.fixtures[suite][k].name = id
              /\ c.fixtures[suite][k].oracleType = Observation
<1> DEFINE test == ObservationTest(c, saw, suite)
           case == Fixture(c, suite, id)
<1>1. ~TestFails(test)
  BY PhaseTests DEF Clean, Passing
<1>2. id \in DOMAIN test.verdicts /\ test.verdicts[id] = "pass"
  BY <1>1 DEF TestFails, FailedSubtests, ObservationTest
<1>3. /\ Fixtures(c, suite, id) # {}
      /\ case.oracleType = Observation
      /\ case.expected.outcome # NoOutcome
      /\ case.expected.outcome = saw[id]
  BY <1>2 DEF ObservationTest
<1>4. CompareEvaluation(case.expected, c.product[id])
  BY <1>3, OfflineCompares
<1>5. c.product[id].outcome = case.expected.outcome /\ c.product[id].determination = "determinate"
  BY <1>3, <1>4, OutcomeMeansDeterminate DEF CompareEvaluation
<1> QED BY <1>3, <1>5, OfflineCompares DEF ProductAgrees

(* The core observations compare the product with Kubernetes. *)
LEMMA CoreAgrees ==
  ASSUME NEW c, NEW saw, Clean(c, saw, PhaseFor(Core)), NEW id \in DOMAIN c.core
  PROVE  ProductAgrees(c, saw, id)
<1> DEFINE test == CoreObservationTest(c, saw)
<1>1. ~TestFails(test)
  BY PhaseTests DEF Clean, Passing
<1>2. id \in DOMAIN test.verdicts /\ test.verdicts[id] = "pass"
  BY <1>1 DEF TestFails, FailedSubtests, CoreObservationTest
<1> QED BY <1>2 DEF CoreObservationTest, ProductAgrees

(* The cases a phase runs, by the tables they come from. *)
LEMMA PhaseRuns ==
  ASSUME NEW c
  PROVE  /\ \A id \in Ids(c, Offline) : \E suite \in AdvancedSuites :
              \/ \E k \in DOMAIN c.fixtures[suite] : c.fixtures[suite][k].name = id
              \/ id \in c.differential[suite]
         /\ Ids(c, Differences) =
              (UNION {c.differential[suite] : suite \in AdvancedSuites}) \cap DOMAIN c.matrix
         /\ \A suite \in Suites :
              Ids(c, PhaseFor(suite)) = ComparedIn(c, suite) \cap DOMAIN c.matrix
<1>1. /\ DOMAIN CoreObservationTest(c, c.authority).verdicts = DOMAIN c.core
      /\ \A suite : /\ DOMAIN DifferentialTest(c, suite).verdicts = c.differential[suite]
                    /\ DOMAIN ObservationTest(c, c.authority, suite).verdicts = c.observation[suite]
  BY DEF DifferentialTest, ObservationTest, CoreObservationTest
<1>2. ASSUME NEW id \in Ids(c, Offline)
      PROVE  \E suite \in AdvancedSuites :
               \/ \E k \in DOMAIN c.fixtures[suite] : c.fixtures[suite][k].name = id
               \/ id \in c.differential[suite]
  <2>1. PICK test \in Tests(c, c.authority, Offline) : id \in DOMAIN test.verdicts
    BY DEF Ids, Subtests
  <2>2. ASSUME NEW suite \in AdvancedSuites, test = ParityTest(c, suite)
        PROVE  \E k \in DOMAIN c.fixtures[suite] : c.fixtures[suite][k].name = id
    BY <2>1, <2>2 DEF ParityTest, NoSubtests
  <2>3. test # CoreContractTest(c)
    BY <2>1 DEF CoreContractTest, NoSubtests
  <2> QED BY <2>1, <2>2, <2>3, <1>1, PhaseTests
<1>3. Ids(c, Differences) =
        (UNION {c.differential[suite] : suite \in AdvancedSuites}) \cap DOMAIN c.matrix
  BY <1>1, PhaseTests DEF Ids, Subtests
<1>4. Subtests(Tests(c, c.authority, PhaseFor(Core))) = DOMAIN c.core
  BY <1>1, PhaseTests DEF Subtests
<1>5. \A suite \in AdvancedSuites :
        Subtests(Tests(c, c.authority, PhaseFor(suite))) = c.observation[suite]
  BY <1>1, PhaseTests DEF Subtests
<1>6. \A suite \in Suites : suite = Core \/ (suite \in AdvancedSuites /\ suite # Core)
  BY DEF Suites, AdvancedSuites, Core
<1> QED BY <1>2, <1>3, <1>4, <1>5, <1>6 DEF Ids, ComparedIn

-------------------------------------------------------------------------------
(***************************************************************************)
(* A candidate whose phases are all clean, the k-th of them having seen    *)
(* saw[k].                                                                 *)
(***************************************************************************)
AllClean(c, saw) ==
  /\ Clean(c, saw[1], Offline)
  /\ Clean(c, saw[2], Differences)
  /\ \A suite \in Suites : Clean(c, saw[PhaseOf(suite)], PhaseFor(suite))

(* A set of cases as large as the set it is part of. *)
LEMMA AllOf ==
  ASSUME NEW S, NEW T, IsFiniteSet(T), S \subseteq T, Cardinality(S) = Cardinality(T)
  PROVE  S = T
BY FS_Subset

LEMMA MatrixParts ==
  ASSUME NEW m, IsFiniteSet(DOMAIN m)
  PROVE  /\ \A type : IsFiniteSet(OracleTypeIds(m, type))
         /\ \A suite : IsFiniteSet(ObservationIds(m, suite))
<1>1. /\ \A type : OracleTypeIds(m, type) \subseteq DOMAIN m
      /\ \A suite : ObservationIds(m, suite) \subseteq DOMAIN m
  BY DEF OracleTypeIds, ObservationIds
<1> QED BY <1>1, FS_Subset

(* Every differential of the matrix agrees with Kubernetes. *)
LEMMA DifferentialCase ==
  ASSUME NEW c, NEW saw, IsFiniteSet(DOMAIN c.matrix), TablesAgree(c), AllClean(c, saw),
         NEW id \in OracleTypeIds(c.matrix, Differential)
  PROVE  ProductAgrees(c, c.authority, id)
<1>1. Ids(c, Differences) \subseteq OracleTypeIds(c.matrix, Differential)
  <2> SUFFICES ASSUME NEW i \in Ids(c, Differences)
               PROVE  i \in OracleTypeIds(c.matrix, Differential)
    OBVIOUS
  <2>1. i \in DOMAIN c.matrix /\ \E suite \in AdvancedSuites : i \in c.differential[suite]
    BY PhaseRuns
  <2> QED BY <2>1, DifferentialAgrees, FixtureIsCase DEF AllClean, OracleTypeIds
<1>2. Ids(c, Differences) = OracleTypeIds(c.matrix, Differential)
  BY <1>1, AllOf, MatrixParts, PhaseIds DEF AllClean, Clean
<1>3. \E suite \in AdvancedSuites : id \in c.differential[suite]
  BY <1>2, PhaseRuns
<1> QED BY <1>3, DifferentialAgrees DEF AllClean

(* Every observation of an advanced suite agrees with Kubernetes. *)
LEMMA ObservationCase ==
  ASSUME NEW c, NEW saw, IsFiniteSet(DOMAIN c.matrix), TablesAgree(c), AllClean(c, saw),
         NEW suite \in AdvancedSuites, NEW id \in ObservationIds(c.matrix, suite)
  PROVE  ProductAgrees(c, saw[PhaseOf(suite)], id)
<1>1. suite \in Suites /\ suite # Core
  BY DEF Suites, AdvancedSuites, Core
<1>2. Ids(c, PhaseFor(suite)) = c.observation[suite] \cap DOMAIN c.matrix
  BY <1>1, PhaseRuns DEF ComparedIn
<1>3. Ids(c, PhaseFor(suite)) \subseteq ObservationIds(c.matrix, suite)
  BY <1>1, <1>2, ObservationAgrees, FixtureIsCase DEF AllClean, ObservationIds, OracleTypeIds
<1>4. Ids(c, PhaseFor(suite)) = ObservationIds(c.matrix, suite)
  BY <1>1, <1>3, AllOf, MatrixParts, PhaseIds DEF AllClean, Clean
<1> QED BY <1>1, <1>2, <1>4, ObservationAgrees DEF AllClean

(* Every incomplete contract stays incomplete. *)
LEMMA IncompleteCase ==
  ASSUME NEW c, NEW saw, TablesAgree(c), AllClean(c, saw),
         NEW id \in OracleTypeIds(c.matrix, IncompleteContract),
         c.matrix[id].suite \in AdvancedSuites
  PROVE  ProductIncomplete(c, id)
<1> DEFINE suite == c.matrix[id].suite
           case  == Fixture(c, suite, id)
<1>1. id \in DOMAIN c.matrix /\ c.matrix[id].oracleType = IncompleteContract
  BY DEF OracleTypeIds
<1>2. Fixtures(c, suite, id) # {}
  BY <1>1 DEF TablesAgree
<1>3. /\ CaseValid(suite, case) /\ CompareEvaluation(case.expected, c.product[id])
      /\ \E k \in DOMAIN c.fixtures[suite] : c.fixtures[suite][k].name = id
                                          /\ case = c.fixtures[suite][k]
  BY <1>2, OfflineCompares DEF AllClean
<1>4. case.oracleType = IncompleteContract
  <2>1. PICK k \in DOMAIN c.fixtures[suite] :
          c.fixtures[suite][k].name = id /\ case = c.fixtures[suite][k]
    BY <1>3
  <2>2. c.matrix[id].oracleType = c.fixtures[suite][k].oracleType
    BY <1>1, <2>1, FixtureIsCase
  <2> QED BY <1>1, <2>1, <2>2
<1>5. case.expected.determination # "determinate" /\ case.expected.outcome = NoOutcome
  BY <1>3, <1>4 DEF CaseValid
<1> QED BY <1>3, <1>5 DEF CompareEvaluation, ProductIncomplete

(* A core case that some phase ran was run by the core phase. *)
LEMMA CoreCase ==
  ASSUME NEW c, NEW saw, TablesAgree(c), AllClean(c, saw), NEW id \in DOMAIN c.matrix,
         c.matrix[id].suite = Core, NEW k \in 1..5, id \in Ids(c, Phases[k])
  PROVE  ProductAgrees(c, saw[PhaseOf(Core)], id)
<1>1. Core \notin AdvancedSuites /\ Core \in Suites /\ AdvancedSuites \subseteq Suites
      /\ \A suite \in Suites : suite = Core \/ suite \in AdvancedSuites
  BY DEF Suites, AdvancedSuites, Core
<1>2. \A suite \in AdvancedSuites : \A j \in DOMAIN c.fixtures[suite] :
        c.fixtures[suite][j].name # id
  BY <1>1, FixtureIsCase
<1>3. \A suite \in AdvancedSuites :
        id \notin c.differential[suite] /\ id \notin c.observation[suite]
  <2> SUFFICES ASSUME NEW suite \in AdvancedSuites
               PROVE  id \notin c.differential[suite] /\ id \notin c.observation[suite]
    OBVIOUS
  <2>1. /\ Clean(c, saw[1], Offline) /\ Clean(c, saw[2], Differences)
        /\ Clean(c, saw[PhaseOf(suite)], PhaseFor(suite))
    BY <1>1 DEF AllClean
  <2>2. id \notin c.differential[suite]
    BY <1>2, <2>1, DifferentialAgrees
  <2>3. id \notin c.observation[suite]
    BY <1>2, <2>1, ObservationAgrees
  <2> QED BY <2>2, <2>3
<1>4. id \notin Ids(c, Offline) /\ id \notin Ids(c, Differences)
  BY <1>2, <1>3, PhaseRuns
<1>5. \A suite \in AdvancedSuites : id \notin Ids(c, PhaseFor(suite))
  BY <1>1, <1>3, PhaseRuns DEF ComparedIn
<1>6. id \in Ids(c, PhaseFor(Core))
  BY <1>1, <1>4, <1>5, PhaseNames
<1>7. id \in DOMAIN c.core
  BY <1>1, <1>6, PhaseRuns DEF ComparedIn
<1> QED BY <1>1, <1>7, CoreAgrees DEF AllClean

(* Every case of the matrix keeps its promise. *)
KeepsPromise(c, saw, id) ==
  CASE c.matrix[id].oracleType = IncompleteContract -> ProductIncomplete(c, id)
    [] c.matrix[id].oracleType = Differential -> ProductAgrees(c, c.authority, id)
    [] OTHER -> ProductAgrees(c, saw[PhaseOf(c.matrix[id].suite)], id)

LEMMA EveryCase ==
  ASSUME NEW c, NEW saw, IsFiniteSet(DOMAIN c.matrix), MatrixValid(c.matrix), TablesAgree(c),
         AllClean(c, saw), \A i \in DOMAIN c.matrix : \E k \in 1..5 : i \in Ids(c, Phases[k]),
         NEW id \in DOMAIN c.matrix
  PROVE  KeepsPromise(c, saw, id)
<1>1. MatrixCaseValid(c.matrix[id])
  BY DEF MatrixValid, Cases
<1>2. /\ c.matrix[id].suite = Core \/ c.matrix[id].suite \in AdvancedSuites
      /\ c.matrix[id].oracleType \in OracleTypes
      /\ c.matrix[id].suite = Core => c.matrix[id].oracleType = Observation
  BY <1>1 DEF MatrixCaseValid, Suites
<1>3. Observation # IncompleteContract /\ Observation # Differential
      /\ Differential # IncompleteContract
  BY DEF Observation, IncompleteContract, Differential
<1>4. CASE c.matrix[id].suite = Core
  BY <1>2, <1>3, <1>4, CoreCase DEF KeepsPromise
<1>5. CASE c.matrix[id].suite \in AdvancedSuites
  <2>1. CASE c.matrix[id].oracleType = IncompleteContract
    BY <1>3, <1>5, <2>1, IncompleteCase DEF OracleTypeIds, KeepsPromise
  <2>2. CASE c.matrix[id].oracleType = Differential
    BY <1>3, <2>2, DifferentialCase DEF OracleTypeIds, KeepsPromise
  <2>3. CASE c.matrix[id].oracleType = Observation
    BY <1>3, <1>5, <2>3, ObservationCase DEF OracleTypeIds, ObservationIds, KeepsPromise
  <2> QED BY <1>2, <2>1, <2>2, <2>3 DEF OracleTypes
<1> QED BY <1>2, <1>4, <1>5

(* No more cases are claimed than were compared and agree. *)
LEMMA EveryClaim ==
  ASSUME NEW c, NEW saw, IsFiniteSet(DOMAIN c.matrix), AllClean(c, saw)
  PROVE  /\ \A suite \in Suites :
              Cardinality(ObservationIds(c.matrix, suite)) <=
                Cardinality({id \in ComparedIn(c, suite) \cap DOMAIN c.matrix :
                               ProductAgrees(c, saw[PhaseOf(suite)], id)})
         /\ Cardinality(OracleTypeIds(c.matrix, Differential)) <=
              Cardinality({id \in (UNION {c.differential[s] : s \in AdvancedSuites})
                                    \cap DOMAIN c.matrix :
                             ProductAgrees(c, c.authority, id)})
<1>1. \A type : Cardinality(OracleTypeIds(c.matrix, type)) \in Nat
  BY MatrixParts, FS_CardinalityType
<1>2. \A suite : Cardinality(ObservationIds(c.matrix, suite)) \in Nat
  BY MatrixParts, FS_CardinalityType
<1>3. ASSUME NEW suite \in Suites
      PROVE  Cardinality(ObservationIds(c.matrix, suite)) <=
               Cardinality({id \in ComparedIn(c, suite) \cap DOMAIN c.matrix :
                              ProductAgrees(c, saw[PhaseOf(suite)], id)})
  <2>1. \A id \in ComparedIn(c, suite) : ProductAgrees(c, saw[PhaseOf(suite)], id)
    BY ObservationAgrees, CoreAgrees DEF AllClean, ComparedIn, Suites
  <2>2. {id \in ComparedIn(c, suite) \cap DOMAIN c.matrix :
           ProductAgrees(c, saw[PhaseOf(suite)], id)} = Ids(c, PhaseFor(suite))
    BY <2>1, PhaseRuns
  <2>3. Cardinality(Ids(c, PhaseFor(suite))) = Cardinality(ObservationIds(c.matrix, suite))
    BY PhaseIds DEF AllClean, Clean
  <2> QED BY <1>2, <2>2, <2>3
<1>4. \A s \in AdvancedSuites : \A id \in c.differential[s] : ProductAgrees(c, c.authority, id)
  BY DifferentialAgrees DEF AllClean
<1>5. {id \in (UNION {c.differential[s] : s \in AdvancedSuites}) \cap DOMAIN c.matrix :
         ProductAgrees(c, c.authority, id)} = Ids(c, Differences)
  BY <1>4, PhaseRuns
<1>6. Cardinality(Ids(c, Differences)) = Cardinality(OracleTypeIds(c.matrix, Differential))
  BY PhaseIds DEF AllClean, Clean
<1>7. Cardinality(OracleTypeIds(c.matrix, Differential)) <= Cardinality(Ids(c, Differences))
  BY <1>1, <1>6
<1> QED BY <1>3, <1>5, <1>7

-------------------------------------------------------------------------------
(***************************************************************************)
(* The inductive invariant: as long as nothing failed, every phase so far  *)
(* was clean by what it saw and ran the cases its result names; the result *)
(* after them is the coverage of what they ran; and the gate passes at the *)
(* end only.                                                               *)
(***************************************************************************)
RanIn(k) == UNION {results[j].executed : j \in 1..k}

Sequence(s) == \E R : s \in Seq(R)

RunInv ==
  /\ candidate \in Candidates
  /\ failed \in BOOLEAN
  /\ Sequence(results) /\ Sequence(observed)
  /\ Len(results) <= 6
  /\ Len(observed) = IF Len(results) <= 5 THEN Len(results) ELSE 5

PhaseInv ==
  ~failed => \A k \in 1..5 : k <= Len(results) =>
               /\ Clean(candidate, observed[k], Phases[k])
               /\ results[k].executed = Ids(candidate, Phases[k])

CoverageInv ==
  Len(results) = 6 =>
    /\ \E prerequisiteFailed \in BOOLEAN :
         results[6] = MatrixExecutionResult(matrix, RanIn(5), prerequisiteFailed)
    /\ ~failed => Missing(matrix, RanIn(5)) = {}

PassInv == exit = 0 => ~failed /\ Len(results) = 6 /\ MatrixValid(matrix)

IInv == RunInv /\ PhaseInv /\ CoverageInv /\ PassInv

LEMMA EmptySequence == Sequence(<<>>) /\ Len(<<>>) = 0
<1>1. <<>> \in Seq({})
  OBVIOUS
<1>2. Sequence(<<>>)
  BY <1>1, Zenon DEF Sequence
<1> QED BY <1>2

LEMMA AppendResult ==
  ASSUME NEW s, Sequence(s), NEW e
  PROVE  /\ Len(s) \in Nat /\ DOMAIN s = 1..Len(s)
         /\ Sequence(Append(s, e))
         /\ Len(Append(s, e)) = Len(s) + 1
         /\ Append(s, e)[Len(s) + 1] = e
         /\ \A k \in 1..Len(s) : Append(s, e)[k] = s[k]
<1>1. PICK R : s \in Seq(R)
  BY Zenon DEF Sequence
<1>2. s \in Seq(R \cup {e}) /\ e \in R \cup {e}
  BY <1>1
<1>3. Append(s, e) \in Seq(R \cup {e})
  BY <1>2
<1>4. Sequence(Append(s, e))
  BY <1>3, Zenon DEF Sequence
<1> QED BY <1>2, <1>4

(* Some test belongs to every phase. *)
LEMMA PhaseHasTests ==
  ASSUME NEW c, NEW k \in 1..5
  PROVE  Tests(c, c.authority, Phases[k]) # {}
<1>1. Tests(c, c.authority, Offline) # {} /\ Tests(c, c.authority, Differences) # {}
  BY PhaseTests DEF AdvancedSuites
<1>2. Tests(c, c.authority, PhaseFor(Core)) # {}
  <2>1. Tests(c, c.authority, PhaseFor(Core)) = {CoreObservationTest(c, c.authority)}
    BY PhaseTests
  <2> QED BY <2>1
<1>3. ASSUME NEW suite \in Suites PROVE Tests(c, c.authority, PhaseFor(suite)) # {}
  <2>1. CASE suite \in AdvancedSuites
    <3>1. Tests(c, c.authority, PhaseFor(suite)) = {ObservationTest(c, c.authority, suite)}
      BY <2>1, PhaseTests
    <3> QED BY <3>1
  <2> QED BY <1>2, <2>1 DEF Suites
<1> QED BY <1>1, <1>3, PhaseNames

LEMMA InitInv == Init => IInv
<1> SUFFICES ASSUME Init PROVE IInv
  OBVIOUS
<1>1. /\ results = <<>> /\ observed = <<>> /\ candidate \in Candidates
      /\ failed = FALSE /\ exit = -1
  BY DEF Init
<1>2. Sequence(results) /\ Len(results) = 0 /\ Sequence(observed) /\ Len(observed) = 0
  BY <1>1, EmptySequence
<1>3. Len(results) <= 6 /\ Len(observed) = IF Len(results) <= 5 THEN Len(results) ELSE 5
  BY <1>2
<1>4. RunInv
  BY <1>1, <1>2, <1>3, Zenon DEF RunInv
<1>5. PhaseInv /\ CoverageInv /\ PassInv
  BY <1>1, <1>2 DEF PhaseInv, CoverageInv, PassInv
<1> QED BY <1>4, <1>5 DEF IInv

(* A result is added to the sequence. *)
LEMMA Added ==
  ASSUME RunInv, NEW result, Report(result), candidate' = candidate
  PROVE  /\ Len(results) \in Nat /\ DOMAIN results = 1..Len(results)
         /\ Sequence(results')
         /\ Len(results') = Len(results) + 1
         /\ results'[Len(results) + 1] = result
         /\ \A k \in 1..Len(results) : results'[k] = results[k]
         /\ ~failed' => ~failed /\ result.status # "failed"
         /\ failed' \in BOOLEAN /\ candidate' \in Candidates
<1>1. Sequence(results) /\ results' = Append(results, result)
  BY DEF RunInv, Report
<1>2. /\ Len(results) \in Nat /\ DOMAIN results = 1..Len(results)
      /\ Sequence(results')
      /\ Len(results') = Len(results) + 1
      /\ results'[Len(results) + 1] = result
      /\ \A k \in 1..Len(results) : results'[k] = results[k]
  BY <1>1, AppendResult
<1>3. ~failed' => ~failed /\ result.status # "failed"
  BY DEF Report
<1>4. failed' \in BOOLEAN /\ candidate' \in Candidates
  BY DEF Report, RunInv
<1> QED BY <1>2, <1>3, <1>4

(* So is what a phase saw. *)
LEMMA AddedObserved ==
  ASSUME RunInv, Len(results) < 5, NEW saw, observed' = Append(observed, saw)
  PROVE  /\ Sequence(observed')
         /\ Len(observed) = Len(results) /\ Len(observed') = Len(results) + 1
         /\ observed'[Len(results) + 1] = saw
         /\ \A k \in 1..Len(results) : observed'[k] = observed[k]
<1>1. Sequence(results) /\ Sequence(observed)
  BY DEF RunInv
<1>2. Len(results) \in Nat
  BY <1>1, AppendResult
<1>3. Len(observed) = Len(results)
  BY <1>2 DEF RunInv
<1> QED BY <1>1, <1>3, AppendResult

LEMMA PhaseStep ==
  ASSUME IInv, RunPhase
  PROVE  IInv'
<1> DEFINE n     == Len(results) + 1
           phase == Phases[n]
           tests == Tests(candidate, candidate.authority, phase)
<1>1. \E needs \in BOOLEAN : \E fault \in Faults(tests, needs) \cup {NoFault} :
        Execute(phase, fault)
  BY Zenon DEF RunPhase
<1>2. PICK needs \in BOOLEAN : \E fault \in Faults(tests, needs) \cup {NoFault} :
        Execute(phase, fault)
  BY <1>1
<1>3. PICK fault \in Faults(tests, needs) \cup {NoFault} : Execute(phase, fault)
  BY <1>2
<1> DEFINE result == ExecutePhase(candidate, phase, fault)
           saw    == Seen(candidate, fault)
<1>4. candidate' = candidate /\ exit' = exit /\ exit = -1 /\ RunInv
  BY DEF RunPhase, Running, IInv
<1>5. Report(result) /\ observed' = Append(observed, saw)
  BY <1>3 DEF Execute
<1> HIDE DEF result, saw
<1>6. results'[n] = result /\ \A k \in 1..Len(results) : results'[k] = results[k]
  BY <1>4, <1>5, Added
<1>7. Len(results) \in Nat /\ Len(results') = n
  BY <1>4, <1>5, Added
<1>8. ~failed' => ~failed /\ result.status # "failed"
  BY <1>4, <1>5, Added
<1>9. Len(results) < 5
  BY PhaseNames DEF RunPhase
<1>10. n \in 1..5 /\ Len(results) <= 5 /\ Len(results') # 6
  BY <1>7, <1>9
<1>11. /\ Sequence(observed') /\ Len(observed') = n /\ observed'[n] = saw
       /\ \A k \in 1..Len(results) : observed'[k] = observed[k]
  BY <1>4, <1>5, <1>9, AddedObserved
<1>12. RunInv'
  <2>1. Sequence(results') /\ failed' \in BOOLEAN /\ candidate' \in Candidates
    BY <1>4, <1>5, Added
  <2>2. /\ Len(results') <= 6
        /\ Len(observed') = IF Len(results') <= 5 THEN Len(results') ELSE 5
    BY <1>7, <1>10, <1>11
  <2> QED BY <1>11, <2>1, <2>2, Zenon DEF RunInv
<1>13. PhaseInv'
  <2> SUFFICES ASSUME ~failed', NEW k \in 1..5, k <= Len(results')
               PROVE  /\ Clean(candidate, observed'[k], Phases[k])
                      /\ results'[k].executed = Ids(candidate, Phases[k])
    BY <1>4 DEF PhaseInv
  <2>1. CASE k = n
    <3>1. Clean(candidate, saw, phase) /\ result.executed = Ids(candidate, phase)
      BY <1>8, <1>10, PhaseHasTests, CleanPhase DEF result, saw
    <3> QED BY <2>1, <3>1, <1>6, <1>11
  <2>2. CASE k # n
    <3>1. k \in 1..Len(results) /\ k <= Len(results)
      BY <2>2, <1>7
    <3>2. /\ Clean(candidate, observed[k], Phases[k])
          /\ results[k].executed = Ids(candidate, Phases[k])
      BY <3>1, <1>8 DEF IInv, PhaseInv
    <3> QED BY <3>1, <3>2, <1>6, <1>11
  <2> QED BY <2>1, <2>2
<1>14. CoverageInv'
  BY <1>10 DEF CoverageInv
<1>15. PassInv'
  <2>1. exit' # 0
    BY <1>4
  <2> QED BY <2>1, Zenon DEF PassInv
<1> QED BY <1>12, <1>13, <1>14, <1>15 DEF IInv

LEMMA CoverageStep ==
  ASSUME IInv, CoverMatrix
  PROVE  IInv'
<1> DEFINE seen   == UNION {results[k].executed : k \in DOMAIN results}
           result == MatrixExecutionResult(matrix, seen, failed)
<1>1. /\ candidate' = candidate /\ exit' = exit /\ exit = -1 /\ matrix' = matrix
      /\ Len(results) = 5 /\ RunInv /\ observed' = observed
  BY PhaseNames DEF CoverMatrix, Running, matrix, IInv
<1>2. Report(result)
  BY DEF CoverMatrix
<1> HIDE DEF result
<1>3. /\ DOMAIN results = 1..5
      /\ Len(results') = 6
      /\ results'[6] = result
      /\ \A k \in 1..5 : results'[k] = results[k]
  BY <1>1, <1>2, Added
<1>4. ~failed' => ~failed /\ result.status # "failed"
  BY <1>1, <1>2, Added
<1>5. RunInv'
  <2>1. Sequence(results') /\ failed' \in BOOLEAN /\ candidate' \in Candidates
    BY <1>1, <1>2, Added
  <2>2. Sequence(observed) /\ Len(observed) = 5
    BY <1>1 DEF RunInv
  <2>3. /\ Len(results') <= 6
        /\ Len(observed') = IF Len(results') <= 5 THEN Len(results') ELSE 5
    BY <1>1, <1>3, <2>2
  <2> QED BY <1>1, <2>1, <2>2, <2>3, Zenon DEF RunInv
<1>6. PhaseInv'
  <2> SUFFICES ASSUME ~failed', NEW k \in 1..5
               PROVE  /\ Clean(candidate, observed[k], Phases[k])
                      /\ results'[k].executed = Ids(candidate, Phases[k])
    BY <1>1 DEF PhaseInv
  <2>1. k <= Len(results)
    BY <1>1
  <2>2. /\ Clean(candidate, observed[k], Phases[k])
        /\ results[k].executed = Ids(candidate, Phases[k])
    BY <2>1, <1>4 DEF IInv, PhaseInv
  <2> QED BY <2>2, <1>3
<1>7. CoverageInv'
  <2>1. RanIn(5)' = seen
    BY <1>3 DEF RanIn
  <2>2. \E b \in BOOLEAN : results'[6] = MatrixExecutionResult(matrix, RanIn(5)', b)
    BY <1>3, <2>1, Zenon DEF IInv, RunInv, result
  <2>3. ~failed /\ result.status # "failed" => Missing(matrix, seen) = {}
    BY DEF result, MatrixExecutionResult, Result
  <2>4. ~failed' => Missing(matrix', RanIn(5)') = {}
    BY <1>1, <1>4, <2>1, <2>3, Zenon
  <2> QED BY <1>1, <2>2, <2>4, Zenon DEF CoverageInv
<1>8. PassInv'
  <2>1. exit' # 0
    BY <1>1
  <2> QED BY <2>1, Zenon DEF PassInv
<1> QED BY <1>5, <1>6, <1>7, <1>8 DEF IInv

LEMMA EndStep ==
  ASSUME IInv, RejectMatrix \/ WriteReport \/ UNCHANGED vars
  PROVE  IInv'
<1>1. /\ candidate' = candidate /\ failed' = failed /\ results' = results /\ matrix' = matrix
      /\ RanIn(5)' = RanIn(5) /\ observed' = observed
  BY DEF RejectMatrix, WriteReport, vars, matrix, RanIn
<1>2. RunInv' /\ PhaseInv' /\ CoverageInv'
  BY <1>1 DEF IInv, RunInv, PhaseInv, CoverageInv
<1>3. PassInv'
  <2>1. CASE RejectMatrix
    BY <2>1 DEF RejectMatrix, PassInv
  <2>2. CASE WriteReport
    BY <2>2, <1>1, PhaseNames DEF WriteReport, Running, PassInv
  <2>3. CASE UNCHANGED vars
    BY <2>3, <1>1 DEF vars, IInv, PassInv
  <2> QED BY <2>1, <2>2, <2>3
<1> QED BY <1>2, <1>3 DEF IInv

(* The invariant holds in every state of every run of the gate. *)
THEOREM GateInvariant == Spec => []IInv
<1>1. ASSUME IInv, [Next]_vars PROVE IInv'
  BY <1>1, PhaseStep, CoverageStep, EndStep DEF Next
<1> QED BY InitInv, <1>1, PTL DEF Spec

-------------------------------------------------------------------------------
(* A gate that passed ran five clean phases over every case. *)
LEMMA PassedRun ==
  ASSUME IInv, exit = 0
  PROVE  /\ IsFiniteSet(DOMAIN matrix) /\ MatrixValid(matrix) /\ AllClean(candidate, observed)
         /\ \A id \in DOMAIN matrix : \E k \in 1..5 : id \in Ids(candidate, Phases[k])
<1>1. ~failed /\ Len(results) = 6 /\ MatrixValid(matrix)
  BY DEF IInv, PassInv
<1>2. \A k \in 1..5 : /\ Clean(candidate, observed[k], Phases[k])
                      /\ results[k].executed = Ids(candidate, Phases[k])
  BY <1>1 DEF IInv, PhaseInv
<1>3. AllClean(candidate, observed)
  BY <1>2, SuitePhases DEF AllClean, Offline, Differences, PhaseFor
<1>4. \A id \in DOMAIN matrix : id \in RanIn(5)
  BY <1>1 DEF IInv, CoverageInv, Missing
<1>5. \A id \in DOMAIN matrix : \E k \in 1..5 : id \in results[k].executed
  BY <1>4 DEF RanIn
<1>6. IsFiniteSet(DOMAIN matrix)
  BY GateAssumption DEF IInv, RunInv, matrix, TablesFinite
<1> QED BY <1>1, <1>2, <1>3, <1>5, <1>6

(***************************************************************************)
(* When the tables agree on what each case is, the gate passes only a      *)
(* candidate whose product gives in every observation the outcome the      *)
(* phase saw Kubernetes give and in every differential that of the         *)
(* official matcher, and stays incomplete where the contract is (main.go   *)
(* run, executePhase, matrixExecutionResult).                              *)
(***************************************************************************)
THEOREM AgreedIfPassed == Spec => []PassedMeansAgreed
<1>1. IInv => PassedMeansAgreed
  BY PassedRun, EveryCase DEF PassedMeansAgreed, KeepsPromise, matrix
<1> QED BY <1>1, GateInvariant, PTL

(***************************************************************************)
(* Whatever the tables say, a gate that passed claims no more comparisons  *)
(* with what Kubernetes was seen to do than were made and agreed           *)
(* (executePhase, expectedCaseCount).                                      *)
(***************************************************************************)
THEOREM ClaimsHold == Spec => []ClaimsAreReal
<1>1. IInv => ClaimsAreReal
  BY PassedRun, EveryClaim DEF ClaimsAreReal, matrix
<1> QED BY <1>1, GateInvariant, PTL

(***************************************************************************)
(* The coverage result names every case no phase ran, and counts them by   *)
(* oracle type, whether phases failed or not (matrixExecutionResult).      *)
(***************************************************************************)
THEOREM MissingNamed == Spec => []MissingReported
<1>1. ASSUME IInv, Len(results) = 6
      PROVE  /\ results[6].failedCases = DOMAIN matrix \ RanIn(5)
             /\ \A type \in OracleTypes :
                  results[6].missing[type] = Cardinality(OracleTypeIds(matrix, type) \ RanIn(5))
  <2>1. PICK b \in BOOLEAN : results[6] = MatrixExecutionResult(matrix, RanIn(5), b)
    BY <1>1 DEF IInv, CoverageInv
  <2>2. /\ results[6].failedCases = Missing(matrix, RanIn(5))
        /\ results[6].missing =
             [type \in OracleTypes |->
                Cardinality(TypedAs(Missing(matrix, RanIn(5)), matrix, type))]
    BY <2>1 DEF MatrixExecutionResult, Result
  <2>3. \A type : TypedAs(Missing(matrix, RanIn(5)), matrix, type)
                    = OracleTypeIds(matrix, type) \ RanIn(5)
    BY DEF TypedAs, Missing, OracleTypeIds
  <2> QED BY <2>2, <2>3 DEF Missing
<1>2. IInv => MissingReported
  BY <1>1, PhaseNames DEF MissingReported, RanIn
<1> QED BY <1>2, GateInvariant, PTL

-------------------------------------------------------------------------------
(***************************************************************************)
(* The counts of failures.  They are numbers because the tables are finite,*)
(* and one of them is positive exactly in a result that failed.            *)
(***************************************************************************)
LEMMA ImageFinite ==
  ASSUME NEW S, IsFiniteSet(S), NEW f
  PROVE  IsFiniteSet({f[x] : x \in S})
<1> DEFINE g == [x \in S |-> f[x]]
           T == {f[x] : x \in S}
<1>1. g \in Surjection(S, T)
  BY DEF Surjection
<1> QED BY <1>1, FS_Surjection

LEMMA PairFinite ==
  ASSUME NEW x, NEW y
  PROVE  IsFiniteSet({x, y})
<1>1. IsFiniteSet({x} \cup {y}) /\ {x, y} = {x} \cup {y}
  BY FS_Singleton, FS_AddElement
<1> QED BY <1>1

LEMMA TestsFinite ==
  ASSUME NEW c, TablesFinite(c), NEW saw, NEW k \in 1..5
  PROVE  /\ IsFiniteSet(Tests(c, saw, Phases[k]))
         /\ \A test \in Tests(c, saw, Phases[k]) : IsFiniteSet(DOMAIN test.verdicts)
<1> DEFINE Parity(suite) == ParityTest(c, suite)
           Differ(suite) == DifferentialTest(c, suite)
           parity   == {Parity(suite) : suite \in AdvancedSuites}
           differ   == {Differ(suite) : suite \in AdvancedSuites}
           contract == {CoreContractTest(c)}
<1>1. IsFiniteSet({})
  BY FS_EmptySet
<1>2. IsFiniteSet(parity) /\ IsFiniteSet(differ)
  <2> HIDE DEF Parity, Differ
  <2>1. /\ parity = {Parity("cel-authorizer"), Parity("equivalent-selector")}
        /\ differ = {Differ("cel-authorizer"), Differ("equivalent-selector")}
    BY DEF AdvancedSuites
  <2>2. /\ IsFiniteSet({Parity("cel-authorizer"), Parity("equivalent-selector")})
        /\ IsFiniteSet({Differ("cel-authorizer"), Differ("equivalent-selector")})
    BY PairFinite
  <2> QED BY <2>1, <2>2, Zenon
<1>3. ASSUME NEW suite \in AdvancedSuites
      PROVE  /\ IsFiniteSet(DOMAIN Parity(suite).verdicts)
             /\ IsFiniteSet(DOMAIN Differ(suite).verdicts)
             /\ IsFiniteSet(DOMAIN ObservationTest(c, saw, suite).verdicts)
  <2> DEFINE cases == c.fixtures[suite]
             name  == [i \in DOMAIN cases |-> cases[i].name]
  <2>1. DOMAIN Parity(suite).verdicts \in {{}, {name[i] : i \in DOMAIN cases}}
    BY DEF ParityTest, NoSubtests
  <2>2. IsFiniteSet(DOMAIN cases)
    BY DEF TablesFinite
  <2>3. IsFiniteSet({name[i] : i \in DOMAIN cases})
    BY <2>2, ImageFinite
  <2>4. /\ IsFiniteSet(DOMAIN Differ(suite).verdicts)
        /\ IsFiniteSet(DOMAIN ObservationTest(c, saw, suite).verdicts)
    BY DEF TablesFinite, DifferentialTest, ObservationTest
  <2> QED BY <1>1, <2>1, <2>3, <2>4
<1>4. IsFiniteSet(DOMAIN CoreContractTest(c).verdicts)
      /\ IsFiniteSet(DOMAIN CoreObservationTest(c, saw).verdicts)
  BY <1>1 DEF TablesFinite, CoreContractTest, CoreObservationTest, NoSubtests
<1> HIDE DEF Parity, Differ
<1>5. CASE Phases[k] = Offline
  <2>1. Tests(c, saw, Phases[k]) = (parity \cup differ) \cup contract
    BY <1>5, PhaseTests DEF Parity, Differ
  <2>2. IsFiniteSet(contract)
    BY FS_Singleton
  <2>3. IsFiniteSet((parity \cup differ) \cup contract)
    BY <1>2, <2>2, FS_Union
  <2> QED BY <1>3, <1>4, <2>1, <2>3
<1>6. CASE Phases[k] = Differences
  <2>1. Tests(c, saw, Phases[k]) = differ
    BY <1>6, PhaseTests DEF Differ
  <2> QED BY <1>2, <1>3, <2>1
<1>7. ASSUME NEW suite \in Suites, Phases[k] = PhaseFor(suite)
      PROVE  /\ IsFiniteSet(Tests(c, saw, Phases[k]))
             /\ \A test \in Tests(c, saw, Phases[k]) : IsFiniteSet(DOMAIN test.verdicts)
  <2>1. PICK test : Tests(c, saw, Phases[k]) = {test} /\ IsFiniteSet(DOMAIN test.verdicts)
    BY <1>3, <1>4, <1>7, PhaseTests DEF Suites
  <2>2. IsFiniteSet({test}) /\ \A t \in {test} : IsFiniteSet(DOMAIN t.verdicts)
    BY <2>1, FS_Singleton, Zenon
  <2> QED BY <2>1, <2>2, Zenon
<1> QED BY <1>5, <1>6, <1>7, PhaseNames

(* The names of the subtests stay after a verdict is changed. *)
LEMMA VerdictDomain ==
  ASSUME NEW test, Record(test), NEW id, NEW verdict
  PROVE  /\ DOMAIN WithVerdict(test, id, verdict).verdicts = DOMAIN test.verdicts
         /\ DOMAIN FailedAfterwards(test, id).verdicts = DOMAIN test.verdicts
<1>1. ASSUME NEW new PROVE DOMAIN WithVerdict(test, id, new).verdicts = DOMAIN test.verdicts
  BY DEF Record, WithVerdict
<1> QED BY <1>1 DEF FailedAfterwards

(* A fault leaves the tests finite. *)
LEMMA RanFinite ==
  ASSUME NEW tests, NEW fault, IsFiniteSet(tests),
         \A test \in tests : Record(test) /\ IsFiniteSet(DOMAIN test.verdicts)
  PROVE  /\ IsFiniteSet(Ran(tests, fault))
         /\ \A test \in Ran(tests, fault) : IsFiniteSet(DOMAIN test.verdicts)
<1> DEFINE without == [test \in tests |-> [test EXCEPT !.broken = TRUE, !.verdicts = NoSubtests]]
           broken  == [test \in tests |-> [test EXCEPT !.broken = TRUE]]
           losing  == [test \in tests |-> WithVerdict(test, fault.id, "fail")]
           failing == [test \in tests |-> FailedAfterwards(test, fault.id)]
<1>1. \/ Ran(tests, fault) = {} \/ Ran(tests, fault) = tests
      \/ \E after \in {without, broken, losing, failing} :
           Ran(tests, fault) = {after[test] : test \in tests}
  BY DEF Ran
<1>2. \A test \in tests : DOMAIN without[test].verdicts = {}
  <2> SUFFICES ASSUME NEW test \in tests PROVE DOMAIN without[test].verdicts = {}
    OBVIOUS
  <2> DEFINE after == [test EXCEPT !.broken = TRUE, !.verdicts = NoSubtests]
  <2>1. Record(test)
    OBVIOUS
  <2>2. after.verdicts = NoSubtests
    BY <2>1 DEF Record
  <2>3. DOMAIN NoSubtests = {}
    BY DEF NoSubtests
  <2> QED BY <2>2, <2>3
<1>3. \A test \in tests : DOMAIN broken[test].verdicts = DOMAIN test.verdicts
  <2> SUFFICES ASSUME NEW test \in tests
               PROVE  DOMAIN broken[test].verdicts = DOMAIN test.verdicts
    OBVIOUS
  <2> DEFINE after == [test EXCEPT !.broken = TRUE]
  <2>1. Record(test)
    OBVIOUS
  <2>2. after.verdicts = test.verdicts
    BY <2>1 DEF Record
  <2> QED BY <2>2
<1>4. \A test \in tests : /\ DOMAIN losing[test].verdicts = DOMAIN test.verdicts
                         /\ DOMAIN failing[test].verdicts = DOMAIN test.verdicts
  BY VerdictDomain
<1>5. IsFiniteSet({})
  BY FS_EmptySet
<1> HIDE DEF without, broken, losing, failing
<1>6. ASSUME NEW after \in {without, broken, losing, failing},
             Ran(tests, fault) = {after[test] : test \in tests}
      PROVE  /\ IsFiniteSet(Ran(tests, fault))
             /\ \A test \in Ran(tests, fault) : IsFiniteSet(DOMAIN test.verdicts)
  <2>1. IsFiniteSet({after[test] : test \in tests})
    BY ImageFinite
  <2>2. \A test \in tests : IsFiniteSet(DOMAIN after[test].verdicts)
    BY <1>2, <1>3, <1>4, <1>5
  <2> QED BY <1>6, <2>1, <2>2
<1> QED BY <1>1, <1>5, <1>6

(* The names of failed cases are names of subtests and of test functions. *)
LEMMA FailedNamesFinite ==
  ASSUME NEW tests, IsFiniteSet(tests), \A test \in tests : IsFiniteSet(DOMAIN test.verdicts)
  PROVE  IsFiniteSet(FailedCases(Events(tests))) /\ IsFiniteSet(FailedCases({}))
<1> DEFINE domain == [test \in tests |-> DOMAIN test.verdicts]
           root   == [test \in tests |-> test.root]
           names  == (UNION {domain[test] : test \in tests}) \cup {root[test] : test \in tests}
<1>1. IsFiniteSet(UNION {domain[test] : test \in tests})
  <2>1. IsFiniteSet({domain[test] : test \in tests})
    BY ImageFinite
  <2>2. \A T \in {domain[test] : test \in tests} : IsFiniteSet(T)
    OBVIOUS
  <2> HIDE DEF domain
  <2> QED BY <2>1, <2>2, FS_UNION
<1>2. IsFiniteSet({root[test] : test \in tests})
  BY ImageFinite
<1>3. IsFiniteSet(names)
  <2> HIDE DEF domain, root
  <2> QED BY <1>1, <1>2, FS_Union
<1>4. ASSUME NEW e \in Events(tests)
      PROVE  \E test \in tests : e.root = test.root /\ e.id \in (DOMAIN test.verdicts) \cup {NoCase}
  <2>1. \A action, r, id : Event(action, r, id).root = r /\ Event(action, r, id).id = id
    BY DEF Event
  <2>2. \E test \in tests : \E action : \E id \in (DOMAIN test.verdicts) \cup {NoCase} :
          e = Event(action, test.root, id)
    BY DEF Events, FailedSubtests
  <2> QED BY <2>1, <2>2
<1>5. \A e \in Events(tests) : e.root \in names /\ (e.id # NoCase => e.id \in names)
  <2> SUFFICES ASSUME NEW e \in Events(tests)
               PROVE  e.root \in names /\ (e.id # NoCase => e.id \in names)
    OBVIOUS
  <2>1. PICK test \in tests : e.root = test.root /\ e.id \in (DOMAIN test.verdicts) \cup {NoCase}
    BY <1>4
  <2>2. e.root \in {root[t] : t \in tests}
    BY <2>1
  <2>3. e.id # NoCase => e.id \in UNION {domain[t] : t \in tests}
    BY <2>1
  <2> QED BY <2>2, <2>3
<1> HIDE DEF names
<1>6. FailedCases(Events(tests)) \subseteq names /\ FailedCases({}) = {}
  BY <1>5 DEF FailedCases
<1> QED BY <1>3, <1>6, FS_Subset, FS_EmptySet

(* The classes of a failure are counted with numbers, none of them positive *)
(* when the command succeeded and some when it did not.                     *)
LEMMA SomeCategory ==
  ASSUME NEW counts \in [Categories -> Nat], counts # NoFailures
  PROVE  \E category \in Categories : counts[category] > 0
BY DEF NoFailures

LEMMA OneCategory ==
  ASSUME NEW category \in Categories
  PROVE  /\ NoFailures \in [Categories -> Nat] /\ \A x \in Categories : NoFailures[x] = 0
         /\ One(category) \in [Categories -> Nat] /\ One(category)[category] = 1
         /\ \A x \in Categories \ {category} : One(category)[x] = 0
BY DEF One, NoFailures

LEMMA CountedNumbers ==
  ASSUME NEW output, NEW names, NEW m, NEW contractPhase \in BOOLEAN,
         IsFiniteSet(names), IsFiniteSet(DOMAIN m)
  PROVE  CountedFailures(output, names, m, contractPhase) \in [Categories -> Nat]
<1>1. ASSUME NEW type PROVE Cardinality(TypedAs(names, m, type)) \in Nat
  <2>1. TypedAs(names, m, type) \subseteq names
    BY DEF TypedAs
  <2> QED BY <2>1, FS_Subset, FS_CardinalityType
<1>2. ASSUME NEW T PROVE Cardinality(names \ T) \in Nat
  <2>1. names \ T \subseteq names
    OBVIOUS
  <2> QED BY <2>1, FS_Subset, FS_CardinalityType
<1>3. \A n \in Nat : AtLeastOne(n) \in Nat
  BY DEF AtLeastOne
<1> DEFINE counts == CountedFailures(output, names, m, contractPhase)
<1> DEFINE semantic == IF output.mismatch THEN TypedAs(names, m, Observation) ELSE {}
           typed    == TypedAs(names, m, Differential)
                         \cup TypedAs(names, m, IncompleteContract) \cup semantic
<1>4. counts = [category \in Categories |->
        CASE category = "setup-failure" -> IF output.setup THEN 1 ELSE 0
          [] category = "semantic-mismatch" ->
               IF output.mismatch
               THEN AtLeastOne(Cardinality(TypedAs(names, m, Observation))) ELSE 0
          [] ~contractPhase -> 0
          [] category = "differential-contract-failure" ->
               Cardinality(TypedAs(names, m, Differential))
          [] category = "incomplete-contract-failure" ->
               Cardinality(TypedAs(names, m, IncompleteContract))
          [] OTHER -> Cardinality(names \ typed)]
  BY DEF CountedFailures
<1> HIDE DEF typed
<1> HIDE DEF counts
<1> QED BY <1>1, <1>2, <1>3, <1>4 DEF counts

LEMMA Classified ==
  ASSUME NEW output, NEW names, NEW m, NEW contractPhase \in BOOLEAN,
         IsFiniteSet(names), IsFiniteSet(DOMAIN m)
  PROVE  LET counts == ClassifyFailures(output, names, m, contractPhase)
         IN /\ counts \in [Categories -> Nat]
            /\ output.succeeds => counts = NoFailures
            /\ ~output.succeeds => \E category \in Categories : counts[category] > 0
            /\ counts["semantic-mismatch"] > 0 => output.mismatch
<1> DEFINE counts  == ClassifyFailures(output, names, m, contractPhase)
           counted == CountedFailures(output, names, m, contractPhase)
<1>1. counted \in [Categories -> Nat]
  BY CountedNumbers
<1>2. counted["semantic-mismatch"] > 0 => output.mismatch
  <2>1. "semantic-mismatch" \in Categories
    BY DEF Categories
  <2>2. ~output.mismatch => counted["semantic-mismatch"] = 0
    BY <2>1 DEF CountedFailures
  <2> QED BY <2>2
<1>3. /\ "setup-failure" \in Categories /\ "other-contract-failure" \in Categories
      /\ "semantic-mismatch" \in Categories \ {"setup-failure", "other-contract-failure"}
  BY DEF Categories
<1> HIDE DEF counted
<1>4. /\ \A x \in {"setup-failure", "other-contract-failure"} :
           /\ One(x) \in [Categories -> Nat] /\ One(x)[x] > 0
           /\ One(x)["semantic-mismatch"] = 0
      /\ NoFailures \in [Categories -> Nat] /\ NoFailures["semantic-mismatch"] = 0
  BY <1>3, OneCategory
<1>5. \/ output.succeeds /\ counts = NoFailures
      \/ ~output.succeeds /\ counts = One("setup-failure")
      \/ ~output.succeeds /\ counts = One("other-contract-failure")
      \/ ~output.succeeds /\ counts = counted /\ counted # NoFailures
  BY DEF ClassifyFailures, counted
<1> HIDE DEF counts
<1>6. CASE output.succeeds /\ counts = NoFailures
  BY <1>4, <1>6 DEF counts
<1>7. ASSUME NEW x \in {"setup-failure", "other-contract-failure"}, ~output.succeeds,
             counts = One(x)
      PROVE  /\ counts \in [Categories -> Nat]
             /\ \E category \in Categories : counts[category] > 0
             /\ ~(counts["semantic-mismatch"] > 0)
  BY <1>3, <1>4, <1>7
<1>8. CASE ~output.succeeds /\ counts = counted /\ counted # NoFailures
  BY <1>1, <1>2, <1>8, SomeCategory DEF counts
<1> QED BY <1>5, <1>6, <1>7, <1>8 DEF counts

(* A count of nothing, and one with a failure added to it. *)
LEMMA AddedCategory ==
  ASSUME NEW category \in Categories
  PROVE  /\ Together(NoFailures, One(category)) \in [Categories -> Nat]
         /\ Together(NoFailures, One(category))[category] > 0
         /\ \A x \in Categories \ {category} : Together(NoFailures, One(category))[x] = 0
BY OneCategory DEF Together

(* The result of a phase: it failed exactly when something is counted, and  *)
(* a semantic mismatch is counted only when a test reported one.            *)
LEMMA PhaseCounts ==
  ASSUME NEW c, TablesFinite(c), NEW k \in 1..5, NEW fault
  PROVE  LET result == ExecutePhase(c, Phases[k], fault)
         IN /\ result.status \in {"passed", "failed"}
            /\ result.executed \subseteq DOMAIN c.matrix
            /\ result.failures \in [Categories -> Nat]
            /\ result.status = "failed" <=> Counted(result) # {}
            /\ result.failures["semantic-mismatch"] > 0 =>
                 Output(Tests(c, Seen(c, fault), Phases[k]), fault).mismatch
<1> DEFINE phase    == Phases[k]
           tests    == Tests(c, Seen(c, fault), phase)
           output   == Output(tests, fault)
           events   == IF output.decodes THEN output.events ELSE {}
           executed == ExecutedCaseIDs(events, c.matrix)
           contract == phase.suite = ""
           counts   == ClassifyFailures(output, FailedCases(events), c.matrix, contract)
           uncovered == ~output.decodes
                          \/ Cardinality(executed) # Cardinality(ExpectedIds(c.matrix, phase))
           broken   == output.succeeds /\ uncovered
           result   == ExecutePhase(c, phase, fault)
           other    == "other-contract-failure"
<1>1. /\ result.executed = executed
      /\ result.status = IF ~output.succeeds \/ broken THEN "failed" ELSE "passed"
      /\ result.failures = IF broken THEN Together(counts, One(other)) ELSE counts
  BY DEF ExecutePhase, Result
<1>2. executed \subseteq DOMAIN c.matrix
  BY DEF ExecutedCaseIDs
<1>3. IsFiniteSet(FailedCases(events))
  <2>1. IsFiniteSet(tests) /\ \A test \in tests : IsFiniteSet(DOMAIN test.verdicts)
    BY TestsFinite
  <2>2. \A test \in tests : Record(test)
    BY Records
  <2>3. /\ IsFiniteSet(Ran(tests, fault))
        /\ \A test \in Ran(tests, fault) : IsFiniteSet(DOMAIN test.verdicts)
    BY <2>1, <2>2, RanFinite
  <2>4. output.events = Events(Ran(tests, fault))
    BY DEF Output
  <2> QED BY <2>3, <2>4, FailedNamesFinite
<1>4. IsFiniteSet(DOMAIN c.matrix) /\ contract \in BOOLEAN
  BY DEF TablesFinite
<1>5. /\ counts \in [Categories -> Nat]
      /\ output.succeeds => counts = NoFailures
      /\ ~output.succeeds => \E category \in Categories : counts[category] > 0
      /\ counts["semantic-mismatch"] > 0 => output.mismatch
  <2> HIDE DEF output, events, contract
  <2> QED BY <1>3, <1>4, Classified
<1>6. /\ "semantic-mismatch" \in Categories /\ other \in Categories
      /\ "semantic-mismatch" # other
  BY DEF Categories
<1> HIDE DEF output, counts, executed, uncovered, result
<1>7. CASE ~output.succeeds
  BY <1>1, <1>2, <1>5, <1>7 DEF Counted, output, result
<1>8. CASE output.succeeds /\ uncovered
  <2>1. result.failures = Together(NoFailures, One(other)) /\ result.status = "failed"
    BY <1>1, <1>5, <1>8
  <2>2. /\ result.failures \in [Categories -> Nat] /\ result.failures[other] > 0
        /\ result.failures["semantic-mismatch"] = 0
    BY <1>6, <2>1, AddedCategory
  <2> QED BY <1>1, <1>2, <1>6, <2>1, <2>2 DEF Counted, result
<1>9. CASE output.succeeds /\ ~uncovered
  <2>1. result.failures = NoFailures /\ result.status = "passed"
    BY <1>1, <1>5, <1>9
  <2>2. result.failures \in [Categories -> Nat] /\ \A x \in Categories : result.failures[x] = 0
    BY <1>6, <2>1, OneCategory
  <2> QED BY <1>1, <1>2, <1>6, <2>1, <2>2 DEF Counted, result
<1> QED BY <1>7, <1>8, <1>9

(* A mismatch is the verdict of a test, also after a fault. *)
LEMMA MismatchReported ==
  ASSUME NEW tests, NEW fault, \A test \in tests : Record(test), Output(tests, fault).mismatch
  PROVE  \E test \in tests : \E id \in DOMAIN test.verdicts : test.verdicts[id] = "mismatch"
<1>1. PICK ran \in Ran(tests, fault) :
        \E id \in DOMAIN ran.verdicts : ran.verdicts[id] = "mismatch"
  BY DEF Output
<1>2. PICK id \in DOMAIN ran.verdicts : ran.verdicts[id] = "mismatch"
  BY <1>1
<1>3. ASSUME NEW test \in tests,
             ran = [test EXCEPT !.broken = TRUE, !.verdicts = NoSubtests]
      PROVE  FALSE
  <2>1. Record(test)
    OBVIOUS
  <2>2. ran.verdicts = NoSubtests
    BY <1>3, <2>1 DEF Record
  <2> QED BY <1>2, <2>2 DEF NoSubtests
<1>4. ASSUME NEW test \in tests, ran = [test EXCEPT !.broken = TRUE]
      PROVE  id \in DOMAIN test.verdicts /\ test.verdicts[id] = "mismatch"
  <2>1. Record(test)
    OBVIOUS
  <2>2. ran.verdicts = test.verdicts
    BY <1>4, <2>1 DEF Record
  <2> QED BY <1>2, <2>2
<1>5. ASSUME NEW test \in tests, NEW failing, ran = WithVerdict(test, failing, "fail")
      PROVE  id \in DOMAIN test.verdicts /\ test.verdicts[id] = "mismatch"
  <2>1. Record(test)
    OBVIOUS
  <2>2. ran.verdicts = [i \in DOMAIN test.verdicts |->
                          IF i = failing THEN "fail" ELSE test.verdicts[i]]
    BY <1>5, <2>1 DEF Record, WithVerdict
  <2> QED BY <1>2, <2>2
<1>6. \/ ran \in tests
      \/ \E test \in tests :
           \/ ran = [test EXCEPT !.broken = TRUE, !.verdicts = NoSubtests]
           \/ ran = [test EXCEPT !.broken = TRUE]
           \/ ran = WithVerdict(test, fault.id, "fail")
  BY DEF Ran, FailedAfterwards
<1> QED BY <1>2, <1>3, <1>4, <1>5, <1>6

(* What a phase that compares with Kubernetes runs. *)
LEMMA ObservingTests ==
  ASSUME NEW c, NEW saw, NEW k \in 1..5, Phases[k].suite # ""
  PROVE  \/ Phases[k].suite = Core /\ Tests(c, saw, Phases[k]) = {CoreObservationTest(c, saw)}
         \/ \E suite \in AdvancedSuites :
              /\ suite # Core /\ Phases[k].suite = suite
              /\ Tests(c, saw, Phases[k]) = {ObservationTest(c, saw, suite)}
<1>1. PICK suite \in Suites : Phases[k] = PhaseFor(suite)
  BY PhaseNames, PhaseFields
<1>2. Phases[k].suite = suite
  BY <1>1, PhaseFields
<1>3. CASE suite = Core
  BY <1>1, <1>2, <1>3, PhaseTests
<1>4. CASE suite \in AdvancedSuites
  <2>1. suite # Core
    BY <1>4 DEF AdvancedSuites, Core
  <2>2. Tests(c, saw, PhaseFor(suite)) = {ObservationTest(c, saw, suite)}
    BY <1>4, PhaseTests
  <2> QED BY <1>1, <1>2, <1>4, <2>1, <2>2
<1> QED BY <1>3, <1>4 DEF Suites

(* The verdict on a case is that of a mismatch only, and that of a pass    *)
(* never, when what was seen differs.                                      *)
LEMMA VerdictDiffers ==
  ASSUME NEW c, NEW saw, NEW k \in 1..5, Phases[k].suite # "",
         NEW test \in Tests(c, saw, Phases[k]), NEW id \in DOMAIN test.verdicts
  PROVE  /\ test.verdicts[id] = "mismatch" => Differs(c, saw, Phases[k], id)
         /\ Differs(c, saw, Phases[k], id) => test.verdicts[id] # "pass"
<1>1. CASE Phases[k].suite = Core /\ test = CoreObservationTest(c, saw)
  BY <1>1 DEF CoreObservationTest, Differs
<1>2. ASSUME NEW suite \in AdvancedSuites, suite # Core, Phases[k].suite = suite,
             test = ObservationTest(c, saw, suite)
      PROVE  /\ test.verdicts[id] = "mismatch" => Differs(c, saw, Phases[k], id)
             /\ Differs(c, saw, Phases[k], id) => test.verdicts[id] # "pass"
  BY <1>2 DEF ObservationTest, Differs
<1>3. CASE Phases[k].suite = Core /\ Tests(c, saw, Phases[k]) = {CoreObservationTest(c, saw)}
  BY <1>1, <1>3
<1>4. CASE \E suite \in AdvancedSuites :
             /\ suite # Core /\ Phases[k].suite = suite
             /\ Tests(c, saw, Phases[k]) = {ObservationTest(c, saw, suite)}
  <2>1. PICK suite \in AdvancedSuites :
          /\ suite # Core /\ Phases[k].suite = suite
          /\ Tests(c, saw, Phases[k]) = {ObservationTest(c, saw, suite)}
    BY <1>4
  <2>2. test = ObservationTest(c, saw, suite)
    BY <2>1
  <2> QED BY <1>2, <2>1, <2>2
<1> QED BY <1>3, <1>4, ObservingTests

LEMMA MismatchDiffers ==
  ASSUME NEW c, NEW saw, NEW k \in 1..5, NEW test \in Tests(c, saw, Phases[k]),
         NEW id \in DOMAIN test.verdicts, test.verdicts[id] = "mismatch"
  PROVE  id \in DifferingCases(c, saw, Phases[k])
<1>1. \A suite : test # DifferentialTest(c, suite)
  BY DEF DifferentialTest, PassIf
<1>2. \A suite : test # ParityTest(c, suite)
  BY DEF ParityTest, PassIf, NoSubtests
<1>3. test # CoreContractTest(c)
  BY DEF CoreContractTest, NoSubtests
<1>4. PICK suite \in Suites : Phases[k] = PhaseFor(suite)
  BY <1>1, <1>2, <1>3, PhaseNames, PhaseTests
<1>5. Phases[k].suite # ""
  <2>1. \A s \in Suites : s # ""
    BY Zenon DEF Core, Suites, AdvancedSuites
  <2> QED BY <1>4, <2>1, PhaseFields
<1>6. Differs(c, saw, Phases[k], id)
  BY <1>5, VerdictDiffers
<1>7. id \in Subtests(Tests(c, saw, Phases[k]))
  BY DEF Subtests
<1> QED BY <1>5, <1>6, <1>7 DEF DifferingCases

(* A clean phase saw no difference. *)
LEMMA CleanAgrees ==
  ASSUME NEW c, NEW saw, NEW k \in 1..5, Clean(c, saw, Phases[k])
  PROVE  DifferingCases(c, saw, Phases[k]) = {}
<1> SUFFICES ASSUME NEW id \in DifferingCases(c, saw, Phases[k]) PROVE FALSE
  OBVIOUS
<1>1. /\ Phases[k].suite # "" /\ id \in Subtests(Tests(c, saw, Phases[k]))
      /\ Differs(c, saw, Phases[k], id)
  BY DEF DifferingCases
<1>2. PICK test \in Tests(c, saw, Phases[k]) : id \in DOMAIN test.verdicts
  BY <1>1 DEF Subtests
<1>3. test.verdicts[id] # "pass"
  BY <1>1, <1>2, VerdictDiffers
<1>4. ~TestFails(test)
  BY <1>2 DEF Clean, Passing
<1> QED BY <1>2, <1>3, <1>4 DEF TestFails, FailedSubtests

(* What is missing is counted under some category, by numbers.              *)
LEMMA CoverageCounts ==
  ASSUME NEW m, IsFiniteSet(DOMAIN m), NEW seen, NEW prerequisiteFailed \in BOOLEAN
  PROVE  LET result == MatrixExecutionResult(m, seen, prerequisiteFailed)
         IN /\ result.status \in {"passed", "failed", "not-run"}
            /\ result.executed = seen
            /\ result.failures \in [Categories -> Nat]
            /\ result.status = "failed" <=> Counted(result) # {}
            /\ prerequisiteFailed => result.status # "failed"
<1> DEFINE missing == Missing(m, seen)
           counts  == MissingFailures(m, missing)
           result  == MatrixExecutionResult(m, seen, prerequisiteFailed)
           OfCategory(category) ==
             {id \in missing : MissingCategory(m[id].oracleType) = category}
<1>1. /\ result.status = IF prerequisiteFailed THEN "not-run"
                          ELSE IF missing # {} THEN "failed" ELSE "passed"
      /\ result.executed = seen
      /\ result.failures = IF prerequisiteFailed THEN NoFailures ELSE counts
  BY DEF MatrixExecutionResult, Result
<1>2. \A category : IsFiniteSet(OfCategory(category))
  <2>1. \A category : OfCategory(category) \subseteq DOMAIN m
    BY DEF Missing
  <2> HIDE DEF OfCategory
  <2> QED BY <2>1, FS_Subset
<1>3. counts = [category \in Categories |-> Cardinality(OfCategory(category))]
  BY DEF MissingFailures
<1>4. \A category : /\ Cardinality(OfCategory(category)) \in Nat
                    /\ Cardinality(OfCategory(category)) = 0 <=> OfCategory(category) = {}
  <2> HIDE DEF OfCategory
  <2> QED BY <1>2, FS_CardinalityType, FS_EmptySet
<1>5. \A id \in missing : /\ MissingCategory(m[id].oracleType) \in Categories
                          /\ id \in OfCategory(MissingCategory(m[id].oracleType))
  BY DEF MissingCategory, Categories
<1>6. missing # {} => \E category \in Categories : OfCategory(category) # {}
  BY <1>5
<1>7. missing = {} => \A category : OfCategory(category) = {}
  OBVIOUS
<1>8. NoFailures \in [Categories -> Nat] /\ \A x \in Categories : NoFailures[x] = 0
  BY DEF NoFailures
<1> HIDE DEF missing, counts, result, OfCategory
<1>9. counts \in [Categories -> Nat] /\ (missing # {} <=> \E x \in Categories : counts[x] > 0)
  BY <1>3, <1>4, <1>6, <1>7
<1>10. CASE prerequisiteFailed
  BY <1>1, <1>8, <1>10 DEF Counted, result
<1>11. CASE ~prerequisiteFailed
  BY <1>1, <1>9, <1>11 DEF Counted, result
<1> QED BY <1>10, <1>11

-------------------------------------------------------------------------------
(***************************************************************************)
(* The second inductive invariant: every result is that of its phase after *)
(* some fault, by which it saw what it saw; the gate has failed exactly    *)
(* when one of them says so; and there is an exit code, and a report that  *)
(* agrees with it, only after all of them.                                 *)
(***************************************************************************)
AfterSomeFault(c, k, result, saw) ==
  \E needs \in BOOLEAN :
    \E fault \in Faults(Tests(c, c.authority, Phases[k]), needs) \cup {NoFault} :
      result = ExecutePhase(c, Phases[k], fault) /\ saw = Seen(c, fault)

Failing == \E k \in DOMAIN results : results[k].status = "failed"

ResultsInv ==
  \A k \in 1..5 : k <= Len(results) => AfterSomeFault(candidate, k, results[k], observed[k])

FailedInv == failed <=> Failing

EndInv ==
  /\ faults \in 0..MaxFaults
  /\ exit \in {-1, 0, 1}
  /\ published \in {"none", "passed", "failed"}
  /\ published # "none" => Len(results) = 6 /\ exit # -1
  /\ published = "passed" => exit = 0
  /\ published = "failed" => exit = 1 /\ failed
  /\ exit = 0 => ~failed

FailureInv == IInv /\ ResultsInv /\ FailedInv /\ EndInv

LEMMA InitFailureInv == Init => FailureInv
<1> SUFFICES ASSUME Init PROVE FailureInv
  OBVIOUS
<1>1. results = <<>> /\ failed = FALSE /\ exit = -1 /\ published = "none" /\ faults = 0
  BY DEF Init
<1>2. Len(results) = 0 /\ DOMAIN results = {}
  BY <1>1
<1>3. ResultsInv /\ FailedInv
  BY <1>1, <1>2 DEF ResultsInv, FailedInv, Failing
<1>4. EndInv
  BY <1>1, GateAssumption DEF EndInv
<1> QED BY <1>3, <1>4, InitInv DEF FailureInv

(* A result is added, and the gate fails with it. *)
LEMMA AddedFails ==
  ASSUME RunInv, FailedInv, NEW result, Report(result), candidate' = candidate
  PROVE  FailedInv'
<1>1. /\ Len(results) \in Nat /\ DOMAIN results = 1..Len(results)
      /\ Len(results') = Len(results) + 1
      /\ Sequence(results')
      /\ results'[Len(results) + 1] = result
      /\ \A k \in 1..Len(results) : results'[k] = results[k]
  BY Added
<1>2. DOMAIN results' = 1..(Len(results) + 1)
  <2>1. DOMAIN results' = 1..Len(results')
    BY <1>1, AppendResult
  <2> QED BY <1>1, <2>1
<1>3. Failing' <=> Failing \/ result.status = "failed"
  <2>1. ASSUME Failing PROVE Failing'
    BY <1>1, <1>2, <2>1 DEF Failing
  <2>2. ASSUME result.status = "failed" PROVE Failing'
    BY <1>1, <1>2, <2>2 DEF Failing
  <2>3. ASSUME Failing' PROVE Failing \/ result.status = "failed"
    <3>1. PICK k \in 1..(Len(results) + 1) : results'[k].status = "failed"
      BY <1>2, <2>3 DEF Failing
    <3>2. CASE k = Len(results) + 1
      BY <1>1, <3>1, <3>2
    <3>3. CASE k # Len(results) + 1
      BY <1>1, <3>1, <3>3 DEF Failing
    <3> QED BY <3>2, <3>3
  <2> QED BY <2>1, <2>2, <2>3
<1>4. failed' <=> failed \/ result.status = "failed"
  BY Zenon DEF Report
<1> QED BY <1>3, <1>4, Zenon DEF FailedInv

LEMMA FailurePhaseStep ==
  ASSUME FailureInv, RunPhase
  PROVE  FailureInv'
<1> DEFINE n     == Len(results) + 1
           phase == Phases[n]
           tests == Tests(candidate, candidate.authority, phase)
<1>1. \E needs \in BOOLEAN : \E fault \in Faults(tests, needs) \cup {NoFault} :
        Execute(phase, fault)
  BY Zenon DEF RunPhase
<1>2. PICK needs \in BOOLEAN : \E fault \in Faults(tests, needs) \cup {NoFault} :
        Execute(phase, fault)
  BY <1>1
<1>3. PICK fault \in Faults(tests, needs) \cup {NoFault} : Execute(phase, fault)
  BY <1>2
<1> DEFINE result == ExecutePhase(candidate, phase, fault)
           saw    == Seen(candidate, fault)
<1>4. /\ candidate' = candidate /\ exit' = exit /\ exit = -1 /\ published' = published
      /\ RunInv /\ ResultsInv /\ FailedInv /\ EndInv
  BY DEF RunPhase, Running, IInv, FailureInv
<1>5. Report(result) /\ observed' = Append(observed, saw)
  BY <1>3 DEF Execute
<1>6. AfterSomeFault(candidate, n, result, saw)
  BY <1>3, Zenon DEF AfterSomeFault
<1> HIDE DEF result, saw
<1>7. /\ Len(results) \in Nat /\ Len(results') = n
      /\ results'[n] = result /\ \A k \in 1..Len(results) : results'[k] = results[k]
      /\ observed'[n] = saw /\ \A k \in 1..Len(results) : observed'[k] = observed[k]
  <2>1. Len(results) < 5
    BY PhaseNames DEF RunPhase
  <2> QED BY <1>4, <1>5, <2>1, Added, AddedObserved
<1>8. IInv'
  BY PhaseStep DEF FailureInv
<1>9. ResultsInv'
  <2> SUFFICES ASSUME NEW k \in 1..5, k <= Len(results')
               PROVE  AfterSomeFault(candidate, k, results'[k], observed'[k])
    BY <1>4 DEF ResultsInv
  <2>1. CASE k = n
    BY <1>6, <1>7, <2>1
  <2>2. CASE k # n
    <3>1. k \in 1..Len(results) /\ k <= Len(results)
      BY <1>7, <2>2
    <3> QED BY <1>4, <1>7, <3>1 DEF ResultsInv
  <2> QED BY <2>1, <2>2
<1>10. FailedInv'
  BY <1>4, <1>5, AddedFails
<1>11. EndInv'
  <2>1. faults' \in 0..MaxFaults
    <3>1. faults' = faults \/ (faults < MaxFaults /\ faults' = faults + 1)
      BY Zenon DEF RunPhase
    <3> QED BY <1>4, <3>1, GateAssumption DEF EndInv
  <2>2. published = "none"
    BY <1>4 DEF EndInv
  <2> QED BY <1>4, <2>1, <2>2 DEF EndInv
<1> QED BY <1>8, <1>9, <1>10, <1>11 DEF FailureInv

LEMMA FailureCoverageStep ==
  ASSUME FailureInv, CoverMatrix
  PROVE  FailureInv'
<1> DEFINE seen   == UNION {results[k].executed : k \in DOMAIN results}
           result == MatrixExecutionResult(matrix, seen, failed)
<1>1. /\ candidate' = candidate /\ exit' = exit /\ exit = -1 /\ published' = published
      /\ faults' = faults /\ Len(results) = 5 /\ observed' = observed
      /\ RunInv /\ ResultsInv /\ FailedInv /\ EndInv
  BY PhaseNames DEF CoverMatrix, Running, FailureInv, IInv
<1>2. Report(result)
  BY DEF CoverMatrix
<1> HIDE DEF result
<1>3. \A k \in 1..5 : results'[k] = results[k]
  BY <1>1, <1>2, Added
<1>4. ResultsInv'
  BY <1>1, <1>3 DEF ResultsInv
<1>5. FailedInv'
  BY <1>1, <1>2, AddedFails
<1>6. published = "none"
  BY <1>1 DEF EndInv
<1>7. EndInv'
  BY <1>1, <1>6 DEF EndInv
<1>8. IInv'
  BY CoverageStep DEF FailureInv
<1> QED BY <1>4, <1>5, <1>7, <1>8 DEF FailureInv

LEMMA FailureEndStep ==
  ASSUME FailureInv, RejectMatrix \/ WriteReport \/ UNCHANGED vars
  PROVE  FailureInv'
<1>1. /\ candidate' = candidate /\ failed' = failed /\ results' = results
      /\ observed' = observed
  BY DEF RejectMatrix, WriteReport, vars
<1>2. ResultsInv' /\ FailedInv'
  BY <1>1 DEF FailureInv, ResultsInv, FailedInv, Failing
<1>3. EndInv
  BY DEF FailureInv
<1>4. CASE RejectMatrix
  <2>1. EndInv'
    BY <1>1, <1>3, <1>4 DEF RejectMatrix, EndInv
  <2> QED BY <1>2, <1>4, <2>1, EndStep DEF FailureInv
<1>5. CASE WriteReport
  <2>1. Len(results) = 6 /\ exit = -1
    BY <1>5, PhaseNames DEF WriteReport, Running
  <2>2. EndInv'
    <3>1. CASE /\ published' = IF failed THEN "failed" ELSE "passed"
               /\ exit' = IF failed THEN 1 ELSE 0
               /\ UNCHANGED faults
      BY <1>1, <1>3, <2>1, <3>1 DEF EndInv
    <3>2. CASE faults < MaxFaults /\ faults' = faults + 1 /\ exit' = 1 /\ UNCHANGED published
      BY <1>1, <1>3, <2>1, <3>2, GateAssumption DEF EndInv
    <3> QED BY <1>5, <3>1, <3>2 DEF WriteReport
  <2> QED BY <1>2, <1>5, <2>2, EndStep DEF FailureInv
<1>6. CASE UNCHANGED vars
  <2>1. EndInv'
    BY <1>3, <1>6 DEF vars, EndInv
  <2> QED BY <1>2, <1>6, <2>1, EndStep DEF FailureInv
<1> QED BY <1>4, <1>5, <1>6

(* Every result of every run is that of its phase after some fault, and     *)
(* the exit follows from all of them.                                       *)
THEOREM GateFailureInvariant == Spec => []FailureInv
<1>1. ASSUME FailureInv, [Next]_vars PROVE FailureInv'
  BY <1>1, FailurePhaseStep, FailureCoverageStep, FailureEndStep DEF Next
<1> QED BY InitFailureInv, <1>1, PTL DEF Spec

-------------------------------------------------------------------------------
(* What each result of a run says of its failures.                          *)
LEMMA ResultCounts ==
  ASSUME FailureInv, NEW k \in DOMAIN results
  PROVE  /\ results[k].status \in {"passed", "failed", "not-run"}
         /\ results[k].executed \subseteq DOMAIN matrix
         /\ \A category \in Categories : results[k].failures[category] \in Nat
         /\ results[k].status = "failed" <=> Counted(results[k]) # {}
<1>1. /\ candidate \in Candidates /\ Sequence(results) /\ Len(results) <= 6
      /\ ResultsInv /\ CoverageInv
  BY DEF FailureInv, IInv, RunInv
<1>2. Len(results) \in Nat /\ Len(results) <= 6 /\ k \in 1..6 /\ k <= Len(results)
  <2>1. Len(results) \in Nat /\ DOMAIN results = 1..Len(results)
    BY <1>1, AppendResult
  <2> QED BY <1>1, <2>1
<1>3. TablesFinite(candidate) /\ IsFiniteSet(DOMAIN matrix)
  BY <1>1, GateAssumption DEF TablesFinite, matrix
<1>4. ASSUME NEW j \in 1..5, j <= Len(results)
      PROVE  /\ results[j].status \in {"passed", "failed"}
             /\ results[j].executed \subseteq DOMAIN matrix
             /\ results[j].failures \in [Categories -> Nat]
             /\ results[j].status = "failed" <=> Counted(results[j]) # {}
  <2>1. PICK fault : results[j] = ExecutePhase(candidate, Phases[j], fault)
    BY <1>1, <1>4 DEF ResultsInv, AfterSomeFault
  <2> QED BY <1>3, <2>1, PhaseCounts DEF matrix
<1>5. CASE k = 6
  <2>1. Len(results) = 6
    BY <1>2, <1>5
  <2>2. PICK b \in BOOLEAN : results[6] = MatrixExecutionResult(matrix, RanIn(5), b)
    BY <1>1, <2>1, Zenon DEF CoverageInv
  <2>3. RanIn(5) \subseteq DOMAIN matrix
    BY <1>4, <2>1 DEF RanIn
  <2> QED BY <1>3, <1>5, <2>2, <2>3, CoverageCounts
<1>6. CASE k # 6
  <2>1. k \in 1..5
    BY <1>2, <1>6
  <2>2. \A category \in Categories : results[k].failures[category] \in Nat
    BY <1>2, <1>4, <2>1
  <2> QED BY <1>2, <1>4, <2>1, <2>2
<1> QED BY <1>5, <1>6

(* The variables of the gate have their types (run).                        *)
THEOREM GateTypes == Spec => []TypeOK
<1>1. ASSUME FailureInv PROVE TypeOK
  <2>1. /\ failed \in BOOLEAN /\ Len(results) <= 6
        /\ Len(observed) = IF Len(results) <= 5 THEN Len(results) ELSE 5
        /\ EndInv
    BY <1>1 DEF FailureInv, IInv, RunInv
  <2>2. \A k \in DOMAIN results :
          /\ results[k].status \in {"passed", "failed", "not-run"}
          /\ results[k].executed \subseteq DOMAIN matrix
          /\ \A category \in Categories : results[k].failures[category] \in Nat
    BY <1>1, ResultCounts
  <2> QED BY <2>1, <2>2, PhaseNames DEF TypeOK, EndInv
<1> QED BY <1>1, GateFailureInvariant, PTL

(***************************************************************************)
(* No failure of any phase is lost: it is counted under some category,     *)
(* leaves the gate failed whatever passes after it, and is the only reason *)
(* for a gate that has a matrix and writes its report to fail (run,        *)
(* executePhase, classifyFailures).                                        *)
(***************************************************************************)
THEOREM FailuresSurface == Spec => []FailureSurfaces
<1>1. ASSUME FailureInv PROVE FailureSurfaces
  <2>1. \A k \in DOMAIN results : results[k].status = "failed" <=> Counted(results[k]) # {}
    BY <1>1, ResultCounts
  <2>2. EndInv /\ (failed <=> Failing)
    BY <1>1 DEF FailureInv, FailedInv
  <2>3. ASSUME exit # -1
        PROVE  /\ Failing => exit = 1 /\ published \in {"failed", "none"}
               /\ exit = 1 => Failing \/ ~MatrixValid(matrix) \/ published = "none"
    BY <2>2, <2>3 DEF EndInv
  <2> QED BY <2>1, <2>3, Zenon DEF FailureSurfaces, Failing
<1> QED BY <1>1, GateFailureInvariant, PTL

(***************************************************************************)
(* A phase counts a semantic mismatch only when it saw Kubernetes differ   *)
(* from AdmiTrace, or from the fixture, in one of its cases, and it fails  *)
(* whenever it saw that, whatever else happens to its command (Observe,    *)
(* Compare, classifyFailures, executePhase).                               *)
(***************************************************************************)
THEOREM DifferencesSurface == Spec => []SeenDifferencesSurface
<1>1. ASSUME FailureInv, NEW k \in DOMAIN results \cap DOMAIN Phases
      PROVE  LET differing == DifferingCases(candidate, observed[k], Phases[k])
             IN /\ results[k].failures["semantic-mismatch"] > 0 => differing # {}
                /\ differing # {} => results[k].status = "failed"
  <2>1. /\ candidate \in Candidates /\ Sequence(results) /\ ResultsInv
    BY <1>1 DEF FailureInv, IInv, RunInv
  <2>2. k \in 1..5 /\ k <= Len(results)
    <3>1. DOMAIN results = 1..Len(results) /\ Len(results) \in Nat
      BY <2>1, AppendResult
    <3>2. DOMAIN Phases = 1..5
      BY DEF Phases
    <3> QED BY <3>1, <3>2
  <2>3. TablesFinite(candidate)
    BY <2>1, GateAssumption
  <2>4. PICK needs \in BOOLEAN :
          \E fault \in Faults(Tests(candidate, candidate.authority, Phases[k]), needs)
                        \cup {NoFault} :
            /\ results[k] = ExecutePhase(candidate, Phases[k], fault)
            /\ observed[k] = Seen(candidate, fault)
    BY <2>1, <2>2 DEF ResultsInv, AfterSomeFault
  <2>5. PICK fault \in Faults(Tests(candidate, candidate.authority, Phases[k]), needs)
                         \cup {NoFault} :
          /\ results[k] = ExecutePhase(candidate, Phases[k], fault)
          /\ observed[k] = Seen(candidate, fault)
    BY <2>4
  <2> DEFINE tests     == Tests(candidate, observed[k], Phases[k])
             differing == DifferingCases(candidate, observed[k], Phases[k])
  <2>6. ASSUME results[k].failures["semantic-mismatch"] > 0 PROVE differing # {}
    <3>1. Output(tests, fault).mismatch
      BY <2>2, <2>3, <2>5, <2>6, PhaseCounts
    <3>2. \A test \in tests : Record(test)
      BY Records
    <3>3. PICK test \in tests : \E id \in DOMAIN test.verdicts : test.verdicts[id] = "mismatch"
      BY <3>1, <3>2, MismatchReported
    <3>4. PICK id \in DOMAIN test.verdicts : test.verdicts[id] = "mismatch"
      BY <3>3
    <3> QED BY <2>2, <3>4, MismatchDiffers
  <2>7. ASSUME differing # {}, results[k].status # "failed" PROVE FALSE
    <3>1. Tests(candidate, candidate.authority, Phases[k]) # {}
      BY <2>2, PhaseHasTests
    <3>2. ExecutePhase(candidate, Phases[k], fault).status # "failed"
      BY <2>5, <2>7
    <3>3. Clean(candidate, Seen(candidate, fault), Phases[k])
      BY <3>1, <3>2, CleanPhase
    <3>4. Clean(candidate, observed[k], Phases[k])
      BY <2>5, <3>3
    <3> QED BY <2>2, <2>7, <3>4, CleanAgrees
  <2> QED BY <2>6, <2>7
<1>2. FailureInv => SeenDifferencesSurface
  BY <1>1, Zenon DEF SeenDifferencesSurface
<1> QED BY <1>2, GateFailureInvariant, PTL
(***************************************************************************)
(* The sentence of the documents that MismatchMeansDifference states holds *)
(* as long as no phase so far has misread Kubernetes: a lost, broken or    *)
(* untidy control plane alone is never counted as a mismatch (Observe,     *)
(* classifyFailures).                                                      *)
(***************************************************************************)
NothingMisread ==
  \A k \in DOMAIN results \cap DOMAIN Phases : observed[k] = candidate.authority

THEOREM MismatchesReal == Spec => [](NothingMisread => MismatchMeansDifference)
<1>1. SeenDifferencesSurface => (NothingMisread => MismatchMeansDifference)
  <2> SUFFICES ASSUME SeenDifferencesSurface, NothingMisread,
                      NEW k \in DOMAIN results \cap DOMAIN Phases,
                      results[k].failures["semantic-mismatch"] > 0
               PROVE  DifferingCases(candidate, candidate.authority, Phases[k]) # {}
    BY DEF MismatchMeansDifference
  <2>1. DifferingCases(candidate, observed[k], Phases[k]) # {}
    BY DEF SeenDifferencesSurface
  <2>2. observed[k] = candidate.authority
    BY DEF NothingMisread
  <2> QED BY <2>1, <2>2
<1> QED BY <1>1, DifferencesSurface, PTL
===============================================================================
