------------------------------ MODULE ParityTests ------------------------------
(***************************************************************************)
(* The go tests the parity gate runs (conformance/oracle,                  *)
(* conformance/parity/equivalentselector, .../celauthorizer), and what     *)
(* their output says of them.                                              *)
(*                                                                         *)
(* A candidate for release is [matrix, core, fixtures, differential,       *)
(* observation, product, authority].  The matrix gives each case its       *)
(* suite, oracle type, outcomes and tags; core is the outcome the core     *)
(* table wants of each of its cases; fixtures are the cases of each        *)
(* advanced suite; differential and observation are the names in the       *)
(* tables of the tests of those kinds, suite by suite.  These tables are   *)
(* written apart and have only their names in common.  product is what     *)
(* AdmiTrace says of a case and authority what Kubernetes does when nothing*)
(* is wrong with it, a case having one Webhook.                            *)
(***************************************************************************)
EXTENDS ParityCase

Core           == "core"
AdvancedSuites == {"cel-authorizer", "equivalent-selector"}
Suites         == AdvancedSuites \cup {Core}

NoCase == "no-case"

(***************************************************************************)
(* A test run is [root, broken, verdicts]: the test function, whether it   *)
(* fails by itself, and the verdict of each of its subtests.  A subtest    *)
(* that fails over the setup or over a semantic mismatch says so.          *)
(***************************************************************************)
NoSubtests == [id \in {} |-> "pass"]

(***************************************************************************)
(* An observation compares with saw[id], what it saw Kubernetes do, which  *)
(* is not always what Kubernetes does: see Seen.  The matcher of the       *)
(* differential tests is a library, and is not misread.                    *)
(***************************************************************************)

Fixtures(c, suite, id) ==       \* findCase
  {k \in DOMAIN c.fixtures[suite] : c.fixtures[suite][k].name = id}

Fixture(c, suite, id) == c.fixtures[suite][CHOOSE k \in Fixtures(c, suite, id) : TRUE]

PassIf(condition) == IF condition THEN "pass" ELSE "fail"

ParityTest(c, suite) ==         \* TestEquivalentSelectorParity, TestCELAuthorizerParity
  LET cases == c.fixtures[suite]
  IN IF ~ValidateCases(suite, cases)
     THEN [root |-> suite, broken |-> TRUE, verdicts |-> NoSubtests]
     ELSE [root |-> suite, broken |-> FALSE,
           verdicts |-> [id \in {cases[k].name : k \in DOMAIN cases} |->
             PassIf(CompareEvaluation(Fixture(c, suite, id).expected, c.product[id]))]]

CoreContractTest(c) ==          \* TestCoreParityMatrixContract
  [root |-> "TestCoreParityMatrixContract",
   broken |-> \E id \in DOMAIN c.core :
                \/ c.product[id].determination # "determinate"
                \/ c.product[id].outcome # c.core[id],
   verdicts |-> NoSubtests]

DifferentialTest(c, suite) ==   \* TestOfficialMatcherDifferential
  [root |-> "TestOfficialMatcherDifferential", broken |-> FALSE,
   verdicts |-> [id \in c.differential[suite] |->
     PassIf(/\ Fixtures(c, suite, id) # {}
            /\ Fixture(c, suite, id).oracleType = Differential
            /\ CompareEvaluation(Fixture(c, suite, id).expected, c.product[id])
            /\ c.product[id].outcome # NoOutcome
            /\ c.product[id].outcome = c.authority[id])]]

ObservationTest(c, saw, suite) ==    \* TestKubeAPIServerObservations
  [root |-> "TestKubeAPIServerObservations", broken |-> FALSE,
   verdicts |-> [id \in c.observation[suite] |->
     IF \/ Fixtures(c, suite, id) = {}
        \/ Fixture(c, suite, id).oracleType # Observation
        \/ Fixture(c, suite, id).expected.outcome = NoOutcome
     THEN "fail"
     ELSE IF Fixture(c, suite, id).expected.outcome = saw[id]
     THEN "pass" ELSE "mismatch"]]

CoreObservationTest(c, saw) ==  \* TestCoreRulesAndSelectorsParity
  [root |-> "TestCoreRulesAndSelectorsParity", broken |-> FALSE,
   verdicts |-> [id \in DOMAIN c.core |->
     IF c.product[id].determination # "determinate" \/ c.product[id].outcome = NoOutcome
     THEN "fail"
     ELSE IF c.product[id].outcome = saw[id] THEN "pass" ELSE "mismatch"]]

(***************************************************************************)
(* What can happen to the command beside its tests: the go tool is not     *)
(* there, a package does not build, a line of the output is no event, and  *)
(* trouble with the control plane.  It may not come up ("setup") or not go *)
(* down ("unstopped").  One subtest may find it gone before there is       *)
(* anything to compare ("lost"), may not remove its objects ("untidy") or  *)
(* close its recorder ("unclosed") afterwards, or may misread it: Observe  *)
(* takes an answer with an API status for the rejection by a Webhook       *)
(* ("refused": a server short of capacity or of its storage, a request     *)
(* that is not valid), and no call for a Webhook that was skipped          *)
(* ("ineffective": a configuration the server has not picked up yet).      *)
(***************************************************************************)
Fault(what, id) == [kind |-> what, id |-> id]

NoFault == Fault("none", NoCase)

Misread == [refused |-> "rejected-before-call", ineffective |-> "skipped"]

Seen(c, fault) ==               \* Observe: what the tests see Kubernetes do
  IF fault.kind \in DOMAIN Misread
  THEN [c.authority EXCEPT ![fault.id] = Misread[fault.kind]]
  ELSE c.authority

Subtests(tests) == UNION {DOMAIN test.verdicts : test \in tests}

ToolFaults == {Fault(what, NoCase) : what \in {"not-started", "build-failed", "garbled"}}

ControlPlaneFaults(ids) ==
  {Fault("setup", NoCase), Fault("unstopped", NoCase)}
    \cup {Fault(what, id) : what \in {"lost", "untidy", "unclosed"} \cup DOMAIN Misread, id \in ids}

Faults(tests, needsControlPlane) ==
  ToolFaults \cup IF needsControlPlane THEN ControlPlaneFaults(Subtests(tests)) ELSE {}

(***************************************************************************)
(* The tests, after the fault.  A subtest that is lost compares nothing,   *)
(* one that fails afterwards has compared; a misreading shows in the       *)
(* comparison only.                                                        *)
(***************************************************************************)
WithVerdict(test, id, verdict) ==
  [test EXCEPT !.verdicts =
     [i \in DOMAIN test.verdicts |-> IF i = id THEN verdict ELSE test.verdicts[i]]]

FailedAfterwards(test, id) ==
  IF id \in DOMAIN test.verdicts /\ test.verdicts[id] = "pass"
  THEN WithVerdict(test, id, "fail") ELSE test

Ran(tests, fault) ==
  CASE fault.kind \in {"not-started", "build-failed"} -> {}
    [] fault.kind = "setup" ->
         {[test EXCEPT !.broken = TRUE, !.verdicts = NoSubtests] : test \in tests}
    [] fault.kind = "unstopped" -> {[test EXCEPT !.broken = TRUE] : test \in tests}
    [] fault.kind = "lost" -> {WithVerdict(test, fault.id, "fail") : test \in tests}
    [] fault.kind \in {"untidy", "unclosed"} ->
         {FailedAfterwards(test, fault.id) : test \in tests}
    [] OTHER -> tests

(***************************************************************************)
(* The output of the command: its exit, the events of the tests, and the   *)
(* two texts the gate looks for.                                           *)
(***************************************************************************)
FailedSubtests(test) == {id \in DOMAIN test.verdicts : test.verdicts[id] # "pass"}

TestFails(test) == test.broken \/ FailedSubtests(test) # {}

Event(action, root, id) == [action |-> action, root |-> root, id |-> id]

Events(tests) ==
  (UNION {{Event("run", test.root, id) : id \in DOMAIN test.verdicts} : test \in tests})
    \cup (UNION {{Event("fail", test.root, id) : id \in FailedSubtests(test)} : test \in tests})
    \cup {Event("fail", test.root, NoCase) : test \in {t \in tests : TestFails(t)}}

Output(tests, fault) ==
  LET ran == Ran(tests, fault)
  IN [started  |-> fault.kind # "not-started",
      succeeds |-> /\ fault.kind \notin {"not-started", "build-failed"}
                   /\ \A test \in ran : ~TestFails(test),
      decodes  |-> fault.kind \notin {"not-started", "build-failed", "garbled"},
      events   |-> Events(ran),
      setup    |-> fault.kind \in {"setup", "lost", "unclosed"},
      mismatch |-> \E test \in ran :
                     \E id \in DOMAIN test.verdicts : test.verdicts[id] = "mismatch"]
===============================================================================
