------------------------------ MODULE MCParityGate ------------------------------
(***************************************************************************)
(* The gate on a matrix of six cases: two of the core suite, and of the    *)
(* advanced suites two observations, a differential and an incomplete      *)
(* contract.  Every candidate departs from the good one in at most two of  *)
(* the tables it is made of, or in what the product or Kubernetes does.    *)
(***************************************************************************)
EXTENDS ParityGateProperties

Cel        == "cel-authorizer"
Equivalent == "equivalent-selector"

(***************************************************************************)
(* What the product may say of a case.                                     *)
(***************************************************************************)
Step(result, reason) ==
  [stage |-> "matchConditions", result |-> result, reason |-> reason,
   terminal |-> TRUE, pending |-> FALSE, discarded |-> FALSE]

Evaluation(determination, outcome, result, reason, diagnostics) ==
  [determination |-> determination, outcome |-> outcome,
   trace |-> <<Step(result, reason)>>, diagnostics |-> diagnostics]

Diagnosed(code) == <<[code |-> code, severity |-> "error"]>>

Called   == Evaluation("determinate", "called", "true", "MATCH_CONDITIONS_TRUE", <<>>)
Skipped  == Evaluation("determinate", "skipped", "false", "MATCH_CONDITION_FALSE", <<>>)
Rejected == Evaluation("determinate", "rejected-before-call", "error", "CEL_RUNTIME_ERROR",
                       Diagnosed("CEL_RUNTIME_ERROR"))
Unknown  == Evaluation("indeterminate", NoOutcome, "indeterminate",
                       "AUTHORIZATION_CONTEXT_MISSING",
                       Diagnosed("AUTHORIZATION_CONTEXT_MISSING"))
Untraced == [Skipped EXCEPT !.trace = <<>>]     \* not a valid evaluation

(***************************************************************************)
(* The good candidate.                                                     *)
(***************************************************************************)
MatrixCase(suite, oracleType, outcomes, tags) ==
  [suite |-> suite, oracleType |-> oracleType, outcomes |-> outcomes, tags |-> tags]

Matrix ==
  [c1 |-> MatrixCase(Core, Observation, {"called"}, <<1>>),
   c2 |-> MatrixCase(Core, Observation, {"skipped"}, <<1, 2>>),
   o1 |-> MatrixCase(Cel, Observation, {"rejected-before-call"}, <<1>>),
   d1 |-> MatrixCase(Cel, Differential, {"skipped"}, <<1>>),
   i1 |-> MatrixCase(Cel, IncompleteContract, {}, <<1>>),
   o2 |-> MatrixCase(Equivalent, Observation, {"called"}, <<1>>)]

Product ==
  [c1 |-> Called, c2 |-> Skipped, o1 |-> Rejected, d1 |-> Skipped, i1 |-> Unknown,
   o2 |-> Called, x1 |-> Called]

Authority == [id \in DOMAIN Product |->
                IF id = "i1" THEN "called" ELSE Product[id].outcome]

Expecting(evaluation) ==
  [determination |-> evaluation.determination, outcome |-> evaluation.outcome,
   reason |-> TerminalReasonCode(evaluation.trace), trace |-> evaluation.trace,
   diagnostics |-> DiagnosticCodes(evaluation.diagnostics)]

Case(suite, id, type, evaluation) ==
  [group |-> suite, name |-> id, oracleType |-> type, tags |-> <<1>>,
   expected |-> Expecting(evaluation)]

CelCases == <<Case(Cel, "o1", Observation, Rejected), Case(Cel, "d1", Differential, Skipped),
              Case(Cel, "i1", IncompleteContract, Unknown)>>

EquivalentCases == <<Case(Equivalent, "o2", Observation, Called)>>

BySuite(cel, equivalent) ==
  [suite \in AdvancedSuites |-> IF suite = Cel THEN cel ELSE equivalent]

Good ==
  [matrix |-> Matrix, core |-> [c1 |-> "called", c2 |-> "skipped"],
   fixtures |-> BySuite(CelCases, EquivalentCases),
   differential |-> BySuite({"d1"}, {}), observation |-> BySuite({"o1"}, {"o2"}),
   product |-> Product, authority |-> Authority]

(***************************************************************************)
(* What may be otherwise in one place.                                     *)
(***************************************************************************)
Matrices ==
  {[Matrix EXCEPT !.c2.tags = <<1>>],                          \* tag 2 not covered
   [Matrix EXCEPT !.c2.oracleType = Differential],
   [Matrix EXCEPT !.i1.outcomes = {"called"}],
   [Matrix EXCEPT !.d1.tags = <<2, 1>>],
   [id \in DOMAIN Matrix \ {"c1"} |-> Matrix[id]],             \* too few
   [Matrix EXCEPT !.o2 = MatrixCase(Equivalent, IncompleteContract, {}, <<1>>)],
   [Matrix EXCEPT !.o1.oracleType = IncompleteContract, !.o1.outcomes = {},
                  !.i1.oracleType = Observation,
                  !.i1.outcomes = {"rejected-before-call"}]}

Cores == {[c1 |-> "called"], [c1 |-> "called", c2 |-> "called"], [c1 |-> "called", i1 |-> "called"]}

CelWith(k, case) == BySuite([CelCases EXCEPT ![k] = case], EquivalentCases)

FixtureTables ==
  {CelWith(1, Case(Cel, "o1", Observation, Called)),
   CelWith(1, Case(Cel, "o1", IncompleteContract, Unknown)),
   CelWith(2, Case(Cel, "d1", Differential, Called)),
   CelWith(2, Case(Cel, "d1", Observation, Skipped)),
   CelWith(3, Case(Cel, "i1", IncompleteContract, Called)),
   CelWith(3, Case(Cel, "i1", Observation, Called)),
   CelWith(3, Case(Cel, "d1", Differential, Skipped)),         \* twice
   CelWith(3, [Case(Cel, "i1", IncompleteContract, Unknown) EXCEPT !.tags = <<1, 1>>]),
   CelWith(3, Case(Cel, "c1", Observation, Called)),           \* a name of the core suite
   BySuite(Append(CelCases, Case(Cel, "x1", Observation, Called)), EquivalentCases),
   BySuite(CelCases, <<Case(Equivalent, "o1", Observation, Rejected)>>),
   BySuite(CelCases, <<>>)}

Differentials == {BySuite({}, {}), BySuite({"d1"}, {"d1"}), BySuite({}, {"o2"})}

Observations == {BySuite({}, {"o2"}), BySuite({"o1", "i1"}, {"o2"}), BySuite({"i1"}, {"o2"}),
                 BySuite({"o1"}, {"o1"})}

Products == {[Product EXCEPT ![id] = other] :
               id \in {"c1", "o1", "d1", "i1"}, other \in {Called, Unknown, Untraced}} \ {Product}

Authorities == {[Authority EXCEPT ![id] = "skipped"] : id \in DOMAIN Authority} \ {Authority}

Alternatives ==
  [matrix |-> Matrices, core |-> Cores, fixtures |-> FixtureTables,
   differential |-> Differentials, observation |-> Observations,
   product |-> Products, authority |-> Authorities]

Departures(c) ==
  UNION {{[c EXCEPT ![field] = other] : other \in Alternatives[field]}
         : field \in DOMAIN Alternatives}

(***************************************************************************)
(* For the violation: the candidate that agrees everywhere.                *)
(***************************************************************************)
GoodCandidate == {Good}

MCCandidates == {Good} \cup Departures(Good) \cup UNION {Departures(c) : c \in Departures(Good)}
===============================================================================
