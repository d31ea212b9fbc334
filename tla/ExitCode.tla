------------------------------- MODULE ExitCode -------------------------------
(***************************************************************************)
(* The exit codes of the commands (internal/cli/exit.go) and the code of   *)
(* one evaluation (internal/cli/explain.go).                               *)
(***************************************************************************)
EXTENDS Integers, Sequences

ExitSuccess == 0
ExitExpectationMismatch == 1
ExitInvalidInput == 2
ExitIncompleteEvaluation == 3
ExitInternalError == 4
NotExited == -1

(***************************************************************************)
(* SelectExitCode: the priority of a code is not its number.               *)
(***************************************************************************)
ExitPriority == <<ExitIncompleteEvaluation, ExitExpectationMismatch,
                  ExitInvalidInput, ExitInternalError>>

SelectLargest(codes) ==         \* mutant: the largest number wins
  IF codes = {} THEN ExitSuccess
  ELSE CHOOSE code \in codes : \A other \in codes : other <= code

SelectExitCode(codes) ==
  LET ranked == {p \in DOMAIN ExitPriority : ExitPriority[p] \in codes}
  IN IF ranked = {} THEN ExitSuccess
     ELSE ExitPriority[CHOOSE p \in ranked : \A q \in ranked : q <= p]

(***************************************************************************)
(* diagnosticExitCode: only an internal error has a code of its own.       *)
(***************************************************************************)
DiagnosticExitCode(verdict) ==
  IF verdict.reason = "INTERNAL_ERROR" THEN ExitInternalError ELSE ExitSuccess

EvaluationExitCode(verdicts) ==
  SelectExitCode({DiagnosticExitCode(v) : v \in verdicts}
                   \cup {ExitIncompleteEvaluation :
                          v \in {u \in verdicts : u.determination # "determinate"}})
===============================================================================
