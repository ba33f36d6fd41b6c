-------------------------- MODULE MCEvaluationRuns -------------------------
(* Recorded evaluations, on small instances: a bounded series of attempts, the slice that ends   *)
(* in a package, and two qualification results that are compared. They share no variable: a      *)
(* behaviour is one of one of them.                                                              *)
EXTENDS BoundedSeries, SlicePackage, QualificationComparison, TLC

CONSTANTS c1, c2

VARIABLE component

\* Attempts with nothing wrong, or with one fault of each of the letters a series stops on.
MCFaults == {{}} \cup {{f} : f \in {"no-session", "unresolved", "uncovered", "source-in-contract"}}

AlikeCases == Permutations({c1, c2})

EvaluationRunsInit ==
  /\ Init /\ SliceInit /\ ComparisonInit
  /\ component \in {"series", "slice", "comparison"}
  /\ component # "series" => executor = "frozen"
  /\ component # "slice" => slice.condition = "valid"
  /\ component # "comparison" => results["a"].configuration = results["b"].configuration

EvaluationRunsNext ==
  \/ component = "series" /\ Next /\ UNCHANGED <<component, sliceVars, comparisonVars>>
  \/ component = "slice" /\ SliceNext /\ UNCHANGED <<component, vars, comparisonVars>>
  \/ component = "comparison" /\ ComparisonNext /\ UNCHANGED <<component, vars, sliceVars>>

EvaluationRunsSpec ==
  EvaluationRunsInit /\ [][EvaluationRunsNext]_<<component, vars, sliceVars, comparisonVars>>
=============================================================================
