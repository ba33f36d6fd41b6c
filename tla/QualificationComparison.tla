------------------------ MODULE QualificationComparison ------------------------
(***************************************************************************)
(* What two qualification results can support when compared                *)
(* (evals/_compare.py compare_qualification, evals/_qualify.py             *)
(* configuration, observed and observed_configuration).                    *)
(*                                                                         *)
(* A result holds the configuration planned and, by trial, what the run    *)
(* recorded of itself.  What a run really used is kept beside: it is what  *)
(* was planned unless something changed before it.  Fields are one or two  *)
(* of each kind; interpreter and variant behave as coordinator does.       *)
(***************************************************************************)
EXTENDS Naturals, Sequences, FiniteSets

CONSTANTS
  CaseIdentities,       \* identities of the cases
  MaxTrials,   \* bound: trials of one result
  MaxDeviations, \* bound: runs whose configuration is not the planned one
  Unknown, Mixed

ASSUME ComparisonAssumption ==
  /\ MaxTrials \in Nat /\ MaxDeviations \in Nat
  /\ Unknown # Mixed /\ {Unknown, Mixed} \cap {0, 1, 2} = {}

VARIABLES
  results,     \* by side: [configuration, trials], a trial [case, transport, observed]
  used         \* by side, what each trial's run really used

comparisonVars == <<results, used>>

Sides == {"a", "b"}
QUALIFICATION_GROUPS ==
  [executor |-> {"executor"}, worker |-> {"model", "provider"}, coordinator |-> {"coordinator"},
   tasks |-> {"suite"}, measurement |-> {"mode"}]
Fields == UNION {QUALIFICATION_GROUPS[g] : g \in DOMAIN QUALIFICATION_GROUPS}
OBSERVABLE == {"executor", "model", "coordinator"}
StandIn == 0   \* the executor a stand-in records, and no plan names

-----------------------------------------------------------------------------
\* What a result says its configuration was

RecordedBy(trials) == {trials[i].observed : i \in DOMAIN trials} \ {Unknown}

\* the first run that recorded anything speaks for all
ObservedOfFirst(trials) ==
  IF RecordedBy(trials) = {} THEN [f \in {} |-> Unknown]
  ELSE trials[CHOOSE i \in DOMAIN trials :
                /\ trials[i].observed # Unknown
                /\ \A j \in DOMAIN trials : j < i => trials[j].observed = Unknown].observed
\* a field is one value where every run that recorded itself agrees, "mixed" where they differ,
\* unknown where one lacks it; a run that recorded nothing is passed over
ObservedConfiguration(trials) ==
  [f \in IF RecordedBy(trials) = {} THEN {} ELSE OBSERVABLE |->
     LET values == {o[f] : o \in RecordedBy(trials)} IN
     IF Unknown \in values THEN Unknown
     ELSE IF Cardinality(values) = 1 THEN CHOOSE v \in values : TRUE ELSE Mixed]

\* what was recorded replaces what was planned: [conf, conflict]
Effective(result) ==
  LET observed == ObservedConfiguration(result.trials)
      mixed == {f \in DOMAIN observed : observed[f] = Mixed}
      contradicted == {f \in DOMAIN observed \ mixed :
                         /\ observed[f] # Unknown /\ observed[f] # result.configuration[f]
                         /\ ~(f = "executor" /\ observed[f] = StandIn)}
  IN [conf |-> [f \in Fields |-> IF f \in mixed THEN Unknown
                                 ELSE IF f \in DOMAIN observed THEN observed[f]
                                 ELSE result.configuration[f]],
      conflict |-> mixed \cup contradicted # {}]

-----------------------------------------------------------------------------
\* The comparison

CasesOf(result) == {result.trials[i].case : i \in DOMAIN result.trials}
\* trials are matched by the identity of their case, the first of each
TrialOf(result, c) ==
  LET of == {i \in DOMAIN result.trials : result.trials[i].case = c}
  IN result.trials[CHOOSE i \in of : \A j \in of : i <= j]
Duplicates(result) == Cardinality(CasesOf(result)) < Len(result.trials)

Comparable == CasesOf(results["a"]) \cap CasesOf(results["b"]) # {}

CompareQualification ==
  LET a == Effective(results["a"])
      b == Effective(results["b"])
      unverified == {f \in Fields : a.conf[f] = Unknown \/ b.conf[f] = Unknown}
      bundle == {f \in Fields \ unverified : a.conf[f] # b.conf[f]}
      varied == {g \in DOMAIN QUALIFICATION_GROUPS : QUALIFICATION_GROUPS[g] \cap bundle # {}}
      shared == CasesOf(results["a"]) \cap CasesOf(results["b"])
      unpairable == {c \in shared : TrialOf(results["a"], c).transport
                                      # TrialOf(results["b"], c).transport}
      controlled == /\ varied \cap {"measurement", "tasks"} = {} /\ varied # {}
                    /\ CasesOf(results["a"]) = CasesOf(results["b"])
                    /\ unverified = {} /\ unpairable = {} /\ ~a.conflict /\ ~b.conflict
                    /\ \A s \in Sides : ~Duplicates(results[s])
  IN [controlled |-> controlled, bundle |-> bundle, paired |-> shared \ unpairable,
      attributable_to_one_field |-> controlled /\ Cardinality(bundle) = 1]

-----------------------------------------------------------------------------
\* How results come about

\* the two plans differ in at most one field, or in two of worker, executor and coordinator
ComparisonInit ==
  /\ \E differing \in SUBSET Fields :
       /\ Cardinality(differing) <= IF differing \cap {"suite", "mode"} = {} THEN 2 ELSE 1
       /\ results = [s \in Sides |->
            [configuration |-> [f \in Fields |-> IF s = "b" /\ f \in differing THEN 2 ELSE 1],
             trials |-> <<>>]]
  /\ used = [s \in Sides |-> <<>>]

Deviations == Cardinality({p \in Sides \X (1..MaxTrials) :
                /\ p[2] \in DOMAIN used[p[1]]
                /\ \E f \in OBSERVABLE \ {"executor"} :
                     used[p[1]][p[2]][f] # results[p[1]].configuration[f]})

\* a run uses what was planned, or one field of it changed before
ReallyUsed(planned, changed, transport) ==
  [f \in OBSERVABLE |-> IF f \in changed THEN 3 - planned[f]
                        ELSE IF f = "executor" /\ transport = "stand-in" THEN StandIn ELSE planned[f]]

\* it records itself, without a coordinator nobody identified, or fails before it recorded anything
RecordedOf(really, recorded) ==
  IF recorded = "nothing" THEN Unknown
  ELSE [f \in OBSERVABLE |-> IF f = "coordinator" /\ recorded = "no-coordinator" THEN Unknown
                             ELSE really[f]]

\* the trials of one result come first
RunTrial ==
  \E s \in Sides, c \in CaseIdentities, transport \in {"none", "stand-in"} :
    \E changed \in {d \in SUBSET {"model", "coordinator"} : Cardinality(d) <= 1},
       recorded \in {"all", "no-coordinator", "nothing"} :
      LET really == ReallyUsed(results[s].configuration, changed, transport)
      IN /\ Len(used[s]) < MaxTrials
         /\ s = "a" => used["b"] = <<>>
         /\ transport = "stand-in" => recorded = "all"
         /\ changed # {} => Deviations < MaxDeviations
         /\ used' = [used EXCEPT ![s] = Append(@, really)]
         /\ results' = [results EXCEPT ![s].trials =
              Append(@, [case |-> c, transport |-> transport, observed |-> RecordedOf(really, recorded)])]

ComparisonNext == RunTrial
ComparisonSpec == ComparisonInit /\ [][ComparisonNext]_comparisonVars

-----------------------------------------------------------------------------
\* A difference is attributed to one field only if it is the one field in which the runs that
\* recorded themselves differed: they agree on every other, and on each side on that one.
AttributableIsTrue ==
  LET found == CompareQualification
      runs(s) == {i \in DOMAIN used[s] : results[s].trials[i].observed # Unknown}
  IN Comparable /\ found.attributable_to_one_field =>
       \A f \in OBSERVABLE, s, t \in Sides : \A i \in runs(s), j \in runs(t) :
         used[s][i][f] = used[t][j][f] <=> (s = t \/ f \notin found.bundle)

\* A comparison is controlled only if runs of both results recorded the observable fields: a
\* field no run recorded is unverified.
ControlledWasRecorded ==
  Comparable /\ CompareQualification.controlled =>
    \A s \in Sides : RecordedBy(results[s].trials) # {}
=============================================================================
