------------------------ MODULE MCRecordsAndHandoff ------------------------
(* What a run hands on, the artifact authority of its project and the pull request of its        *)
(* delivery, on small instances. The two share no variable: a behaviour is one of either, and    *)
(* the other stays as it began.                                                                  *)
EXTENDS ArtifactAuthority, PullRequestHandoff, TLC

CONSTANTS spec, design, origin, c1, c2, t1, t2, p1, p2

VARIABLE component

\* Two members, the first reviewed against what lies outside, and a cycle of two.
MCGraphs ==
  {(spec :> {origin}) @@ (design :> {spec}), (spec :> {design}) @@ (design :> {spec})}

MCBoundaries == {NoValue, {spec}}

\* Texts, run-tree tasks or handoff directories, and processes are only compared with each other.
Alike == UNION {Permutations(S) : S \in {{c1, c2}, {t1, t2}, {p1, p2}}}

RecordsAndHandoffInit ==
  /\ AuthorityInit /\ Init
  /\ \/ component = "authority"
     \/ component = "handoff" /\ graph = NoValue

RecordsAndHandoffNext ==
  \/ component = "authority" /\ AuthorityNext /\ UNCHANGED <<component, vars>>
  \/ component = "handoff" /\ Next /\ UNCHANGED <<component, authorityVars>>

RecordsAndHandoffSpec ==
  RecordsAndHandoffInit /\ [][RecordsAndHandoffNext]_<<component, authorityVars, vars>>
=============================================================================
