------------------------- MODULE ArtifactAuthority -------------------------
(***************************************************************************)
(* The durable engineering authority of a project: the ledger of accepted  *)
(* artifacts (pb_ledger.py), the declared change graph (_change_graph.py), *)
(* the freezes that name one contract (_freeze.py, pb_freeze.py), the      *)
(* reviews of a contract as a whole (_consistency.py, pb_consistency.py)   *)
(* and the admission of implementation work (_execution.py,                *)
(* pb_execution.py).                                                       *)
(*                                                                         *)
(* OperatorWorkflow drives the same files for the one artifact an operator *)
(* run has.  Here are several artifacts that depend on each other, graphs  *)
(* that are rewritten, records that are withdrawn, evidence that is lost,  *)
(* and commands that run beside each other: record and withdraw read the   *)
(* ledger, and replace the whole of it some steps later.                   *)
(*                                                                         *)
(* A digest stands for what it is taken of, so a content is its identity   *)
(* and a freeze is its own.  Contents are those of the canonical text:     *)
(* line endings are folded before anything here sees them.                 *)
(***************************************************************************)
EXTENDS Naturals, FiniteSets, Functions

CONSTANTS
  Artifact,     \* project files that may be accepted, by their one spelling
  InScope,      \* those under the directory of the change graph
  Content,      \* the texts a file may hold
  Graphs,       \* the declarations that graph.json is given over time
  Boundaries,   \* write boundaries a contract may declare, NoValue for no declaration
  Task,         \* tasks of a run whose acceptance may be recorded
  Command,      \* ledger commands that may run beside each other
  NoValue,         \* no file, no text, no command, no task
  MaxEdits, MaxWrites, MaxTamperings   \* bounds of the runs

ASSUME AuthorityAssumption ==
  /\ IsFiniteSet(Artifact) /\ InScope \subseteq Artifact
  /\ NoValue \notin Content \cup Artifact \cup Task
  /\ Boundaries \subseteq SUBSET Artifact \cup {NoValue}
  /\ \A g \in Graphs : DOMAIN g \subseteq Artifact /\ \A a \in DOMAIN g : g[a] \subseteq Artifact
  /\ {MaxEdits, MaxWrites, MaxTamperings} \subseteq Nat

VARIABLES
  file,         \* what each file of the project holds, NoValue when missing or no text
  ledger,       \* ledger.json: accepted artifacts and their records, NoValue when missing
  graph,        \* graph.json, NoValue when missing
  freezes,      \* the freezes created so far
  task,         \* accepted tasks: what their contract declared and who reviewed
  gate,         \* what is left of the integrity gate each acceptance rests on
  consistency,  \* consistency records, one per candidate: the task that evidenced it
  admissions,   \* the candidates implementation work was admitted for
  pending,      \* the ledger each running command is about to write
  edits, writes, tamperings            \* counted against the bounds

authorityVars == <<file, ledger, graph, freezes, task, gate, consistency, admissions, pending,
          edits, writes, tamperings>>
counters == <<edits, writes, tamperings>>

-----------------------------------------------------------------------------
(* The closed vocabulary of review purposes and the roles that satisfy it.  *)

REVIEW_PURPOSE_ROLES ==
  [purpose \in {"design-reflection", "consistency-reflection", "implementation-review"} |->
     IF purpose = "implementation-review" THEN {"reviewer"} ELSE {"spec-reflector"}]

RoleQualifies(purpose, role) ==
  /\ purpose \in DOMAIN REVIEW_PURPOSE_ROLES
  /\ role \in REVIEW_PURPOSE_ROLES[purpose]

-----------------------------------------------------------------------------
(* Dependency structures: a function from nodes to the nodes they depend on. *)

\* Whatever a path of edges leads to from a node; an edge to no node leads nowhere further.
Closure(edges, from) ==
  LET step[n \in 0 .. Cardinality(DOMAIN edges)] ==
        IF n = 0 THEN {from}
        ELSE step[n - 1] \cup UNION {edges[x] : x \in step[n - 1] \cap DOMAIN edges}
  IN  step[Cardinality(DOMAIN edges)]

\* assert_acyclic refuses a structure in which a node is among what it depends on.
Acyclic(edges) ==
  \A n \in DOMAIN edges : \A d \in edges[n] : d # n /\ n \notin Closure(edges, d)

DependencyEdges(records) == [a \in DOMAIN records |-> DOMAIN records[a].depends_on]

-----------------------------------------------------------------------------
(* The ledger *)

LedgerLoads(records) ==
  /\ \A a \in DOMAIN records :
       /\ RoleQualifies(records[a].purpose, records[a].role)
       /\ DOMAIN records[a].depends_on \subseteq DOMAIN records
  /\ Acyclic(DependencyEdges(records))

\* Mutant: staleness looks at the direct dependencies' identities alone.
DeriveStatesOfIdentities(records) ==
  [a \in DOMAIN records |->
     IF file[a] # records[a].content THEN "invalid"
     ELSE IF \E d \in DOMAIN records[a].depends_on : records[d].content # records[a].depends_on[d]
          THEN "needs-revalidation"
          ELSE "valid"]

\* A record's state is derived from the files at every question and never stored.
DeriveStates(records) ==
  LET state[a \in DOMAIN records] ==
        IF file[a] # records[a].content THEN "invalid"
        ELSE IF \E d \in DOMAIN records[a].depends_on :
                   records[d].content # records[a].depends_on[d] \/ state[d] # "valid"
             THEN "needs-revalidation"
             ELSE "valid"
  IN  state

\* What the retained gates still show of the records: nothing, agreement or contradiction.
Provenance(records, consulted) ==
  [a \in DOMAIN records |->
     IF ~consulted \/ gate[records[a].gate] = "gone" THEN "unavailable"
     ELSE IF gate[records[a].gate] = "changed" THEN "contradicted"
     ELSE "verified"]

Overall(provenance) ==
  LET levels == {provenance[a] : a \in DOMAIN provenance}
  IN  IF "contradicted" \in levels THEN "contradicted"
      ELSE IF levels = {"verified"} THEN "verified" ELSE "unavailable"

\* pb_ledger validate changes nothing: it succeeds on valid records nothing retained contradicts.
ValidateLedger(consulted) ==
  LET overall == Overall(Provenance(ledger, consulted))
  IN  [provenance |-> overall,
       ok |-> /\ \A a \in DOMAIN ledger : DeriveStates(ledger)[a] = "valid"
              /\ overall # "contradicted"]

Put(records, a, record) ==
  [x \in DOMAIN records \cup {a} |-> IF x = a THEN record ELSE records[x]]

-----------------------------------------------------------------------------
(* The change graph *)

GraphLoads(g) ==
  /\ g # NoValue
  /\ DOMAIN g \subseteq InScope
  /\ \A a \in DOMAIN g : a \notin g[a]
  /\ Acyclic(g)

Finding(holds, finding) == IF holds THEN {finding} ELSE {}

\* Mutant: topology is compared and the artifacts' own states are not.
MemberFindingsOfEdges(g, records, a) ==
  IF a \notin DOMAIN records THEN {<<"missing-accepted-record", a>>}
  ELSE Finding(g[a] # DOMAIN records[a].depends_on, <<"missing-required-edge", a>>)

\* The findings on one declared member, which has a record or is only reported as missing it.
MemberFindings(g, records, a) ==
  IF a \notin DOMAIN records THEN {<<"missing-accepted-record", a>>}
  ELSE LET recorded == DOMAIN records[a].depends_on
       IN  Finding(DeriveStates(records)[a] # "valid", <<"artifact-not-valid", a>>)
           \cup Finding(~(g[a] \subseteq recorded), <<"missing-required-edge", a>>)
           \cup Finding(~(recorded \subseteq g[a]), <<"undeclared-edge", a>>)

Evaluate(g, records) ==
  UNION {MemberFindings(g, records, a) : a \in DOMAIN g}
  \cup {<<"undeclared-member", a>> : a \in (DOMAIN records \cap InScope) \ DOMAIN g}
  \cup {<<"unresolved-dependency-target", a>> :
          a \in {x \in DOMAIN g : ~(g[x] \subseteq DOMAIN g \cup DOMAIN records)}}

-----------------------------------------------------------------------------
(* Freezes *)

BindingOf(record) ==
  [content |-> record.content, depends_on |-> record.depends_on, purpose |-> record.purpose]

FreezeLoads(f) ==
  /\ \A a \in DOMAIN f :
       /\ f[a].purpose \in DOMAIN REVIEW_PURPOSE_ROLES
       /\ a \notin DOMAIN f[a].depends_on
       /\ \A d \in DOMAIN f[a].depends_on \cap DOMAIN f : f[d].content = f[a].depends_on[d]
  /\ Acyclic([a \in DOMAIN f |-> DOMAIN f[a].depends_on])

Derive(g, records) == [a \in DOMAIN g |-> BindingOf(records[a])]

\* current_candidate answers only while graph and ledger load and nothing is found between them.
CandidateIsDerivable ==
  /\ GraphLoads(graph)
  /\ ledger # NoValue
  /\ LedgerLoads(ledger)
  /\ Evaluate(graph, ledger) = {}
  /\ FreezeLoads(Derive(graph, ledger))

CurrentCandidate == Derive(graph, ledger)

\* compare: how a freeze differs from the candidate of today, in engineering meaning.
Compare(f, candidate) ==
  {<<"member-removed", a>> : a \in DOMAIN f \ DOMAIN candidate}
  \cup {<<"member-added", a>> : a \in DOMAIN candidate \ DOMAIN f}
  \cup {<<"content-differs", a>> :
          a \in {x \in DOMAIN f \cap DOMAIN candidate : f[x].content # candidate[x].content}}
  \cup {<<"dependencies-differ", a>> :
          a \in {x \in DOMAIN f \cap DOMAIN candidate : f[x].depends_on # candidate[x].depends_on}}
  \cup {<<"purpose-differs", a>> :
          a \in {x \in DOMAIN f \cap DOMAIN candidate : f[x].purpose # candidate[x].purpose}}

RepositoryFindings(f) == {a \in DOMAIN f : file[a] # f[a].content}

\* pb_freeze compare changes nothing and asks two questions apart: whether the files are still
\* the frozen ones, and whether the project of today still produces the freeze.
CompareCommand(f, consulted) ==
  [repository |-> RepositoryFindings(f),
   candidate |-> IF CandidateIsDerivable THEN Compare(f, CurrentCandidate)
                 ELSE {<<"candidate-not-computable", f>>},
   provenance |-> IF CandidateIsDerivable THEN Overall(Provenance(ledger, consulted))
                  ELSE "unavailable"]

-----------------------------------------------------------------------------
(* Consistency records and the authorization that composes all of them *)

\* Gates of a consistency record, as for the ledger; admit always consults the run.
ConsistencyProvenance(candidate) ==
  CASE gate[consistency[candidate]] = "gone" -> "unavailable"
    [] gate[consistency[candidate]] = "changed" -> "contradicted"
    [] OTHER -> "verified"

Lookup(candidate) == candidate \in DOMAIN consistency

AuthorizeFindings(candidate) ==
  Finding(~CandidateIsDerivable, "candidate-not-derivable")
  \cup Finding(CandidateIsDerivable /\ CurrentCandidate # candidate, "candidate-not-current")
  \cup Finding(~Lookup(candidate), "no-consistency-acceptance")
  \cup Finding(Lookup(candidate) /\ ConsistencyProvenance(candidate) = "contradicted",
               "consistency-provenance-contradicted")

-----------------------------------------------------------------------------
(* What happens around the commands *)

Edit(a, c) ==
  /\ edits < MaxEdits
  /\ file[a] # c
  /\ file' = [file EXCEPT ![a] = c]
  /\ edits' = edits + 1
  /\ UNCHANGED <<ledger, graph, freezes, task, gate, consistency, admissions, pending, writes, tamperings>>

DeclareGraph(g) ==
  /\ edits < MaxEdits
  /\ graph # g
  /\ graph' = g
  /\ edits' = edits + 1
  /\ UNCHANGED <<file, ledger, freezes, task, gate, consistency, admissions, pending, writes, tamperings>>

\* A task of the run is accepted.  Acceptance asks for a qualifying role only when its contract
\* declares a purpose; the contract may declare a write boundary, and the candidate it is about.
AcceptTask(t, purpose, boundary, candidate) ==
  /\ task[t] = NoValue
  /\ \E role \in {"spec-reflector", "reviewer"} :
       /\ purpose # NoValue => RoleQualifies(purpose, role)
       /\ task' = [task EXCEPT ![t] = [purpose |-> purpose, role |-> role, boundary |-> boundary,
                                       candidate |-> candidate]]
  /\ UNCHANGED <<file, ledger, graph, freezes, gate, consistency, admissions, pending, counters>>

\* Run trees are expendable: the gates of a run are lost together.
LoseRun ==
  /\ gate # [t \in Task |-> "gone"]
  /\ gate' = [t \in Task |-> "gone"]
  /\ UNCHANGED <<file, ledger, graph, freezes, task, consistency, admissions, pending, counters>>

\* A retained gate no longer has the bytes that were accepted.
ChangeGate(t) ==
  /\ tamperings < MaxTamperings
  /\ task[t] # NoValue
  /\ gate[t] = "kept"
  /\ gate' = [gate EXCEPT ![t] = "changed"]
  /\ tamperings' = tamperings + 1
  /\ UNCHANGED <<file, ledger, graph, freezes, task, consistency, admissions, pending, edits, writes>>

-----------------------------------------------------------------------------
(* The commands *)

\* record: what it copies is checked here, and the ledger it will write is complete.
Record(p, t, a, dependencies) ==
  /\ pending[p] = NoValue
  /\ writes < MaxWrites
  /\ task[t] # NoValue
  /\ gate[t] = "kept"
  /\ task[t].purpose # NoValue
  /\ RoleQualifies(task[t].purpose, task[t].role)
  /\ file[a] # NoValue
  /\ task[t].boundary # NoValue => a \in task[t].boundary
  /\ LET loaded == IF ledger = NoValue THEN [x \in {} |-> NoValue] ELSE ledger
         entry == [content |-> file[a], purpose |-> task[t].purpose, role |-> task[t].role,
                   gate |-> t, depends_on |-> [d \in dependencies |-> loaded[d].content]]
     IN  /\ LedgerLoads(loaded)
         /\ dependencies \subseteq DOMAIN loaded \ {a}
         /\ \A d \in dependencies : DeriveStates(loaded)[d] = "valid"
         /\ Acyclic(DependencyEdges(Put(loaded, a, entry)))
         /\ pending' = [pending EXCEPT ![p] = [records |-> Put(loaded, a, entry)]]
  /\ writes' = writes + 1
  /\ UNCHANGED <<file, ledger, graph, freezes, task, gate, consistency, admissions, edits, tamperings>>

\* withdraw: a record that others were accepted against stays.
Withdraw(p, a) ==
  /\ pending[p] = NoValue
  /\ writes < MaxWrites
  /\ ledger # NoValue
  /\ LedgerLoads(ledger)
  /\ a \in DOMAIN ledger
  /\ \A x \in DOMAIN ledger \ {a} : a \notin DOMAIN ledger[x].depends_on
  /\ pending' = [pending EXCEPT ![p] = [records |-> Restrict(ledger, DOMAIN ledger \ {a})]]
  /\ writes' = writes + 1
  /\ UNCHANGED <<file, ledger, graph, freezes, task, gate, consistency, admissions, edits, tamperings>>

\* The file is replaced as a whole by what the command computed, whatever it holds by now.
ReplaceLedger(p) ==
  /\ pending[p] # NoValue
  /\ ledger' = pending[p].records
  /\ pending' = [pending EXCEPT ![p] = NoValue]
  /\ UNCHANGED <<file, graph, freezes, task, gate, consistency, admissions, counters>>

\* A command is killed before it replaces the file.
KillCommand(p) ==
  /\ pending[p] # NoValue
  /\ pending' = [pending EXCEPT ![p] = NoValue]
  /\ UNCHANGED <<file, ledger, graph, freezes, task, gate, consistency, admissions, counters>>

\* pb_freeze create, which consults the run when one is named and refuses a contradiction.
CreateFreeze(consulted) ==
  /\ CandidateIsDerivable
  /\ consulted => \A a \in DOMAIN ledger : Provenance(ledger, TRUE)[a] # "contradicted"
  /\ CurrentCandidate \notin freezes
  /\ freezes' = freezes \cup {CurrentCandidate}
  /\ UNCHANGED <<file, ledger, graph, task, gate, consistency, admissions, pending, counters>>

\* Mutant: the freeze that is handed in need not be the candidate the contract named.
RecordConsistencyOfAny(t, f) ==
  /\ task[t] # NoValue
  /\ gate[t] = "kept"
  /\ task[t].purpose = "consistency-reflection"
  /\ task[t].role = "spec-reflector"
  /\ f \in freezes
  /\ consistency' = Put(consistency, f, t)
  /\ consistency' # consistency
  /\ UNCHANGED <<file, ledger, graph, freezes, task, gate, admissions, pending, counters>>

\* pb_consistency record, which overwrites an earlier record of the same candidate.
RecordConsistency(t, f) ==
  /\ task[t] # NoValue
  /\ gate[t] = "kept"
  /\ task[t].purpose = "consistency-reflection"
  /\ task[t].role = "spec-reflector"
  /\ f \in freezes
  /\ FreezeLoads(f)
  /\ task[t].candidate = f
  /\ consistency' = Put(consistency, f, t)
  /\ consistency' # consistency
  /\ UNCHANGED <<file, ledger, graph, freezes, task, gate, admissions, pending, counters>>

\* pb_execution admit, of a contract that names the candidate and may write.  The authority it
\* finds is fixed with the binding: nothing later in the run asks again.
Admit(candidate) ==
  /\ AuthorizeFindings(candidate) = {}
  /\ candidate \notin admissions
  /\ admissions' = admissions \cup {candidate}
  /\ UNCHANGED <<file, ledger, graph, freezes, task, gate, consistency, pending, counters>>

AuthorityInit ==
  /\ \E c \in Content : file = [a \in Artifact |-> c]
  /\ ledger = NoValue
  /\ graph \in Graphs \cup {NoValue}
  /\ freezes = {}
  /\ task = [t \in Task |-> NoValue]
  /\ gate = [t \in Task |-> "kept"]
  /\ consistency = [f \in {} |-> NoValue]
  /\ admissions = {}
  /\ pending = [p \in Command |-> NoValue]
  /\ edits = 0
  /\ writes = 0
  /\ tamperings = 0

AuthorityNext ==
  \/ \E a \in Artifact : \E c \in Content \cup {NoValue} : Edit(a, c)
  \/ \E g \in Graphs : DeclareGraph(g)
  \/ \E t \in Task :
       \/ \E boundary \in Boundaries :
            AcceptTask(t, "design-reflection", boundary, NoValue)
       \/ \E f \in freezes \cup {NoValue} : AcceptTask(t, "consistency-reflection", {}, f)
       \/ AcceptTask(t, NoValue, NoValue, NoValue)
       \/ ChangeGate(t)
       \/ \E f \in freezes : RecordConsistency(t, f)
  \/ LoseRun
  \/ \E p \in Command :
       \/ \E t \in Task : \E a \in Artifact : \E D \in SUBSET Artifact : Record(p, t, a, D)
       \/ \E a \in Artifact : Withdraw(p, a)
       \/ ReplaceLedger(p)
       \/ KillCommand(p)
  \/ \E consulted \in BOOLEAN : CreateFreeze(consulted)
  \/ \E f \in freezes : Admit(f)

AuthoritySpec == AuthorityInit /\ [][AuthorityNext]_authorityVars

-----------------------------------------------------------------------------
(* Properties *)

\* A record is valid exactly when nothing it stands on has moved: it and everything its
\* dependencies lead to is as accepted, and was accepted against what is accepted now.  validate
\* succeeds only if that is so of every record, and of none whose retained gate was changed.
ValidMeansGroundHolds ==
  ledger # NoValue =>
    LET holds(a) == \A x \in Closure(DependencyEdges(ledger), a) :
                      /\ file[x] = ledger[x].content
                      /\ \A d \in DOMAIN ledger[x].depends_on :
                           ledger[d].content = ledger[x].depends_on[d]
    IN  /\ \A a \in DOMAIN ledger : DeriveStates(ledger)[a] = "valid" <=> holds(a)
        /\ ValidateLedger(TRUE).ok =>
             \A a \in DOMAIN ledger : holds(a) /\ gate[ledger[a].gate] # "changed"

\* A freeze the project is said to still produce is one whose files nobody touched: the two
\* questions pb_freeze compare answers apart never answer "equivalent" and "drifted" together.
EquivalentMeansUntouched ==
  \A f \in freezes : LET found == CompareCommand(f, FALSE)
                     IN  found.candidate = {} => found.repository = {}

\* Work is admitted only against a contract whose files, and the files outside it that it was
\* reviewed against, are as they were reviewed, and that was challenged as a whole by a review
\* of exactly it, which retained evidence does not contradict.
AdmissionIsEarned ==
  [][\A f \in admissions' \ admissions :
       /\ \A a \in DOMAIN f :
            /\ file[a] = f[a].content
            /\ \A d \in DOMAIN f[a].depends_on : file[d] = f[a].depends_on[d]
       /\ \E t \in Task :
            /\ task[t] # NoValue
            /\ task[t].purpose = "consistency-reflection"
            /\ task[t].candidate = f
            /\ gate[t] # "changed"]_authorityVars

=============================================================================
