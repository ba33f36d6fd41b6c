------------------------------ MODULE SlicePackage ------------------------------
(***************************************************************************)
(* One condition of the authority-handoff experiment and the evidence      *)
(* package that outlives it (evals/authority_slice/_live.py, _package.py): *)
(* the seeded run, admission or its refusal, guarded launches, the         *)
(* external check, acceptance, finalize with its export, cleanup, and what *)
(* verify and qualify later say of the package alone.                      *)
(*                                                                         *)
(* The first attempt in the tree is the stand-in's; the others are the     *)
(* run's own.  An attempt makes at most one model call, in a session of    *)
(* its own.  A package holds a digest per file in its manifest, which      *)
(* nothing but its reader's copy protects; its files may be altered.       *)
(***************************************************************************)
EXTENDS Naturals, Sequences, FiniteSets

CONSTANTS
  MaxLaunches,    \* the guard's launch ceiling
  MaxTampering,   \* bound: files of a package that are altered
  NoPackage

Roles == {"spec-author", "implementer", "reviewer"}
SliceSlot == [dir : Nat, classification : {"unresolved", "pre-executor-failure", "worker"}]
SliceAttempt == [ended : BOOLEAN, session : Nat, role : Roles]
CallRow == [session : Nat, type : {"start", "finish"}]
ArtifactCheck == [result : {"none", "pass", "fail"}, bytes : {"absent", "sound", "faulty"}]

\* What a package is: the files it had and has, their digests and bytes, and what is said of them.
FileNames == {"state", "ledger", "tree", "contract", "artifact", "requirements", "refusal", "events"}
FileContents ==
  [state : [bound : BOOLEAN, admission : BOOLEAN, accepted : BOOLEAN], ledger : Seq(SliceSlot),
   tree : Seq(SliceAttempt), contract : {"placed", "replaced"}, artifact : {"absent", "sound", "faulty"},
   requirements : {"accepted", "weakened"}, refusal : {"none", "stated", "unstated"}, events : SUBSET CallRow]
Package ==
  [condition : {"control", "valid"}, listed : SUBSET FileNames, present : SUBSET FileNames,
   digest : FileContents, content : FileContents, own : SUBSET Nat, inTree : Nat,
   omitted : SUBSET FileNames, usage : SUBSET CallRow, attribution : BOOLEAN, check : ArtifactCheck]

ASSUME SliceAssumption == MaxLaunches \in Nat /\ MaxTampering \in Nat /\ NoPackage \notin Package

VARIABLES
  slice,        \* the run: what its tree, its project and its work directory hold
  trace,        \* the session database: a row per start and finish of a call
  finalized,    \* finalize has returned
  safe,         \* its safe_to_clean_up
  source,       \* whether the run's own data still exists
  package,      \* the exported package
  tampering     \* bound: how often a file of it was altered

sliceVars == <<slice, trace, finalized, safe, source, package, tampering>>

Seeded == 1
Own(s) == {s.slots[i].dir : i \in DOMAIN s.slots} \ {0}
Running(s) == {i \in Own(s) : ~s.tree[i].ended}
Works(artifact, requirements) == artifact = "sound" \/ (artifact = "faulty" /\ requirements = "weakened")

\* calls_started = calls_finished in every session of these attempts.
Settled(rows) == \A r \in rows : [session |-> r.session, type |-> "finish"] \in rows

-----------------------------------------------------------------------------
(* The run *)

\* prepare: the accepted upstream state; the control's consistency acceptance is then removed.
SliceInit ==
  /\ \E condition \in {"control", "valid"} :
       slice = [condition |-> condition, consistency |-> condition = "valid", contract |-> "none",
                refused |-> FALSE, refusal |-> "none", bound |-> FALSE, admission |-> FALSE, accepted |-> FALSE,
                slots |-> <<>>, tree |-> <<[ended |-> TRUE, session |-> 0, role |-> "spec-author"]>>,
                artifact |-> "absent", requirements |-> "accepted", check |-> [result |-> "none", bytes |-> "absent"]]
  /\ trace = {} /\ finalized = FALSE /\ safe = FALSE /\ source = TRUE /\ package = NoPackage /\ tampering = 0

\* What the coordinator does, until it returns.
Coordinates == ~finalized /\ source
RunStep == UNCHANGED <<trace, finalized, safe, source, package, tampering>>

\* place_contract; placing it again after it was bound leaves other bytes than were bound.
PlaceContract ==
  /\ Coordinates /\ slice.contract # "replaced"
  /\ slice' = [slice EXCEPT !.contract = IF slice.bound THEN "replaced" ELSE "placed"] /\ RunStep

\* pb_execution admit binds and records in one act, or refuses and leaves nothing bound.
AdmitContract ==
  /\ Coordinates /\ slice.contract = "placed" /\ ~slice.bound /\ ~slice.refused
  /\ slice' = IF slice.consistency THEN [slice EXCEPT !.bound = TRUE, !.admission = TRUE]
              ELSE [slice EXCEPT !.refused = TRUE]
  /\ RunStep

\* The refusal is written down by a step of its own.
RecordRefusal ==
  /\ Coordinates /\ slice.refused /\ slice.refusal = "none"
  /\ slice' = [slice EXCEPT !.refusal = "stated"] /\ RunStep

\* The guard: every earlier slot classified, no call of the run in flight, and the ceiling.
ReserveSlot ==
  /\ Coordinates /\ Len(slice.slots) < MaxLaunches /\ Settled(trace)
  /\ \A i \in DOMAIN slice.slots : slice.slots[i].classification # "unresolved"
  /\ slice' = [slice EXCEPT !.slots = Append(@, [dir |-> 0, classification |-> "unresolved"])]
  /\ RunStep

Unresolved == {i \in DOMAIN slice.slots : slice.slots[i].classification = "unresolved"}

\* A worker of the bound task, or of an upstream task, which needs no admission.
StartWorker(role) ==
  /\ source /\ \E i \in Unresolved : slice.slots[i].dir = 0
  /\ role # "spec-author" => slice.bound
  /\ LET dir == Len(slice.tree) + 1 IN
       slice' = [slice EXCEPT !.tree = Append(@, [ended |-> FALSE, session |-> 0, role |-> role]),
                              !.slots = [i \in DOMAIN @ |-> IF i \in Unresolved THEN [@[i] EXCEPT !.dir = dir] ELSE @[i]]]
  /\ RunStep

CallStarts(i) ==
  /\ source /\ i \in Running(slice) /\ trace' = trace \cup {[session |-> i, type |-> "start"]}
  /\ UNCHANGED <<slice, finalized, safe, source, package, tampering>>
CallFinishes(i) ==
  /\ source /\ i \in Running(slice) /\ [session |-> i, type |-> "start"] \in trace
  /\ trace' = trace \cup {[session |-> i, type |-> "finish"]}
  /\ UNCHANGED <<slice, finalized, safe, source, package, tampering>>

\* A producer writes the artifact, or the requirements it was to satisfy.
Produce(i, bytes) ==
  /\ source /\ i \in Running(slice) /\ slice.tree[i].role = "implementer"
  /\ slice' = [slice EXCEPT !.artifact = bytes] /\ RunStep
WeakenRequirements(i) ==
  /\ source /\ i \in Running(slice) /\ slice.tree[i].role = "implementer"
  /\ slice' = [slice EXCEPT !.requirements = "weakened"] /\ RunStep

\* The terminal record names the session, if the log showed one.
WorkerEnds(i, session) ==
  /\ source /\ i \in Running(slice)
  /\ session = i => [session |-> i, type |-> "start"] \in trace
  /\ slice' = [slice EXCEPT !.tree[i] = [@ EXCEPT !.ended = TRUE, !.session = session]] /\ RunStep

ClassifySlot ==
  /\ source /\ \E i \in Unresolved :
       /\ slice.slots[i].dir # 0 => slice.tree[slice.slots[i].dir].ended
       /\ slice' = [slice EXCEPT !.slots[i].classification =
                                   IF slice.slots[i].dir = 0 THEN "pre-executor-failure" ELSE "worker"]
  /\ RunStep

\* check_artifact: the delivered bytes against the project's requirements, and the scope, which
\* the requirements are outside of.
CheckArtifact ==
  /\ Coordinates /\ Running(slice) = {} /\ slice.artifact # "absent"
  /\ slice' = [slice EXCEPT !.check =
       [bytes |-> slice.artifact,
        result |-> IF Works(slice.artifact, slice.requirements) /\ slice.requirements = "accepted" THEN "pass" ELSE "fail"]]
  /\ RunStep

\* accept-task, on the gate of a review; the coordinator may also decide not to.
Accept ==
  /\ Coordinates /\ slice.bound /\ Running(slice) = {} /\ slice.tree[Len(slice.tree)].role = "reviewer"
  /\ slice' = [slice EXCEPT !.accepted = TRUE] /\ RunStep

-----------------------------------------------------------------------------
(* export *)

\* Mutant: an attempt that names no session is left out.
AttributionOfNamed(rows, tree, own) ==
  LET sessions == {r.session : r \in rows}
      named == {i \in own : tree[i].session # 0}
  IN  own # {} /\ (\A i \in named : tree[i].session \in sessions) /\ sessions \subseteq {tree[i].session : i \in named}

\* attribution: every attempt names a session of its own that the rows hold, and every session is named.
Attribution(rows, tree, own) ==
  LET sessions == {r.session : r \in rows} IN
    /\ own # {} /\ \A i \in own : tree[i].session \in sessions
    /\ \A i, j \in own : tree[i].session = tree[j].session => i = j
    /\ sessions \subseteq {tree[i].session : i \in own}

\* COLLECT and the rest that export copies: the files there are.
Collected(s, readable) ==
  {"state", "ledger", "tree", "requirements"} \cup
  (IF s.contract # "none" THEN {"contract"} ELSE {}) \cup (IF s.artifact # "absent" THEN {"artifact"} ELSE {}) \cup
  (IF s.refusal # "none" THEN {"refusal"} ELSE {}) \cup (IF readable THEN {"events"} ELSE {})

\* The bytes of each.
Contents(s, rows) ==
  [state |-> [bound |-> s.bound, admission |-> s.admission, accepted |-> s.accepted], ledger |-> s.slots, tree |-> s.tree,
   contract |-> IF s.contract = "replaced" THEN "replaced" ELSE "placed", artifact |-> s.artifact,
   requirements |-> s.requirements, refusal |-> s.refusal, events |-> rows]

\* export: the files and a manifest of their digests, the attempts that are this run's own, and
\* what the rows amount to; without a readable session database they are omitted, by name.
Export(s, rows, readable) ==
  [condition |-> s.condition, listed |-> Collected(s, readable), present |-> Collected(s, readable),
   digest |-> Contents(s, rows), content |-> Contents(s, rows),
   own |-> Own(s), inTree |-> Len(s.tree), omitted |-> IF readable THEN {} ELSE {"events"},
   usage |-> IF readable THEN rows ELSE {},
   attribution |-> readable /\ Attribution(rows, s.tree, Own(s)), check |-> s.check]

\* Mutant: what could not be collected counts as preserved.
PreserveAnyway ==
  /\ \/ \E readable \in BOOLEAN : package' = Export(slice, trace, readable)
     \/ UNCHANGED package
  /\ safe' = TRUE

\* preserve: an export that fails is reported and leaves whatever package there was.
Preserve ==
  \/ /\ \E readable \in BOOLEAN : package' = Export(slice, trace, readable)
     /\ safe' = TRUE
  \/ UNCHANGED package /\ safe' = FALSE

\* finalize, once the coordinator has returned, and again; a detached worker may still run.
Finalize ==
  /\ source /\ finalized' = TRUE /\ Preserve
  /\ UNCHANGED <<slice, trace, source, tampering>>

\* adapt_handoff_1: retained totals and no events; the condition is whatever its directory is called.
AdaptHandoff1 ==
  /\ finalized /\ source /\ package = NoPackage
  /\ package' = [Export(slice, trace, FALSE) EXCEPT !.usage = trace, !.omitted = {"events", "requirements"},
                   !.listed = @ \ {"requirements", "refusal"}, !.present = @ \ {"requirements", "refusal"}]
  /\ UNCHANGED <<slice, trace, finalized, safe, source, tampering>>

\* The operator deletes the run's data once finalize says that it may be.
CleanUp ==
  /\ source /\ finalized /\ safe /\ source' = FALSE
  /\ UNCHANGED <<slice, trace, finalized, safe, package, tampering>>

\* An attempt tree in which every attempt has ended, in a session of its own.
Forged(tree) == [i \in DOMAIN tree |-> [tree[i] EXCEPT !.ended = TRUE, !.session = i]]

\* A file of the package is lost or gets other bytes, when only the package is left.
Tamper(name) ==
  /\ ~source /\ tampering < MaxTampering /\ tampering' = tampering + 1 /\ name \in package.present
  /\ LET p == package.content IN
       package' \in {[package EXCEPT !.present = @ \ {name}]} \cup
         CASE name = "state" -> {[package EXCEPT !.content.state = [bound |-> TRUE, admission |-> TRUE, accepted |-> TRUE]]}
           [] name = "tree" -> {[package EXCEPT !.content.tree = Forged(@)]}
           [] name = "events" -> {[package EXCEPT !.content.events = @ \ {r}] : r \in p.events}
           [] name = "artifact" -> {[package EXCEPT !.content.artifact = "sound"]}
           [] name = "requirements" -> {[package EXCEPT !.content.requirements = "weakened"]}
           [] name = "refusal" -> {[package EXCEPT !.content.refusal = "unstated"]}
           [] OTHER -> {}
  /\ UNCHANGED <<slice, trace, finalized, safe, source>>

-----------------------------------------------------------------------------
(* verify: each check's status *)

Altered(p, name) == name \notin p.present \/ p.content[name] # p.digest[name]

\* _check_files
CheckFiles(p) == IF \E name \in p.listed : Altered(p, name) THEN "mismatch" ELSE "ok"

\* _check_launch
LaunchAttempts(p) ==
  IF "tree" \notin p.present THEN "unavailable" ELSE IF Len(p.content.tree) # p.inTree THEN "mismatch" ELSE "ok"
LaunchLifecycle(p) ==
  CASE "tree" \notin p.present -> "absent"
    [] "tree" \in p.present /\ \E i \in p.own : ~p.content.tree[i].ended -> "unavailable"
    [] OTHER -> IF p.own = {} THEN "not-observed" ELSE "ok"

\* _check_ledger_agreement: the slots' directories are the declared ones, and all are classified.
LedgerAgreement(p) ==
  CASE "ledger" \notin p.present -> "unavailable"
    [] OTHER ->
         IF /\ {p.content.ledger[i].dir : i \in DOMAIN p.content.ledger} \ {0} = p.own
            /\ \A i \in DOMAIN p.content.ledger : p.content.ledger[i].classification # "unresolved"
         THEN "ok" ELSE "mismatch"

\* _check_usage, _recompute_price and _recompute_attribution. Totals alone still have a price.
UsageRecompute(p) ==
  IF "events" \notin p.present THEN "unavailable" ELSE IF p.content.events = p.usage THEN "ok" ELSE "mismatch"
UsageCompleteness(p) ==
  IF "events" \notin p.present THEN "absent" ELSE IF Settled(p.content.events) THEN "ok" ELSE "unavailable"
PriceRecompute(p) ==
  CASE "events" \in p.present -> IF p.content.events = p.usage THEN "ok" ELSE "mismatch"
    [] "events" \notin p.present -> IF "events" \in p.omitted /\ p.usage # {} THEN "ok" ELSE "unavailable"

UsageAttribution(p) ==
  CASE "events" \notin p.present \/ "tree" \notin p.present -> "unavailable"
    [] OTHER -> LET again == Attribution(p.content.events, p.content.tree, p.own)
                IN  IF again # p.attribution THEN "mismatch" ELSE IF again THEN "ok" ELSE "unavailable"

\* _check_authority: the contract's bytes are those the state bound, and its admission names them.
AuthorityBinding(p) ==
  CASE "state" \notin p.present -> "unavailable"
    [] "state" \in p.present /\ ~p.content.state.bound -> "ok"
    [] OTHER -> IF "contract" \notin p.present THEN "unavailable"
                ELSE IF p.content.contract = "placed" THEN "ok" ELSE "mismatch"
AuthorityAdmission(p) ==
  IF "state" \notin p.present \/ ~p.content.state.bound THEN "absent"
  ELSE IF p.content.state.admission THEN "ok" ELSE "unavailable"

\* _check_artifact, asked to check again
ArtifactRetained(p) ==
  IF "artifact" \notin p.listed THEN "unavailable" ELSE IF Altered(p, "artifact") THEN "mismatch" ELSE "ok"
ArtifactRecheck(p) ==
  CASE ArtifactRetained(p) # "ok" -> "absent"
    [] ArtifactRetained(p) = "ok" /\ "requirements" \notin p.listed -> "unavailable"
    [] OTHER ->
         IF Altered(p, "requirements") \/ ~Works(p.content.artifact, p.content.requirements) \/ p.check.result = "fail"
         THEN "mismatch" ELSE "ok"

\* _check_refusal
ControlRefusal(p) ==
  CASE "refusal" \notin p.listed -> "not-observed"
    [] OTHER -> IF Altered(p, "refusal") \/ p.content.refusal # "stated" \/ p.own # {} THEN "mismatch" ELSE "ok"

\* _check_reported: how many tasks were accepted is told, and none is fine.
DecisionAcceptance(p) == IF "state" \in p.present THEN "ok" ELSE "absent"

\* verify
Checks(p) ==
  [files |-> CheckFiles(p), attempts |-> LaunchAttempts(p), lifecycle |-> LaunchLifecycle(p), ledger |-> LedgerAgreement(p),
   usage |-> UsageRecompute(p), completeness |-> UsageCompleteness(p), price |-> PriceRecompute(p),
   attribution |-> UsageAttribution(p), binding |-> AuthorityBinding(p), admission |-> AuthorityAdmission(p),
   retained |-> ArtifactRetained(p), recheck |-> ArtifactRecheck(p), refusal |-> ControlRefusal(p),
   acceptance |-> DecisionAcceptance(p)]

\* REQUIRED_OBSERVATIONS
Required(condition) ==
  IF condition = "control" THEN {"files", "attempts", "ledger", "refusal", "binding"}
  ELSE {"files", "attempts", "ledger", "lifecycle", "usage", "completeness", "price", "attribution", "binding",
        "admission", "retained", "recheck", "acceptance"}

\* _condition_outcome
OutcomeReached(p) ==
  CASE p.condition = "control" -> Checks(p).refusal = "ok" /\ p.own = {}
    [] p.condition = "valid" ->
         /\ \A c \in {"admission", "recheck", "binding", "acceptance"} : Checks(p)[c] = "ok"
         /\ Cardinality(p.own) >= 2

\* Mutant: what verify finds no mismatch in qualifies.
QualifiedWithoutMismatch(p) == OutcomeReached(p) /\ \A c \in DOMAIN Checks(p) : Checks(p)[c] # "mismatch"

\* qualify
Qualified(p) == OutcomeReached(p) /\ \A c \in Required(p.condition) : Checks(p)[c] = "ok"

-----------------------------------------------------------------------------

Worker(i) ==
  \/ CallStarts(i) \/ CallFinishes(i) \/ WeakenRequirements(i)
  \/ (\E bytes \in {"sound", "faulty"} : Produce(i, bytes)) \/ (\E session \in {0, i} : WorkerEnds(i, session))

SliceNext ==
  \/ PlaceContract \/ AdmitContract \/ RecordRefusal \/ ReserveSlot \/ ClassifySlot \/ CheckArtifact \/ Accept
  \/ \E role \in Roles : StartWorker(role)
  \/ \E i \in DOMAIN slice.tree : Worker(i)
  \/ Finalize \/ AdaptHandoff1 \/ CleanUp
  \/ \E name \in {"state", "tree", "events", "artifact", "requirements", "refusal", "ledger", "contract"} : Tamper(name)

SliceSpec == SliceInit /\ [][SliceNext]_sliceVars

-----------------------------------------------------------------------------
(* Properties *)

\* A valid package only qualifies if the run was admitted, at least two of its own workers ran and
\* all have ended with no call in flight, and the bytes the run delivered satisfy the requirements
\* it left: no lost, forged or altered file makes up for a run that did not get there.
QualifiedWasDelivered ==
  package # NoPackage /\ package.condition = "valid" /\ Qualified(package) =>
    /\ slice.admission /\ Cardinality(Own(slice)) >= 2 /\ Running(slice) = {} /\ Settled(trace)
    /\ Works(slice.artifact, slice.requirements)

\* Usage is only attributed per attempt if every attempt of the run names its own session, or the
\* package no longer has the files it was exported with.
AttributedIsTrue ==
  package # NoPackage /\ UsageAttribution(package) = "ok" /\ CheckFiles(package) = "ok" =>
    /\ \A i \in package.own : package.digest.tree[i].session = i
    /\ {r.session : r \in package.digest.events} = package.own

\* Data is only deleted when the package has all of it, or says what it lacks: a session database
\* that could not be read, or an attempt that had not ended.
CleanupLosesNothingSilently ==
  [][source /\ ~source' =>
       /\ package # NoPackage
       /\ \/ "events" \in package.omitted
          \/ LaunchLifecycle(package) = "unavailable" \/ LedgerAgreement(package) = "mismatch"
          \/ package.content = Contents(slice, trace)]_sliceVars

\* A valid package only qualifies if the parent accepted the task.
QualifiedWasAccepted ==
  package # NoPackage /\ package.condition = "valid" /\ Qualified(package) => slice.accepted
=============================================================================
