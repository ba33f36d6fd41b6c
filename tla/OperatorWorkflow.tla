--------------------------- MODULE OperatorWorkflow ---------------------------
(***************************************************************************)
(* The operator's path from a goal to a delivery (scripts/pb_workflow.py): *)
(* three tasks in order, requirements, consistency, implementation, and    *)
(* between them the authority one hands to the next: the ledger            *)
(* (pb_ledger.py), the candidate derived from it (_freeze.py), the         *)
(* consistency acceptances (_consistency.py) and the admission             *)
(* (_execution.py, pb_execution.py).                                       *)
(*                                                                         *)
(* `status` derives what is due from state.json, the attempts, their gates *)
(* and the receipts; the other commands are allowed by what it derives.  A *)
(* command writes several files one after the other: each write is a step, *)
(* and the command may be killed between them.  How a launch is supervised *)
(* is LaunchSupervision; why an accepted review is newer than every write  *)
(* of its contract's attempts is TaskAcceptance: here a launch is one step *)
(* to its start and one to its end.                                        *)
(***************************************************************************)
EXTENDS Naturals, Sequences

CONSTANTS
  Content,          \* texts of requirements.md; the one-member candidate of a text is that text
  Seed,             \* the text `start` writes
  NONE,             \* no candidate
  MaxCode,          \* bound on the versions of the rest of the project
  MaxEdits,         \* bound on the edits and losses outside any attempt
  MaxRevision,      \* bound on the requirements' contract revisions
  MaxReceipts,      \* bound on the receipts of decisions
  Ceiling,          \* the launch ceiling the owner authorized
  RepairCycles,     \* the producer attempts a task has beyond its first
  CommandsMayDie    \* may a command be killed between two of its writes?

ASSUME ConstantsAssumption ==
  /\ Seed \in Content /\ NONE \notin Content
  /\ MaxCode \in Nat /\ MaxEdits \in Nat /\ MaxRevision \in Nat /\ MaxReceipts \in Nat
  /\ Ceiling \in Nat /\ RepairCycles \in Nat
  /\ CommandsMayDie \in BOOLEAN

VARIABLES
  project,    \* the project's bytes: requirements.md, and everything else
  edits,      \* how many edits were made, and records lost, outside any attempt
  command,    \* the rest of the command in progress
  revision,   \* state.json: the revision of each task's current_contract; 0 if none is bound
  named,      \* the candidate that contract names; implementation's is its admission's
  prepared,   \* the candidate the next contract file names, if that file is already written
  attempt,    \* state.json: each task's current_attempt, with what its directory holds
  accepted,   \* state.json: each task's acceptance: the reviewing attempt
  ledger,     \* ledger.json: the record of requirements.md
  records,    \* the candidates with a recorded consistency acceptance
  receipts,   \* the receipts of decisions, in the order of observed_at
  launches,   \* the launch ledger: the slots spent
  producers,  \* the launch ledger: the producer attempts of each task
  delivery,   \* the delivery directory
  judged      \* history: the texts whose review was accepted, per task

authorityVars == <<ledger, records>>
taskVars == <<revision, named, prepared, attempt, accepted>>
launchVars == <<launches, producers>>
vars == <<project, edits, command, taskVars, authorityVars, receipts, launchVars, delivery, judged>>

-----------------------------------------------------------------------------
(* Values *)

Task == {"requirements", "consistency", "implementation"}
Role == {"producer", "reviewer"}
Part == {"req", "code"}
Project == [req : Content, code : Nat]

\* "lost": the attempt will have no terminal record.
Outcome == {"running", "completed", "failed", "lost"}
\* The scope is compared of every attempt, and asked only of a completed one.
Attempt == [id : Nat, role : Role, baseline : Project, outcome : Outcome,
            scope : SUBSET Part, gated : BOOLEAN]
NoAttempt ==
  [id |-> 0, role |-> "reviewer", baseline |-> [req |-> Seed, code |-> 0],
   outcome |-> "failed", scope |-> {}, gated |-> FALSE]

\* What a command in progress still has to do; "implementation" etc. in do: bind that contract.
Idle == [do |-> "idle", task |-> "requirements"]
Command ==
  [do : {"idle", "bind", "fix", "revised", "sealAccepted", "sealBlocked"}, task : Task]

\* "owner" and "repair" are decisions on a gate; a resolution names the decision it answers.  An
\* adjudication to accept decides nothing afterwards and is left out.
Receipt == [what : {"owner", "repair", "resolution", "revision"}, gate : Nat, of : Nat]

Delivery == {"absent", "incomplete", "accepted", "blocked"}

-----------------------------------------------------------------------------

Init ==
  /\ project = [req |-> Seed, code |-> 0]
  /\ edits = 0
  /\ command = Idle
  /\ revision = [t \in Task |-> 0]
  /\ named = [t \in Task |-> NONE]
  /\ prepared = [t \in Task |-> NONE]
  /\ attempt = [t \in Task |-> NoAttempt]
  /\ accepted = [t \in Task |-> NoAttempt]
  /\ ledger = [content |-> Seed, gate |-> 0]
  /\ records = {}
  /\ receipts = << >>
  /\ launches = 0
  /\ producers = [t \in Task |-> 0]
  /\ delivery = "absent"
  /\ judged = [t \in Task |-> {}]

-----------------------------------------------------------------------------
(* What the durable records say *)

Bound(t) == revision[t] > 0
Accepted(t) == accepted[t].id # 0
Admitted == named["implementation"] # NONE

\* current_candidate: refused unless requirements.md is still the text that was recorded.
Derivable == ledger.gate # 0 /\ project.req = ledger.content

\* freeze_identity of it: what was recorded, not what is on disk.
Candidate == ledger.content

Recorded == Accepted("requirements") /\ ledger.gate = accepted["requirements"].id

\* Mutant: an accepted consistency task is not looked at again.
StaleUnlessAccepted ==
  Bound("consistency") /\ ~Admitted /\ ~Accepted("consistency") /\ named["consistency"] # Candidate

\* The consistency contract names a candidate that is no longer the current one.
Stale == Bound("consistency") /\ ~Admitted /\ named["consistency"] # Candidate

Challenged == Accepted("consistency") /\ ~Stale /\ named["consistency"] \in records

\* The first stage that is not done.
Due ==
  IF ~Recorded THEN "requirements"
  ELSE IF ~Challenged THEN "consistency"
  ELSE IF ~Accepted("implementation") THEN "implementation" ELSE "delivery"

\* status compares the candidate a consistency contract names with the current one, and fails
\* when there is none.
StatusFails == Recorded /\ Bound("consistency") /\ ~Admitted /\ ~Derivable

\* The integrity gate: a completed attempt that stayed within what its role and contract allow.
Allowed(t, role) ==
  IF role = "reviewer" THEN {} ELSE IF t = "requirements" THEN {"req"} ELSE Part
Clean(t) ==
  /\ attempt[t].gated /\ attempt[t].outcome = "completed"
  /\ attempt[t].scope \subseteq Allowed(t, attempt[t].role)

Incomplete(t) == attempt[t].id # 0 /\ attempt[t].outcome \in {"running", "lost"}
Running == \E t \in Task : attempt[t].id # 0 /\ attempt[t].outcome = "running"

\* pending_owner: the latest decision on the gate is the owner's to take, and nobody answered it.
PendingOwner(g) ==
  \E i \in DOMAIN receipts :
    /\ receipts[i].what = "owner" /\ receipts[i].gate = g
    /\ \A j \in DOMAIN receipts :
         /\ j > i => ~(receipts[j].what \in {"owner", "repair"} /\ receipts[j].gate = g)
         /\ ~(receipts[j].what = "resolution" /\ receipts[j].of = i)

\* Mutant: only a repair that is the very last receipt is still to be carried out.
PendingRepairIfLast(g) ==
  \E i \in DOMAIN receipts :
    /\ receipts[i].what = "repair" /\ receipts[i].gate = g
    /\ i = Len(receipts)

\* pending_repair: a repair was asked for on the gate, and the requirements not revised since.
PendingRepair(g) ==
  \E i \in DOMAIN receipts :
    /\ receipts[i].what = "repair" /\ receipts[i].gate = g
    /\ \A j \in DOMAIN receipts : j > i => receipts[j].what # "revision"

-----------------------------------------------------------------------------
(* What status proposes *)

AtStage(t) == Due = t /\ ~StatusFails

ProposesBind(t) == AtStage(t) /\ (~Bound(t) \/ (t = "consistency" /\ Stale))

ProposesRecord(t) == AtStage(t) /\ ~ProposesBind(t) /\ Accepted(t)

\* A contract is bound and its review not yet accepted.
Open(t) == AtStage(t) /\ ~ProposesBind(t) /\ ~Accepted(t)

FirstRole(t) == IF t = "consistency" THEN "reviewer" ELSE "producer"

ProposesLaunch(t, role) ==
  /\ Open(t)
  /\ \/ attempt[t].id = 0 /\ role = FirstRole(t)
     \/ Clean(t) /\ attempt[t].role = "producer" /\ role = "reviewer"

ProposesGate(t) ==
  Open(t) /\ attempt[t].id # 0 /\ ~Incomplete(t) /\ ~attempt[t].gated

Reviewed(t) == Open(t) /\ Clean(t) /\ attempt[t].role = "reviewer"

AsksOwner(t) == Reviewed(t) /\ PendingOwner(attempt[t].id)
AsksRevision(t) == Reviewed(t) /\ ~PendingOwner(attempt[t].id) /\ PendingRepair(attempt[t].id)

Adjudicates(t) == Reviewed(t) /\ ~PendingOwner(attempt[t].id) /\ ~PendingRepair(attempt[t].id)

\* Between commands, and while no launch is supervised: when one is, status says only that.
Free == command = Idle /\ ~Running

-----------------------------------------------------------------------------
(* Contracts, admission and the records of authority *)

\* A new contract takes the task over: its attempt and its acceptance are forgotten.
Rebind(t, r, candidate) ==
  /\ revision' = [revision EXCEPT ![t] = r]
  /\ named' = [named EXCEPT ![t] = candidate]
  /\ prepared' = [prepared EXCEPT ![t] = NONE]
  /\ attempt' = [attempt EXCEPT ![t] = NoAttempt]
  /\ accepted' = [accepted EXCEPT ![t] = NoAttempt]

BindRequirements ==
  /\ Free /\ ProposesBind("requirements")
  /\ Rebind("requirements", 1, NONE)
  /\ UNCHANGED <<project, edits, command, authorityVars, receipts, launchVars, delivery, judged>>

\* The candidate that the contract file a bind or an admission would use already names.
FileNames(t) == IF t = "implementation" /\ Admitted THEN named[t] ELSE prepared[t]

\* contract(): the candidate must be derivable; a file that is there is used, never replaced.
MayPrepare(t) == Derivable /\ FileNames(t) \in {NONE, Candidate}

\* continue when a contract is to be bound, and `admit`, which asks nothing of status: the contract
\* file first, then the binding.
PrepareContract(t) ==
  /\ \/ t = "consistency" /\ Free /\ ProposesBind(t)
     \/ t = "implementation" /\ command = Idle
  /\ MayPrepare(t)
  /\ prepared' = [prepared EXCEPT ![t] = Candidate]
  /\ command' = [do |-> "bind", task |-> t]
  /\ UNCHANGED <<project, edits, revision, named, attempt, accepted, authorityVars, receipts,
                 launchVars, delivery, judged>>

BindConsistency ==
  /\ command = [do |-> "bind", task |-> "consistency"]
  /\ IF Incomplete("consistency")
     THEN UNCHANGED taskVars
     ELSE Rebind("consistency", revision["consistency"] + 1, prepared["consistency"])
  /\ command' = Idle
  /\ UNCHANGED <<project, edits, authorityVars, receipts, launchVars, delivery, judged>>

\* Mutant: a candidate without a recorded consistency acceptance is authorized.
AuthorizesUnchallenged(candidate) == Derivable /\ candidate = Candidate

\* authorize: the candidate is the current one and was challenged as a whole.
Authorizes(candidate) == Derivable /\ candidate = Candidate /\ candidate \in records

\* Mutant: the task is cleared for the new contract before the contract is authorized.
AdmitClearing ==
  /\ command = [do |-> "bind", task |-> "implementation"]
  /\ IF Authorizes(prepared["implementation"]) /\ ~Incomplete("implementation")
     THEN Rebind("implementation", 1, prepared["implementation"])
     ELSE Rebind("implementation", 0, NONE)
  /\ command' = Idle
  /\ UNCHANGED <<project, edits, authorityVars, receipts, launchVars, delivery, judged>>

\* pb_execution admit: authorize, then bind and admit in one write; a refusal binds nothing.
Admit ==
  /\ command = [do |-> "bind", task |-> "implementation"]
  /\ IF Authorizes(prepared["implementation"]) /\ ~Incomplete("implementation")
     THEN Rebind("implementation", 1, prepared["implementation"])
     ELSE UNCHANGED taskVars
  /\ command' = Idle
  /\ UNCHANGED <<project, edits, authorityVars, receipts, launchVars, delivery, judged>>

\* requirements.md must still be what its reviewer saw; pb_ledger record then takes its bytes.
RecordRequirements ==
  /\ Free /\ ProposesRecord("requirements")
  /\ project.req = accepted["requirements"].baseline.req
  /\ ledger' = [content |-> project.req, gate |-> accepted["requirements"].id]
  /\ UNCHANGED <<project, edits, command, taskVars, records, receipts, launchVars, delivery, judged>>

RecordConsistency ==
  /\ Free /\ ProposesRecord("consistency")
  /\ records' = records \cup {named["consistency"]}
  /\ UNCHANGED <<project, edits, command, taskVars, ledger, receipts, launchVars, delivery, judged>>

-----------------------------------------------------------------------------
(* Attempts *)

\* LaunchLedger.admit, without the spend.
Admits(t, role) ==
  /\ launches < Ceiling
  /\ role = "producer" => producers[t] < 1 + RepairCycles

\* A slot is spent; the executor is reached, or it is not.
StartLaunch(t, role) ==
  /\ Admits(t, role)
  /\ launches' = launches + 1
  /\ \/ UNCHANGED <<attempt, producers>>
     \/ /\ attempt' = [attempt EXCEPT ![t] =
             [id |-> launches', role |-> role, baseline |-> project, outcome |-> "running",
              scope |-> {}, gated |-> FALSE]]
        /\ producers' = [producers EXCEPT ![t] = IF role = "producer" THEN @ + 1 ELSE @]

LaunchAttempt(t) ==
  /\ Free
  /\ \E role \in Role : ProposesLaunch(t, role) /\ StartLaunch(t, role)
  /\ UNCHANGED <<project, edits, command, revision, named, prepared, accepted, authorityVars,
                 receipts, delivery, judged>>

ChangedSince(baseline, now) == {p \in Part : now[p] # baseline[p]}

\* The executor may change the project, whatever its role; then it ends and leaves its records.
EndAttempt(t) ==
  /\ attempt[t].id # 0 /\ attempt[t].outcome = "running"
  /\ \/ UNCHANGED project
     \/ \E text \in Content : project' = [project EXCEPT !.req = text]
     \/ project.code < MaxCode /\ project' = [project EXCEPT !.code = @ + 1]
  /\ \/ attempt' = [attempt EXCEPT ![t].outcome = "completed",
                                     ![t].scope = ChangedSince(attempt[t].baseline, project')]
     \/ \E outcome \in {"failed", "lost"} : attempt' = [attempt EXCEPT ![t].outcome = outcome]
  /\ UNCHANGED <<edits, command, revision, named, prepared, accepted, authorityVars, receipts,
                 launchVars, delivery, judged>>

GateAttempt(t) ==
  /\ Free /\ ProposesGate(t)
  /\ attempt' = [attempt EXCEPT ![t].gated = TRUE]
  /\ UNCHANGED <<project, edits, command, revision, named, prepared, accepted, authorityVars,
                 receipts, launchVars, delivery, judged>>

\* The owner, or the coordinator, changes the project between commands.
Edit ==
  /\ command = Idle /\ edits < MaxEdits
  /\ edits' = edits + 1
  /\ \/ \E text \in Content \ {project.req} : project' = [project EXCEPT !.req = text]
     \/ project.code < MaxCode /\ project' = [project EXCEPT !.code = @ + 1]
  /\ UNCHANGED <<command, taskVars, authorityVars, receipts, launchVars, delivery, judged>>

\* A consistency record can be made again from its acceptance: one may be gone.
LoseRecord ==
  /\ command = Idle /\ edits < MaxEdits
  /\ edits' = edits + 1
  /\ \E candidate \in records : records' = records \ {candidate}
  /\ UNCHANGED <<project, command, taskVars, ledger, receipts, launchVars, delivery, judged>>

-----------------------------------------------------------------------------
(* Decisions *)

\* The project's own check: it may write to the project, and what fails it changes nothing more.
CheckProject ==
  \/ UNCHANGED project
  \/ project.code < MaxCode /\ project' = [project EXCEPT !.code = @ + 1]

\* Mutant: the project is not compared again after the check.
ReviewWasCurrent(a) == project = a.baseline

\* assert_review_current, before the project's check and after it.
ReviewIsCurrent(a) == project = a.baseline /\ project' = a.baseline

DecideAccept(t) ==
  /\ Free /\ Adjudicates(t) /\ project = attempt[t].baseline
  /\ IF t = "implementation" THEN CheckProject ELSE UNCHANGED project
  /\ IF ReviewIsCurrent(attempt[t])
     THEN /\ accepted' = [accepted EXCEPT ![t] = attempt[t]]
          /\ attempt' = [attempt EXCEPT ![t] = NoAttempt]
          /\ judged' = [judged EXCEPT ![t] = @ \cup {attempt[t].baseline.req}]
     ELSE UNCHANGED <<accepted, attempt, judged>>
  /\ UNCHANGED <<edits, command, revision, named, prepared, authorityVars, receipts, launchVars,
                 delivery>>

AddReceipt(what, gate, of) ==
  /\ Len(receipts) < MaxReceipts
  /\ receipts' = Append(receipts, [what |-> what, gate |-> gate, of |-> of])

\* The receipt first, then the launch of the repair; of consistency there is none to launch.
DecideRepair(t) ==
  /\ Free /\ Adjudicates(t)
  /\ AddReceipt("repair", attempt[t].id, 0)
  /\ command' = IF t = "consistency" THEN Idle ELSE [do |-> "fix", task |-> t]
  /\ UNCHANGED <<project, edits, taskVars, authorityVars, launchVars, delivery, judged>>

LaunchRepair(t) ==
  /\ command = [do |-> "fix", task |-> t]
  /\ StartLaunch(t, "producer")
  /\ command' = Idle
  /\ UNCHANGED <<project, edits, revision, named, prepared, accepted, authorityVars, receipts,
                 delivery, judged>>

\* The launch is refused: by the launch ledger, by what the run has spent, or by a preflight.
RepairRefused(t) ==
  /\ command = [do |-> "fix", task |-> t]
  /\ command' = Idle
  /\ UNCHANGED <<project, edits, taskVars, authorityVars, receipts, launchVars, delivery, judged>>

DecideOwner(t) ==
  /\ Free /\ Adjudicates(t)
  /\ AddReceipt("owner", attempt[t].id, 0)
  /\ UNCHANGED <<project, edits, command, taskVars, authorityVars, launchVars, delivery, judged>>

\* resolve-owner answers whatever decision status names, a repair too.
ResolveOwner(t) ==
  /\ Free
  /\ \E i \in DOMAIN receipts :
       /\ receipts[i].gate = attempt[t].id
       /\ \A j \in DOMAIN receipts : j > i => receipts[j].what # receipts[i].what
                                              \/ receipts[j].gate # receipts[i].gate
       /\ \/ AsksOwner(t) /\ receipts[i].what = "owner"
          \/ AsksRevision(t) /\ receipts[i].what = "repair"
       /\ AddReceipt("resolution", 0, i)
  /\ UNCHANGED <<project, edits, command, taskVars, authorityVars, launchVars, delivery, judged>>

\* What revise asks before it writes anything.  While a launch is supervised, status names no owner.
MayRevise ==
  /\ ~Admitted
  /\ Running \/ (~StatusFails /\ \A t \in Task : ~AsksOwner(t))
  /\ ~Incomplete("requirements")

\* revise: the contract is bound, then the receipt written.
Revise ==
  /\ command = Idle /\ MayRevise
  /\ revision["requirements"] < MaxRevision /\ Len(receipts) < MaxReceipts
  /\ Rebind("requirements", revision["requirements"] + 1, NONE)
  /\ command' = [do |-> "revised", task |-> "requirements"]
  /\ UNCHANGED <<project, edits, authorityVars, receipts, launchVars, delivery, judged>>

RecordRevision ==
  /\ command.do = "revised"
  /\ AddReceipt("revision", 0, 0)
  /\ command' = Idle
  /\ UNCHANGED <<project, edits, taskVars, authorityVars, launchVars, delivery, judged>>

-----------------------------------------------------------------------------
(* Delivery *)

\* finish: the accepted review must be current before the project's check and after it.
FinishAccepted ==
  /\ Free /\ Due = "delivery" /\ ~StatusFails /\ delivery = "absent"
  /\ project = accepted["implementation"].baseline
  /\ CheckProject
  /\ IF ReviewIsCurrent(accepted["implementation"])
     THEN /\ delivery' = "incomplete"
          /\ command' = [do |-> "sealAccepted", task |-> "implementation"]
     ELSE UNCHANGED <<delivery, command>>
  /\ UNCHANGED <<edits, taskVars, authorityVars, receipts, launchVars, judged>>

\* finish --outcome blocked asks nothing of status.
FinishBlocked ==
  /\ command = Idle /\ delivery = "absent"
  /\ delivery' = "incomplete"
  /\ command' = [do |-> "sealBlocked", task |-> "implementation"]
  /\ UNCHANGED <<project, edits, taskVars, authorityVars, receipts, launchVars, judged>>

\* The manifest is written last.
Seal ==
  /\ \/ command.do = "sealAccepted" /\ delivery' = "accepted"
     \/ command.do = "sealBlocked" /\ delivery' = "blocked"
  /\ command' = Idle
  /\ UNCHANGED <<project, edits, taskVars, authorityVars, receipts, launchVars, judged>>

\* The operator inspects what an interrupted seal left, and removes it.
RemoveIncomplete ==
  /\ command = Idle /\ delivery = "incomplete"
  /\ delivery' = "absent"
  /\ UNCHANGED <<project, edits, command, taskVars, authorityVars, receipts, launchVars, judged>>

-----------------------------------------------------------------------------

Die ==
  /\ CommandsMayDie /\ command # Idle
  /\ command' = Idle
  /\ UNCHANGED <<project, edits, taskVars, authorityVars, receipts, launchVars, delivery, judged>>

TaskStep(t) ==
  \/ PrepareContract(t) \/ LaunchAttempt(t) \/ EndAttempt(t) \/ GateAttempt(t)
  \/ DecideAccept(t) \/ DecideRepair(t) \/ LaunchRepair(t) \/ RepairRefused(t)
  \/ DecideOwner(t) \/ ResolveOwner(t)

Next ==
  \/ \E t \in Task : TaskStep(t)
  \/ BindRequirements \/ BindConsistency \/ Admit \/ RecordRequirements \/ RecordConsistency
  \/ Revise \/ RecordRevision \/ Edit \/ LoseRecord
  \/ FinishAccepted \/ FinishBlocked \/ Seal \/ RemoveIncomplete \/ Die

Spec == Init /\ [][Next]_vars

-----------------------------------------------------------------------------
(* Type invariant *)

\* Every file and record of a run holds what the commands put there.
TypeOK ==
  /\ project \in Project /\ edits \in Nat
  /\ command \in Command
  /\ revision \in [Task -> Nat]
  /\ named \in [Task -> Content \cup {NONE}]
  /\ prepared \in [Task -> Content \cup {NONE}]
  /\ attempt \in [Task -> Attempt]
  /\ accepted \in [Task -> Attempt]
  /\ ledger \in [content : Content, gate : Nat]
  /\ records \subseteq Content
  /\ receipts \in Seq(Receipt)
  /\ launches \in Nat /\ producers \in [Task -> Nat]
  /\ delivery \in Delivery
  /\ judged \in [Task -> SUBSET Content]

-----------------------------------------------------------------------------
(* Safety *)

\* "The ledger records acceptance, it does not confer it" (pb_ledger.py): implementation is admitted only under a text that an accepted
\* requirements review and an accepted consistency review both had before them.
AuthorityWasEarned ==
  Admitted => named["implementation"] \in judged["requirements"] \cap judged["consistency"]

\* Once admitted, the authority of the implementation is fixed, whatever is revised, recorded or
\* admitted again.
AdmissionIsFixed == [][Admitted => named'["implementation"] = named["implementation"]]_vars

\* A task is accepted on the bytes its reviewer saw, the project's own check included.
AcceptedAsReviewed ==
  [][\A t \in Task :
       accepted'[t] # accepted[t] /\ accepted'[t].id # 0 => project' = accepted'[t].baseline]_vars

\* What is sealed as accepted is, byte for byte, what the accepted implementation review saw.
DeliveredAsReviewed ==
  [][delivery' = "accepted" /\ delivery # "accepted" =>
       Accepted("implementation") /\ project = accepted["implementation"].baseline]_vars

\* No review is accepted over the coordinator's own decision on it: while the owner was asked and
\* has not answered, or a repair was asked for and no revision has followed.
DecisionsAreHonoured ==
  [][\A t \in Task, i \in DOMAIN receipts :
       /\ accepted'[t] # accepted[t] /\ accepted'[t].id # 0
       /\ receipts[i].gate = accepted'[t].id /\ receipts[i].what \in {"owner", "repair"}
       => \E j \in DOMAIN receipts :
            /\ j > i
            /\ IF receipts[i].what = "owner"
               THEN receipts[j].what = "resolution" /\ receipts[j].of = i
               ELSE receipts[j].what = "revision"]_vars

\* When status proposes to bind the implementation, its authorization will not be refused: what
\* status derives and what admission asks for agree.
ProposedBindIsAuthorized ==
  ProposesBind("implementation") /\ Derivable => Authorizes(Candidate)

\* "The next action a resuming coordinator was told to take" can succeed: when status asks for
\* a revision, revise is allowed.
ProposedReviseIsAllowed ==
  \A t \in Task : command = Idle /\ AsksRevision(t) => MayRevise

\* And when status proposes to bind a contract of the current candidate, its file can be written.
ProposedBindIsAllowed ==
  \A t \in {"consistency", "implementation"} :
    command = Idle /\ ProposesBind(t) /\ Derivable => MayPrepare(t)

-----------------------------------------------------------------------------
(* The invariant behind the properties *)

\* Until the implementation is admitted, whatever was recorded had been reviewed; an `admit` run
\* again can only take the contract file that is there.
AuthorityInv ==
  /\ Accepted("requirements") =>
       accepted["requirements"].baseline.req \in judged["requirements"]
  /\ ledger.gate # 0 => ledger.content \in judged["requirements"]
  /\ ~Admitted => /\ records \subseteq judged["consistency"]
                  /\ Accepted("consistency") => named["consistency"] \in judged["consistency"]
  /\ Admitted /\ command = [do |-> "bind", task |-> "implementation"] =>
       prepared["implementation"] = named["implementation"]
  /\ AuthorityWasEarned

\* A task is accepted under a contract, the implementation's contract is its admission, and a
\* contract that must name a candidate names one.
BindingInv ==
  /\ \A t \in Task : Accepted(t) => Bound(t)
  /\ Admitted => Bound("implementation")
  /\ Bound("consistency") => named["consistency"] # NONE
  /\ command.do = "bind" => prepared[command.task] # NONE

\* Nothing writes to the project between finish's last comparison and its manifest.
SealInv ==
  command.do = "sealAccepted" =>
    ~Running /\ Accepted("implementation") /\ project = accepted["implementation"].baseline

\* Nothing is decided on a gate after its owner was asked, until the owner answers.
DecisionInv ==
  /\ \A j \in DOMAIN receipts : receipts[j].what = "resolution" => receipts[j].of < j
  /\ \A i, k \in DOMAIN receipts :
       /\ i < k
       /\ receipts[i].what = "owner" /\ receipts[k].what \in {"owner", "repair"}
       /\ receipts[i].gate = receipts[k].gate
       => \E j \in DOMAIN receipts : receipts[j].what = "resolution" /\ receipts[j].of = i

\* What every step keeps, and the properties above rest on: recorded texts were reviewed, accepted
\* tasks are bound, a seal in progress is of reviewed bytes, open questions stay open.
WorkflowInv == AuthorityInv /\ BindingInv /\ SealInv /\ DecisionInv

=============================================================================
