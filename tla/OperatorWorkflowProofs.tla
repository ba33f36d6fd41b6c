----------------------- MODULE OperatorWorkflowProofs -----------------------
(***************************************************************************)
(* Proofs about OperatorWorkflow, for any texts and any bounds: its types,  *)
(* the inductive invariant WorkflowInv, and from it that authority is       *)
(* earned and fixed, that what is accepted and delivered is what was        *)
(* reviewed, and that no review is accepted over a decision on it.          *)
(***************************************************************************)
EXTENDS OperatorWorkflow, TLAPS

-----------------------------------------------------------------------------
(* Types *)

LEMMA NoAttemptTyped == NoAttempt \in Attempt /\ NoAttempt.id = 0
BY ConstantsAssumption DEF NoAttempt, Attempt, Project, Role, Outcome, Part

LEMMA TypeOKInit == Init => TypeOK
<1> SUFFICES ASSUME Init PROVE TypeOK
  OBVIOUS
<1>1. attempt \in [Task -> Attempt] /\ accepted \in [Task -> Attempt]
  BY NoAttemptTyped DEF Init
<1>2. receipts \in Seq(Receipt)
  BY DEF Init
<1>3. command \in Command
  BY DEF Init, Idle, Command, Task
<1> QED
  BY <1>1, <1>2, <1>3, ConstantsAssumption DEF Init, TypeOK, Project, Delivery

\* A binding is typed when its revision and candidate are.
LEMMA RebindTyped ==
  ASSUME TypeOK, NEW t \in Task, NEW r \in Nat, NEW c \in Content \cup {NONE}, Rebind(t, r, c)
  PROVE  /\ revision' \in [Task -> Nat]
         /\ named' \in [Task -> Content \cup {NONE}]
         /\ prepared' \in [Task -> Content \cup {NONE}]
         /\ attempt' \in [Task -> Attempt]
         /\ accepted' \in [Task -> Attempt]
BY NoAttemptTyped DEF TypeOK, Rebind

\* So are a launch, whether or not the executor was reached, and a receipt.
LEMMA LaunchTyped ==
  ASSUME TypeOK, NEW t \in Task, NEW role \in Role, StartLaunch(t, role)
  PROVE  launches' \in Nat /\ producers' \in [Task -> Nat] /\ attempt' \in [Task -> Attempt]
<1>1. launches' \in Nat
  BY DEF TypeOK, StartLaunch
<1>2. producers' \in [Task -> Nat]
  BY DEF TypeOK, StartLaunch
<1>3. [id |-> launches', role |-> role, baseline |-> project, outcome |-> "running",
       scope |-> {}, gated |-> FALSE] \in Attempt
  BY <1>1 DEF TypeOK, Attempt, Outcome
<1>4. attempt' \in [Task -> Attempt]
  BY <1>3 DEF TypeOK, StartLaunch
<1> QED
  BY <1>1, <1>2, <1>4

LEMMA ReceiptTyped ==
  ASSUME TypeOK, NEW what \in {"owner", "repair", "resolution", "revision"},
         NEW gate \in Nat, NEW of \in Nat, AddReceipt(what, gate, of)
  PROVE  receipts' \in Seq(Receipt)
<1>1. [what |-> what, gate |-> gate, of |-> of] \in Receipt
  BY DEF Receipt
<1> QED
  BY <1>1 DEF TypeOK, AddReceipt

LEMMA AttemptIdTyped ==
  ASSUME TypeOK, NEW t \in Task
  PROVE  attempt[t] \in Attempt /\ attempt[t].id \in Nat
BY DEF TypeOK, Attempt

\* The project's check leaves a project.
LEMMA CheckTyped ==
  ASSUME project \in Project, CheckProject
  PROVE  project' \in Project
BY DEF CheckProject, Project

\* The steps on attempts.
LEMMA TypeOKAttempts ==
  ASSUME TypeOK, NEW t \in Task, LaunchAttempt(t) \/ EndAttempt(t) \/ GateAttempt(t) \/ LaunchRepair(t)
  PROVE  TypeOK'
<1>1. CASE LaunchAttempt(t)
  BY <1>1, LaunchTyped DEF LaunchAttempt, TypeOK, authorityVars
<1>2. CASE EndAttempt(t)
  <2>1. project' \in Project
    BY <1>2 DEF EndAttempt, TypeOK, Project
  <2>2. ChangedSince(attempt[t].baseline, project') \subseteq Part
    BY DEF ChangedSince
  <2>3. \/ /\ attempt' = [attempt EXCEPT ![t] = [@ EXCEPT !.outcome = "completed",
                            !.scope = ChangedSince(attempt[t].baseline, project')]]
        \/ \E outcome \in Outcome : attempt' = [attempt EXCEPT ![t] = [@ EXCEPT !.outcome = outcome]]
    BY <1>2 DEF EndAttempt, Outcome
  <2>4. attempt' \in [Task -> Attempt]
    <3>1. attempt \in [Task -> Attempt]
      BY DEF TypeOK
    <3>2. [attempt[t] EXCEPT !.outcome = "completed",
             !.scope = ChangedSince(attempt[t].baseline, project')] \in Attempt
      BY <2>2, AttemptIdTyped DEF Attempt, Outcome
    <3>3. \A outcome \in Outcome : [attempt[t] EXCEPT !.outcome = outcome] \in Attempt
      BY AttemptIdTyped DEF Attempt
    <3> QED
      BY <2>3, <3>1, <3>2, <3>3
  <2> QED
    BY <1>2, <2>1, <2>4 DEF EndAttempt, TypeOK, authorityVars, launchVars
<1>3. CASE GateAttempt(t)
  <2>1. [attempt[t] EXCEPT !.gated = TRUE] \in Attempt
    BY AttemptIdTyped DEF Attempt
  <2>2. attempt' \in [Task -> Attempt]
    BY <1>3, <2>1 DEF GateAttempt, TypeOK
  <2> QED
    BY <1>3, <2>2 DEF GateAttempt, TypeOK, authorityVars, launchVars
<1>4. CASE LaunchRepair(t)
  BY <1>4, LaunchTyped DEF LaunchRepair, TypeOK, authorityVars, Role, Idle, Command, Task
<1> QED
  BY <1>1, <1>2, <1>3, <1>4

\* The decisions.
LEMMA TypeOKDecisions ==
  ASSUME TypeOK, NEW t \in Task,
         DecideAccept(t) \/ DecideRepair(t) \/ RepairRefused(t) \/ DecideOwner(t) \/ ResolveOwner(t)
  PROVE  TypeOK'
<1>1. CASE DecideAccept(t)
  <2>1. project' \in Project
    BY <1>1, CheckTyped DEF DecideAccept, TypeOK
  <2>2. attempt[t].baseline.req \in Content
    BY AttemptIdTyped DEF Attempt, Project
  <2>3. CASE ReviewIsCurrent(attempt[t])
    <3>1. /\ accepted' = [accepted EXCEPT ![t] = attempt[t]]
          /\ attempt' = [attempt EXCEPT ![t] = NoAttempt]
          /\ judged' = [judged EXCEPT ![t] = judged[t] \cup {attempt[t].baseline.req}]
      BY <1>1, <2>3 DEF DecideAccept
    <3>2. /\ accepted' \in [Task -> Attempt] /\ attempt' \in [Task -> Attempt]
          /\ judged' \in [Task -> SUBSET Content]
      BY <2>2, <3>1, AttemptIdTyped, NoAttemptTyped DEF TypeOK
    <3> QED
      BY <1>1, <2>1, <3>2 DEF DecideAccept, TypeOK, authorityVars, launchVars
  <2>4. CASE ~ReviewIsCurrent(attempt[t])
    BY <1>1, <2>1, <2>4 DEF DecideAccept, TypeOK, authorityVars, launchVars
  <2> QED
    BY <2>3, <2>4
<1>2. CASE DecideRepair(t)
  <2>1. command' \in Command
    BY <1>2 DEF DecideRepair, Command, Idle, Task
  <2>2. receipts' \in Seq(Receipt)
    BY <1>2, ReceiptTyped, AttemptIdTyped DEF DecideRepair
  <2> QED
    BY <1>2, <2>1, <2>2 DEF DecideRepair, TypeOK, taskVars, authorityVars, launchVars
<1>3. CASE RepairRefused(t)
  BY <1>3 DEF RepairRefused, TypeOK, taskVars, authorityVars, launchVars, Idle, Command, Task
<1>4. CASE DecideOwner(t)
  <2>1. receipts' \in Seq(Receipt)
    BY <1>4, ReceiptTyped, AttemptIdTyped DEF DecideOwner
  <2> QED
    BY <1>4, <2>1 DEF DecideOwner, TypeOK, taskVars, authorityVars, launchVars
<1>5. CASE ResolveOwner(t)
  <2>1. PICK i \in DOMAIN receipts : AddReceipt("resolution", 0, i)
    BY <1>5 DEF ResolveOwner
  <2>2. i \in Nat
    BY DEF TypeOK
  <2>3. receipts' \in Seq(Receipt)
    BY <2>1, <2>2, ReceiptTyped
  <2> QED
    BY <1>5, <2>3 DEF ResolveOwner, TypeOK, taskVars, authorityVars, launchVars
<1> QED
  BY <1>1, <1>2, <1>3, <1>4, <1>5

\* Contracts, admission, records and revisions.
LEMMA TypeOKAuthority ==
  ASSUME TypeOK, BindingInv,
         \/ BindRequirements \/ \E t \in Task : PrepareContract(t)
         \/ BindConsistency \/ Admit \/ RecordRequirements \/ RecordConsistency
         \/ Revise \/ RecordRevision
  PROVE  TypeOK'
<1>1. CASE BindRequirements
  BY <1>1, RebindTyped DEF BindRequirements, TypeOK, authorityVars, launchVars, Task
<1>2. ASSUME NEW t \in Task, PrepareContract(t)
      PROVE  TypeOK'
  BY <1>2 DEF PrepareContract, TypeOK, authorityVars, launchVars, Command, Candidate
<1>3. CASE BindConsistency
  <2>1. CASE UNCHANGED taskVars
    BY <1>3, <2>1 DEF BindConsistency, TypeOK, taskVars, authorityVars, launchVars, Idle, Command, Task
  <2>2. CASE Rebind("consistency", revision["consistency"] + 1, prepared["consistency"])
    <3>1. /\ revision["consistency"] + 1 \in Nat /\ prepared["consistency"] \in Content \cup {NONE}
          /\ "consistency" \in Task
      BY DEF TypeOK, Task
    <3> QED
      BY <1>3, <2>2, <3>1, RebindTyped
      DEF BindConsistency, TypeOK, authorityVars, launchVars, Idle, Command, Task
  <2> QED
    BY <1>3, <2>1, <2>2 DEF BindConsistency
<1>4. CASE Admit
  <2>1. CASE UNCHANGED taskVars
    BY <1>4, <2>1 DEF Admit, TypeOK, taskVars, authorityVars, launchVars, Idle, Command, Task
  <2>2. CASE Rebind("implementation", 1, prepared["implementation"])
    <3>1. prepared["implementation"] \in Content \cup {NONE} /\ "implementation" \in Task
      BY DEF TypeOK, Task
    <3> QED
      BY <1>4, <2>2, <3>1, RebindTyped
      DEF Admit, TypeOK, authorityVars, launchVars, Idle, Command, Task
  <2> QED
    BY <1>4, <2>1, <2>2 DEF Admit
<1>5. CASE RecordRequirements
  <2>1. accepted["requirements"].id \in Nat /\ project.req \in Content
    BY DEF TypeOK, Attempt, Project, Task
  <2> QED
    BY <1>5, <2>1 DEF RecordRequirements, TypeOK, taskVars, launchVars
<1>6. CASE RecordConsistency
  <2>1. named["consistency"] \in Content
    BY <1>6 DEF RecordConsistency, ProposesRecord, BindingInv, TypeOK, Task
  <2> QED
    BY <1>6, <2>1 DEF RecordConsistency, TypeOK, taskVars, launchVars
<1>7. CASE Revise
  <2>1. revision["requirements"] + 1 \in Nat /\ "requirements" \in Task
    BY DEF TypeOK, Task
  <2> QED
    BY <1>7, <2>1, RebindTyped DEF Revise, TypeOK, authorityVars, launchVars, Command, Task
<1>8. CASE RecordRevision
  BY <1>8, ReceiptTyped
  DEF RecordRevision, TypeOK, taskVars, authorityVars, launchVars, Idle, Command, Task
<1> QED
  BY <1>1, <1>2, <1>3, <1>4, <1>5, <1>6, <1>7, <1>8

\* Edits, delivery and death.
LEMMA TypeOKDelivery ==
  ASSUME TypeOK,
         \/ Edit \/ LoseRecord \/ FinishAccepted \/ FinishBlocked \/ Seal \/ RemoveIncomplete
         \/ Die
  PROVE  TypeOK'
<1>1. CASE Edit \/ LoseRecord
  BY <1>1 DEF Edit, LoseRecord, TypeOK, Project, taskVars, authorityVars, launchVars
<1>2. CASE FinishAccepted
  <2>1. project' \in Project
    BY <1>2, CheckTyped DEF FinishAccepted, TypeOK
  <2>2. delivery' \in Delivery /\ command' \in Command
    <3>1. \/ delivery' = "incomplete" /\ command' = [do |-> "sealAccepted", task |-> "implementation"]
          \/ UNCHANGED <<delivery, command>>
      BY <1>2 DEF FinishAccepted
    <3> QED
      BY <3>1 DEF TypeOK, Command, Task, Delivery
  <2> QED
    BY <1>2, <2>1, <2>2 DEF FinishAccepted, TypeOK, taskVars, authorityVars, launchVars
<1>3. CASE FinishBlocked
  BY <1>3 DEF FinishBlocked, TypeOK, taskVars, authorityVars, launchVars, Command, Task, Delivery
<1>4. CASE Seal
  BY <1>4 DEF Seal, TypeOK, taskVars, authorityVars, launchVars, Idle, Command, Task, Delivery
<1>5. CASE RemoveIncomplete
  BY <1>5 DEF RemoveIncomplete, TypeOK, taskVars, authorityVars, launchVars, Delivery
<1>6. CASE Die
  BY <1>6 DEF Die, TypeOK, taskVars, authorityVars, launchVars, Idle, Command, Task
<1> QED
  BY <1>1, <1>2, <1>3, <1>4, <1>5, <1>6

-----------------------------------------------------------------------------
(* Bindings *)

\* What a binding leaves of the other tasks.
LEMMA RebindEffect ==
  ASSUME TypeOK, NEW t \in Task, NEW r \in Nat \ {0}, NEW c \in Content \cup {NONE}, Rebind(t, r, c)
  PROVE  /\ revision'[t] = r /\ named'[t] = c /\ prepared'[t] = NONE
         /\ attempt'[t] = NoAttempt /\ accepted'[t] = NoAttempt
         /\ \A u \in Task \ {t} :
              /\ revision'[u] = revision[u] /\ named'[u] = named[u] /\ prepared'[u] = prepared[u]
              /\ attempt'[u] = attempt[u] /\ accepted'[u] = accepted[u]
BY DEF TypeOK, Rebind

\* The task that was rebound is bound and not accepted; the others are as they were.
LEMMA BindingKept ==
  ASSUME TypeOK, BindingInv, NEW t \in Task, NEW r \in Nat \ {0}, NEW c \in Content \cup {NONE},
         t = "consistency" => c # NONE, Rebind(t, r, c), command'.do # "bind"
  PROVE  BindingInv'
BY RebindEffect, NoAttemptTyped DEF BindingInv, Accepted, Bound, Admitted, Task

LEMMA BindingInvStep ==
  ASSUME TypeOK, BindingInv, [Next]_vars
  PROVE  BindingInv'
<1> USE DEF taskVars, authorityVars, launchVars
<1>1. CASE BindRequirements
  BY <1>1, BindingKept DEF BindRequirements, Free, Idle, Task
<1>2. ASSUME NEW t \in Task, PrepareContract(t)
      PROVE  BindingInv'
  <2>1. prepared'[t] # NONE /\ command'.task = t
    BY <1>2, ConstantsAssumption DEF PrepareContract, TypeOK, Candidate
  <2> QED
    BY <1>2, <2>1 DEF PrepareContract, BindingInv, Accepted, Bound, Admitted
<1>3. CASE BindConsistency
  <2>1. CASE UNCHANGED taskVars
    BY <1>3, <2>1 DEF BindConsistency, BindingInv, Accepted, Bound, Admitted, Idle
  <2>2. CASE Rebind("consistency", revision["consistency"] + 1, prepared["consistency"])
    <3>1. /\ revision["consistency"] + 1 \in Nat \ {0}
          /\ prepared["consistency"] \in Content \cup {NONE} /\ "consistency" \in Task
      BY DEF TypeOK, Task
    <3>2. prepared["consistency"] # NONE /\ command'.do # "bind"
      BY <1>3 DEF BindConsistency, BindingInv, Idle
    <3> QED
      BY <2>2, <3>1, <3>2, BindingKept
  <2> QED
    BY <1>3, <2>1, <2>2 DEF BindConsistency
<1>4. CASE Admit
  <2>1. CASE UNCHANGED taskVars
    BY <1>4, <2>1 DEF Admit, BindingInv, Accepted, Bound, Admitted, Idle
  <2>2. CASE Rebind("implementation", 1, prepared["implementation"])
    <3>1. prepared["implementation"] \in Content \cup {NONE} /\ "implementation" \in Task
      BY DEF TypeOK, Task
    <3>2. command'.do # "bind"
      BY <1>4 DEF Admit, Idle
    <3> QED
      BY <2>2, <3>1, <3>2, BindingKept
  <2> QED
    BY <1>4, <2>1, <2>2 DEF Admit
<1>5. CASE Revise
  <2>1. revision["requirements"] + 1 \in Nat \ {0} /\ "requirements" \in Task /\ command'.do # "bind"
    BY <1>5 DEF Revise, TypeOK, Task
  <2> QED
    BY <1>5, <2>1, BindingKept DEF Revise
<1>6. ASSUME NEW t \in Task, DecideAccept(t)
      PROVE  BindingInv'
  <2>1. Bound(t)
    BY <1>6 DEF DecideAccept, Adjudicates, Reviewed, Open, ProposesBind
  <2>2. \A u \in Task : u # t => accepted'[u] = accepted[u]
    BY <1>6 DEF DecideAccept, TypeOK
  <2> QED
    BY <1>6, <2>1, <2>2 DEF DecideAccept, BindingInv, Accepted, Bound, Admitted
<1>7. ASSUME NEW t \in Task,
             \/ LaunchAttempt(t) \/ EndAttempt(t) \/ GateAttempt(t)
             \/ DecideRepair(t) \/ LaunchRepair(t) \/ RepairRefused(t)
             \/ DecideOwner(t) \/ ResolveOwner(t)
      PROVE  BindingInv'
  BY <1>7 DEF LaunchAttempt, EndAttempt, GateAttempt, DecideRepair, LaunchRepair, RepairRefused,
    DecideOwner, ResolveOwner, Idle, BindingInv, Accepted, Bound, Admitted
<1>10. CASE FinishAccepted
  <2>1. command' = command \/ command' = [do |-> "sealAccepted", task |-> "implementation"]
    BY <1>10 DEF FinishAccepted
  <2> QED
    BY <1>10, <2>1 DEF FinishAccepted, BindingInv, Accepted, Bound, Admitted
<1>8. CASE \/ RecordRequirements \/ RecordConsistency \/ RecordRevision \/ Edit \/ LoseRecord
           \/ FinishBlocked \/ Seal \/ RemoveIncomplete \/ Die
  BY <1>8 DEF RecordRequirements, RecordConsistency, RecordRevision, Edit, LoseRecord, FinishBlocked,
    Seal, RemoveIncomplete, Die, Idle, BindingInv, Accepted, Bound, Admitted
<1>9. CASE UNCHANGED vars
  BY <1>9 DEF vars, BindingInv, Accepted, Bound, Admitted
<1> QED
  BY <1>1, <1>2, <1>3, <1>4, <1>5, <1>6, <1>7, <1>8, <1>9, <1>10 DEF Next, TaskStep

\* Every file and record of a run is well typed: what the commands write, they can read back.
THEOREM WorkflowTypeCorrect == Spec => []TypeOK
<1>1. Init => TypeOK /\ BindingInv
  <2> SUFFICES ASSUME Init PROVE BindingInv
    BY TypeOKInit
  <2> QED
    BY NoAttemptTyped DEF Init, BindingInv, Accepted, Bound, Admitted, Idle, Task
<1>2. TypeOK /\ BindingInv /\ [Next]_vars => (TypeOK /\ BindingInv)'
  <2> SUFFICES ASSUME TypeOK, BindingInv, [Next]_vars PROVE TypeOK'
    BY BindingInvStep
  <2>1. CASE Next
    BY <2>1, TypeOKAttempts, TypeOKDecisions, TypeOKAuthority, TypeOKDelivery DEF Next, TaskStep
  <2>2. CASE UNCHANGED vars
    BY <2>2 DEF TypeOK, vars, taskVars, authorityVars, launchVars
  <2> QED
    BY <2>1, <2>2
<1> QED
  BY <1>1, <1>2, PTL DEF Spec

-----------------------------------------------------------------------------
(* Authority *)

\* What an admission is authorized for was reviewed, as requirements and as a whole.
LEMMA AuthorizedWasJudged ==
  ASSUME TypeOK, AuthorityInv, ~Admitted, NEW c, Authorizes(c)
  PROVE  c \in judged["requirements"] \cap judged["consistency"]
BY DEF AuthorityInv, Authorizes, Derivable, Candidate

\* A consistency review is accepted on the candidate its contract names.
LEMMA ConsistencyJudged ==
  ASSUME TypeOK, ~Admitted, DecideAccept("consistency"), ReviewIsCurrent(attempt["consistency"])
  PROVE  named["consistency"] \in judged'["consistency"]
<1>1. ~Stale /\ Bound("consistency") /\ Recorded /\ ~StatusFails
  BY DEF DecideAccept, Adjudicates, Reviewed, Open, ProposesBind, AtStage, Due
<1>2. named["consistency"] = ledger.content /\ project.req = ledger.content
  BY <1>1 DEF Stale, StatusFails, Derivable, Candidate
<1>3. /\ project = attempt["consistency"].baseline
      /\ judged' = [judged EXCEPT !["consistency"] = @ \cup {attempt["consistency"].baseline.req}]
  BY DEF DecideAccept
<1> QED
  BY <1>2, <1>3 DEF TypeOK, Task

LEMMA AuthorityInvStep ==
  ASSUME TypeOK, BindingInv, AuthorityInv, [Next]_vars
  PROVE  AuthorityInv'
<1> USE DEF taskVars, authorityVars, launchVars
<1> DEFINE Effect(t) ==
      /\ accepted'[t] = NoAttempt
      /\ \A u \in Task \ {t} : named'[u] = named[u] /\ prepared'[u] = prepared[u]
                              /\ accepted'[u] = accepted[u]
<1> USE DEF AuthorityWasEarned
<1>1. CASE BindRequirements
  <2>1. Effect("requirements") /\ accepted'["requirements"].id = 0
    BY <1>1, RebindEffect, NoAttemptTyped DEF BindRequirements, Task
  <2> QED
    BY <1>1, <2>1 DEF BindRequirements, AuthorityInv, Accepted, Admitted, Free, Idle, Task
<1>2. CASE PrepareContract("consistency")
  BY <1>2 DEF PrepareContract, AuthorityInv, Accepted, Admitted, Task
<1>3. CASE PrepareContract("implementation")
  <2>1. Admitted => prepared'["implementation"] = named["implementation"]
    BY <1>3 DEF PrepareContract, MayPrepare, FileNames, Admitted, TypeOK, Task
  <2> QED
    BY <1>3, <2>1 DEF PrepareContract, AuthorityInv, Accepted, Admitted
<1>4. CASE BindConsistency
  <2>1. CASE UNCHANGED taskVars
    BY <1>4, <2>1 DEF BindConsistency, AuthorityInv, Accepted, Admitted, Idle
  <2>2. CASE Rebind("consistency", revision["consistency"] + 1, prepared["consistency"])
    <3>1. /\ revision["consistency"] + 1 \in Nat \ {0}
          /\ prepared["consistency"] \in Content \cup {NONE} /\ "consistency" \in Task
      BY DEF TypeOK, Task
    <3>2. Effect("consistency") /\ accepted'["consistency"].id = 0
      BY <2>2, <3>1, RebindEffect, NoAttemptTyped
    <3> QED
      BY <1>4, <3>2 DEF BindConsistency, AuthorityInv, Accepted, Admitted, Idle, Task
  <2> QED
    BY <1>4, <2>1, <2>2 DEF BindConsistency
<1>5. CASE Admit
  <2>1. CASE UNCHANGED taskVars
    BY <1>5, <2>1 DEF Admit, AuthorityInv, Accepted, Admitted, Idle
  <2>2. CASE /\ Authorizes(prepared["implementation"])
             /\ Rebind("implementation", 1, prepared["implementation"])
    <3>1. prepared["implementation"] \in Content \cup {NONE} /\ "implementation" \in Task
      BY DEF TypeOK, Task
    <3>2. Effect("implementation") /\ named'["implementation"] = prepared["implementation"]
      BY <2>2, <3>1, RebindEffect
    <3>3. named'["implementation"] \in judged["requirements"] \cap judged["consistency"]
      BY <1>5, <2>2, <3>2, AuthorizedWasJudged DEF AuthorityInv, Admit
    <3>4. named'["implementation"] # NONE
      BY <1>5, <3>2 DEF Admit, BindingInv
    <3> QED
      BY <1>5, <3>2, <3>3, <3>4 DEF Admit, AuthorityInv, Accepted, Admitted, Idle, Task
  <2> QED
    BY <1>5, <2>1, <2>2 DEF Admit
<1>6. CASE Revise
  <2>1. revision["requirements"] + 1 \in Nat \ {0} /\ "requirements" \in Task
    BY DEF TypeOK, Task
  <2>2. Effect("requirements") /\ accepted'["requirements"].id = 0
    BY <1>6, <2>1, RebindEffect, NoAttemptTyped DEF Revise
  <2> QED
    BY <1>6, <2>2 DEF Revise, AuthorityInv, Accepted, Admitted, MayRevise, Task
<1>7. CASE RecordRequirements
  BY <1>7 DEF RecordRequirements, ProposesRecord, AuthorityInv, Accepted, Admitted, TypeOK, Task
<1>8. CASE RecordConsistency
  BY <1>8 DEF RecordConsistency, ProposesRecord, AuthorityInv, Accepted, Admitted
<1>9. ASSUME NEW t \in Task, DecideAccept(t)
      PROVE  AuthorityInv'
  <2>1. CASE ~ReviewIsCurrent(attempt[t])
    BY <1>9, <2>1 DEF DecideAccept, AuthorityInv, Accepted, Admitted
  <2>2. CASE ReviewIsCurrent(attempt[t])
    <3>1. /\ accepted' = [accepted EXCEPT ![t] = attempt[t]]
          /\ judged' = [judged EXCEPT ![t] = judged[t] \cup {attempt[t].baseline.req}]
          /\ UNCHANGED <<command, named, prepared, ledger, records>>
      BY <1>9, <2>2 DEF DecideAccept
    <3>2. \A u \in Task : judged[u] \subseteq judged'[u]
      BY <3>1 DEF TypeOK
    <3>3. accepted'["requirements"].id # 0 =>
            accepted'["requirements"].baseline.req \in judged'["requirements"]
      BY <3>1, <3>2 DEF AuthorityInv, Accepted, TypeOK, Task
    <3>4. ~Admitted /\ accepted'["consistency"].id # 0 =>
            named["consistency"] \in judged'["consistency"]
      <4>1. CASE t = "consistency"
        BY <1>9, <2>2, <4>1, ConsistencyJudged
      <4>2. CASE t # "consistency"
        BY <3>1, <3>2, <4>2 DEF AuthorityInv, Accepted, TypeOK, Task
      <4> QED
        BY <4>1, <4>2
    <3> QED
      BY <3>1, <3>2, <3>3, <3>4 DEF AuthorityInv, Accepted, Admitted, Task
  <2> QED
    BY <2>1, <2>2
<1>10. ASSUME NEW t \in Task,
              \/ LaunchAttempt(t) \/ EndAttempt(t) \/ GateAttempt(t)
              \/ DecideRepair(t) \/ LaunchRepair(t) \/ RepairRefused(t)
              \/ DecideOwner(t) \/ ResolveOwner(t)
       PROVE  AuthorityInv'
  BY <1>10 DEF LaunchAttempt, EndAttempt, GateAttempt, DecideRepair, LaunchRepair, RepairRefused,
    DecideOwner, ResolveOwner, Idle, AuthorityInv, Accepted, Admitted
<1>11. CASE FinishAccepted
  <2>1. command' = command \/ command' = [do |-> "sealAccepted", task |-> "implementation"]
    BY <1>11 DEF FinishAccepted
  <2> QED
    BY <1>11, <2>1 DEF FinishAccepted, AuthorityInv, Accepted, Admitted
<1>12. CASE \/ RecordRevision \/ Edit \/ LoseRecord \/ FinishBlocked \/ Seal \/ RemoveIncomplete \/ Die
  BY <1>12 DEF RecordRevision, Edit, LoseRecord, FinishBlocked, Seal, RemoveIncomplete, Die, Idle,
    AuthorityInv, Accepted, Admitted
<1>13. CASE UNCHANGED vars
  BY <1>13 DEF vars, AuthorityInv, Accepted, Admitted
<1>14. ASSUME NEW t \in Task, PrepareContract(t)
       PROVE  AuthorityInv'
  BY <1>2, <1>3, <1>14 DEF PrepareContract
<1> QED
  BY <1>1, <1>14, <1>4, <1>5, <1>6, <1>7, <1>8, <1>9, <1>10, <1>11, <1>12, <1>13 DEF Next, TaskStep

-----------------------------------------------------------------------------
(* Delivery *)

LEMMA SealInvStep ==
  ASSUME TypeOK, SealInv, [Next]_vars
  PROVE  SealInv'
<1> USE DEF taskVars, authorityVars, launchVars
<1>1. CASE FinishAccepted
  <2>1. ~Running /\ Accepted("implementation") /\ command.do # "sealAccepted"
    BY <1>1 DEF FinishAccepted, Free, Idle, Due
  <2>2. UNCHANGED <<attempt, accepted>>
    BY <1>1 DEF FinishAccepted
  <2>3. CASE ReviewIsCurrent(accepted["implementation"])
    BY <2>1, <2>2, <2>3 DEF SealInv, ReviewIsCurrent, Running, Accepted
  <2>4. CASE ~ReviewIsCurrent(accepted["implementation"])
    BY <1>1, <2>1, <2>4 DEF FinishAccepted, SealInv
  <2> QED
    BY <2>3, <2>4
<1>2. ASSUME NEW t \in Task, EndAttempt(t)
      PROVE  SealInv'
  <2>1. Running /\ UNCHANGED command
    BY <1>2 DEF EndAttempt, Running
  <2> QED
    BY <2>1 DEF SealInv
<1>3. ASSUME NEW t \in Task,
             \/ PrepareContract(t) \/ LaunchAttempt(t) \/ GateAttempt(t) \/ DecideAccept(t)
             \/ DecideRepair(t) \/ LaunchRepair(t) \/ RepairRefused(t)
             \/ DecideOwner(t) \/ ResolveOwner(t)
      PROVE  SealInv'
  <2>1. command'.do # "sealAccepted"
    BY <1>3 DEF PrepareContract, LaunchAttempt, GateAttempt, DecideAccept, DecideRepair,
      LaunchRepair, RepairRefused, DecideOwner, ResolveOwner, Free, Idle
  <2> QED
    BY <2>1 DEF SealInv
<1>4. CASE \/ BindRequirements \/ BindConsistency \/ Admit \/ RecordRequirements
           \/ RecordConsistency \/ Revise \/ RecordRevision \/ Edit \/ LoseRecord \/ FinishBlocked \/ Seal
           \/ RemoveIncomplete \/ Die
  <2>1. command'.do # "sealAccepted"
    BY <1>4 DEF BindRequirements, BindConsistency, Admit, RecordRequirements, RecordConsistency,
      Revise, RecordRevision, Edit, LoseRecord, FinishBlocked, Seal, RemoveIncomplete, Die, Free, Idle
  <2> QED
    BY <2>1 DEF SealInv
<1>5. CASE UNCHANGED vars
  BY <1>5 DEF vars, SealInv, Running, Accepted
<1> QED
  BY <1>1, <1>2, <1>3, <1>4, <1>5 DEF Next, TaskStep

-----------------------------------------------------------------------------
(* Decisions *)

\* A receipt is added at the end, and the others stay.
LEMMA ReceiptAdded ==
  ASSUME TypeOK, NEW what, NEW gate, NEW of, AddReceipt(what, gate, of)
  PROVE  /\ Len(receipts) \in Nat
         /\ DOMAIN receipts = 1 .. Len(receipts) /\ DOMAIN receipts' = 1 .. Len(receipts) + 1
         /\ \A i \in DOMAIN receipts : receipts'[i] = receipts[i]
         /\ receipts'[Len(receipts) + 1] = [what |-> what, gate |-> gate, of |-> of]
BY DEF TypeOK, AddReceipt

\* A receipt that decides nothing, and if it resolves, resolves an earlier one.
LEMMA DecisionKept ==
  ASSUME TypeOK, DecisionInv, NEW what \in {"resolution", "revision"}, NEW of,
         what = "resolution" => of \in DOMAIN receipts, AddReceipt(what, 0, of)
  PROVE  DecisionInv'
<1> DEFINE n == Len(receipts) + 1
<1>0. /\ Len(receipts) \in Nat
      /\ DOMAIN receipts = 1 .. Len(receipts) /\ DOMAIN receipts' = 1 .. Len(receipts) + 1
      /\ \A i \in DOMAIN receipts : receipts'[i] = receipts[i]
      /\ receipts'[Len(receipts) + 1] = [what |-> what, gate |-> 0, of |-> of]
  BY ReceiptAdded
<1>1. n \in Nat /\ n \notin DOMAIN receipts /\ DOMAIN receipts' = DOMAIN receipts \cup {n}
  BY <1>0
<1>2. /\ receipts'[n].what = what /\ receipts'[n].of = of
      /\ \A i \in DOMAIN receipts : receipts'[i] = receipts[i] /\ i < n
  BY <1>0
<1>3. DecisionInv!1'
  BY <1>1, <1>2 DEF DecisionInv
<1>4. ASSUME NEW i \in DOMAIN receipts', NEW k \in DOMAIN receipts', i < k,
             receipts'[i].what = "owner", receipts'[k].what \in {"owner", "repair"},
             receipts'[i].gate = receipts'[k].gate
      PROVE  \E j \in DOMAIN receipts' : receipts'[j].what = "resolution" /\ receipts'[j].of = i
  <2>1. i \in DOMAIN receipts /\ k \in DOMAIN receipts
    BY <1>1, <1>2, <1>4
  <2> QED
    BY <1>1, <1>2, <1>4, <2>1 DEF DecisionInv
<1> QED
  BY <1>3, <1>4 DEF DecisionInv

\* A decision on a gate whose owner nobody is waiting for.
LEMMA DecisionMade ==
  ASSUME TypeOK, DecisionInv, NEW what \in {"owner", "repair"}, NEW g, ~PendingOwner(g),
         AddReceipt(what, g, 0)
  PROVE  DecisionInv'
<1> DEFINE n == Len(receipts) + 1
<1>0. /\ Len(receipts) \in Nat
      /\ DOMAIN receipts = 1 .. Len(receipts) /\ DOMAIN receipts' = 1 .. Len(receipts) + 1
      /\ \A i \in DOMAIN receipts : receipts'[i] = receipts[i]
      /\ receipts'[Len(receipts) + 1] = [what |-> what, gate |-> g, of |-> 0]
  BY ReceiptAdded
<1>1. n \in Nat /\ n \notin DOMAIN receipts /\ DOMAIN receipts' = DOMAIN receipts \cup {n}
  BY <1>0
<1>2. /\ receipts'[n].what = what /\ receipts'[n].gate = g
      /\ \A i \in DOMAIN receipts : receipts'[i] = receipts[i] /\ i < n
  BY <1>0
<1>3. DecisionInv!1'
  BY <1>1, <1>2 DEF DecisionInv
<1>4. ASSUME NEW i \in DOMAIN receipts', NEW k \in DOMAIN receipts', i < k,
             receipts'[i].what = "owner", receipts'[k].what \in {"owner", "repair"},
             receipts'[i].gate = receipts'[k].gate
      PROVE  \E j \in DOMAIN receipts' : receipts'[j].what = "resolution" /\ receipts'[j].of = i
  <2>1. i \in DOMAIN receipts
    BY <1>1, <1>2, <1>4 DEF TypeOK
  <2>2. CASE k = n
    <3>1. receipts[i].what = "owner" /\ receipts[i].gate = g
      BY <1>2, <1>4, <2>1, <2>2
    <3>2. \E j \in DOMAIN receipts : receipts[j].what = "resolution" /\ receipts[j].of = i
      BY <2>1, <3>1 DEF PendingOwner, DecisionInv
    <3> QED
      BY <1>1, <1>2, <3>2
  <2>3. CASE k # n
    BY <1>1, <1>2, <1>4, <2>1, <2>3 DEF DecisionInv
  <2> QED
    BY <2>2, <2>3
<1> QED
  BY <1>3, <1>4 DEF DecisionInv

LEMMA DecisionInvStep ==
  ASSUME TypeOK, DecisionInv, [Next]_vars
  PROVE  DecisionInv'
<1>1. ASSUME NEW t \in Task, DecideRepair(t) \/ DecideOwner(t)
      PROVE  DecisionInv'
  BY <1>1, DecisionMade DEF DecideRepair, DecideOwner, Adjudicates
<1>2. ASSUME NEW t \in Task, ResolveOwner(t)
      PROVE  DecisionInv'
  BY <1>2, DecisionKept DEF ResolveOwner
<1>3. CASE RecordRevision
  BY <1>3, DecisionKept DEF RecordRevision
<1>4. ASSUME UNCHANGED receipts
      PROVE  DecisionInv'
  BY <1>4 DEF DecisionInv
<1>5. ASSUME NEW t \in Task,
             \/ PrepareContract(t) \/ LaunchAttempt(t) \/ EndAttempt(t) \/ GateAttempt(t)
             \/ DecideAccept(t) \/ LaunchRepair(t) \/ RepairRefused(t)
      PROVE  DecisionInv'
  BY <1>4, <1>5 DEF PrepareContract, LaunchAttempt, EndAttempt, GateAttempt, DecideAccept,
    LaunchRepair, RepairRefused
<1>6. CASE \/ BindRequirements \/ BindConsistency \/ Admit \/ RecordRequirements
           \/ RecordConsistency \/ Revise \/ Edit \/ LoseRecord \/ FinishAccepted \/ FinishBlocked \/ Seal
           \/ RemoveIncomplete \/ Die \/ UNCHANGED vars
  BY <1>4, <1>6 DEF BindRequirements, BindConsistency, Admit, RecordRequirements,
    RecordConsistency, Revise, Edit, LoseRecord, FinishAccepted, FinishBlocked, Seal, RemoveIncomplete, Die, vars
<1> QED
  BY <1>1, <1>2, <1>3, <1>5, <1>6 DEF Next, TaskStep

-----------------------------------------------------------------------------
(* The invariant and what follows from it *)

LEMMA WorkflowInvInit == Init => WorkflowInv
<1> SUFFICES ASSUME Init PROVE WorkflowInv
  OBVIOUS
<1>1. AuthorityInv
  BY NoAttemptTyped DEF Init, AuthorityInv, AuthorityWasEarned, Accepted, Admitted, Task
<1>2. BindingInv
  BY NoAttemptTyped DEF Init, BindingInv, Accepted, Bound, Admitted, Idle, Task
<1>3. SealInv
  BY DEF Init, SealInv, Idle
<1>4. DecisionInv
  BY DEF Init, DecisionInv
<1> QED
  BY <1>1, <1>2, <1>3, <1>4 DEF WorkflowInv

LEMMA WorkflowInvHolds == Spec => [](TypeOK /\ WorkflowInv)
<1>1. Init => TypeOK /\ WorkflowInv
  BY TypeOKInit, WorkflowInvInit
<1>2. TypeOK /\ TypeOK' /\ WorkflowInv /\ [Next]_vars => WorkflowInv'
  BY BindingInvStep, AuthorityInvStep, SealInvStep, DecisionInvStep DEF WorkflowInv
<1> QED
  BY <1>1, <1>2, WorkflowTypeCorrect, PTL DEF Spec

\* What every command keeps, however it is interleaved with edits and wherever it is killed.
THEOREM WorkflowInvariant == Spec => []WorkflowInv
BY WorkflowInvHolds, PTL

\* An implementation is only ever admitted under a text that an accepted requirements review and an
\* accepted consistency review both had before them.
THEOREM AuthorityEarned == Spec => []AuthorityWasEarned
<1>1. WorkflowInv => AuthorityWasEarned
  BY DEF WorkflowInv, AuthorityInv
<1> QED
  BY <1>1, WorkflowInvHolds, PTL

\* What status proposes to bind, authorize does not refuse.
THEOREM ProposedBindAuthorized == Spec => []ProposedBindIsAuthorized
<1>1. WorkflowInv => ProposedBindIsAuthorized
  <2> SUFFICES ASSUME WorkflowInv, ProposesBind("implementation"), Derivable
               PROVE  Candidate \in records
    BY DEF ProposedBindIsAuthorized, Authorizes
  <2>1. Challenged /\ ~Bound("implementation")
    BY DEF ProposesBind, AtStage, Due
  <2>2. ~Admitted /\ Bound("consistency")
    BY <2>1 DEF WorkflowInv, BindingInv, Challenged, Task
  <2> QED
    BY <2>1, <2>2 DEF Challenged, Stale
<1> QED
  BY <1>1, WorkflowInvHolds, PTL

\* The admitted candidate never changes: no revision, record or second admission replaces it.
THEOREM AdmittedForGood == Spec => AdmissionIsFixed
<1> USE DEF taskVars
<1>1. TypeOK /\ WorkflowInv /\ [Next]_vars /\ Admitted => named'["implementation"] = named["implementation"]
  <2> SUFFICES ASSUME TypeOK, WorkflowInv, [Next]_vars, Admitted
               PROVE  named'["implementation"] = named["implementation"]
    OBVIOUS
  <2>1. CASE BindRequirements
    BY <2>1, RebindEffect DEF BindRequirements, Task
  <2>2. CASE BindConsistency
    BY <2>2 DEF BindConsistency, Rebind, TypeOK, Task
  <2>3. CASE Admit
    <3>1. command = [do |-> "bind", task |-> "implementation"]
      BY <2>3 DEF Admit
    <3>2. prepared["implementation"] = named["implementation"]
      BY <3>1 DEF WorkflowInv, AuthorityInv
    <3> QED
      BY <2>3, <3>2 DEF Admit, Rebind, TypeOK, Task
  <2>4. CASE Revise
    BY <2>4 DEF Revise, MayRevise
  <2>5. ASSUME NEW t \in Task, TaskStep(t)
        PROVE  UNCHANGED named
    BY <2>5 DEF TaskStep, PrepareContract, LaunchAttempt, EndAttempt, GateAttempt, DecideAccept,
      DecideRepair, LaunchRepair, RepairRefused, DecideOwner, ResolveOwner
  <2>6. CASE \/ RecordRequirements \/ RecordConsistency \/ RecordRevision \/ Edit \/ LoseRecord \/ FinishAccepted
             \/ FinishBlocked \/ Seal \/ RemoveIncomplete \/ Die \/ UNCHANGED vars
    BY <2>6 DEF RecordRequirements, RecordConsistency, RecordRevision, Edit, LoseRecord, FinishAccepted,
      FinishBlocked, Seal, RemoveIncomplete, Die, vars
  <2> QED
    BY <2>1, <2>2, <2>3, <2>4, <2>5, <2>6 DEF Next
<1>2. TypeOK /\ WorkflowInv /\ [Next]_vars =>
        [Admitted => named'["implementation"] = named["implementation"]]_vars
  BY <1>1
<1> QED
  BY <1>2, WorkflowInvHolds, PTL DEF Spec, AdmissionIsFixed

\* A delivery sealed as accepted holds the bytes its accepted review had before it: nothing writes
\* to the project between the last comparison and the manifest.
THEOREM DeliveredWasReviewed == Spec => DeliveredAsReviewed
<1> DEFINE Delivered == delivery' = "accepted" /\ delivery # "accepted" =>
              Accepted("implementation") /\ project = accepted["implementation"].baseline
<1>1. WorkflowInv /\ [Next]_vars => Delivered
  <2> SUFFICES ASSUME WorkflowInv, [Next]_vars PROVE Delivered
    OBVIOUS
  <2>1. CASE Seal
    BY <2>1 DEF Seal, WorkflowInv, SealInv
  <2>2. ASSUME NEW t \in Task, TaskStep(t)
        PROVE  UNCHANGED delivery
    BY <2>2 DEF TaskStep, PrepareContract, LaunchAttempt, EndAttempt, GateAttempt, DecideAccept,
      DecideRepair, LaunchRepair, RepairRefused, DecideOwner, ResolveOwner
  <2>3. CASE \/ BindRequirements \/ BindConsistency \/ Admit \/ RecordRequirements
             \/ RecordConsistency \/ Revise \/ RecordRevision \/ Edit \/ LoseRecord \/ Die \/ UNCHANGED vars
    BY <2>3 DEF BindRequirements, BindConsistency, Admit, RecordRequirements, RecordConsistency,
      Revise, RecordRevision, Edit, LoseRecord, Die, vars
  <2>4. CASE FinishAccepted \/ FinishBlocked \/ RemoveIncomplete
    BY <2>4 DEF FinishAccepted, FinishBlocked, RemoveIncomplete
  <2> QED
    BY <2>1, <2>2, <2>3, <2>4 DEF Next
<1>2. WorkflowInv /\ [Next]_vars => [Delivered]_vars
  BY <1>1
<1> QED
  BY <1>2, WorkflowInvHolds, PTL DEF Spec, DeliveredAsReviewed

\* A task's acceptance changes to another one by a decision to accept, and no other way.
LEMMA AcceptanceIsDecided ==
  ASSUME TypeOK, [Next]_vars, NEW t \in Task, accepted'[t] # accepted[t], accepted'[t].id # 0
  PROVE  DecideAccept(t)
<1> USE DEF taskVars
<1>1. \A u \in Task : \A r, c : Rebind(u, r, c) => accepted'[t] = accepted[t] \/ accepted'[t] = NoAttempt
  BY DEF Rebind, TypeOK
<1>2. ~(BindRequirements \/ BindConsistency \/ Admit \/ Revise)
  BY <1>1, NoAttemptTyped DEF BindRequirements, BindConsistency, Admit, Revise, Task
<1>3. ~(\/ RecordRequirements \/ RecordConsistency \/ RecordRevision \/ Edit \/ LoseRecord \/ FinishAccepted
        \/ FinishBlocked \/ Seal \/ RemoveIncomplete \/ Die \/ UNCHANGED vars)
  BY DEF RecordRequirements, RecordConsistency, RecordRevision, Edit, LoseRecord, FinishAccepted,
    FinishBlocked, Seal, RemoveIncomplete, Die, vars
<1>4. PICK u \in Task : TaskStep(u)
  BY <1>2, <1>3 DEF Next
<1>5. DecideAccept(u)
  BY <1>4 DEF TaskStep, PrepareContract, LaunchAttempt, EndAttempt, GateAttempt, DecideRepair,
    LaunchRepair, RepairRefused, DecideOwner, ResolveOwner
<1>6. accepted' = [accepted EXCEPT ![u] = attempt[u]] \/ accepted' = accepted
  BY <1>5 DEF DecideAccept
<1> QED
  BY <1>5, <1>6 DEF TypeOK

\* A task is accepted on the bytes its reviewer saw, whatever the project's check wrote.
THEOREM AcceptedWasReviewed == Spec => AcceptedAsReviewed
<1> DEFINE Current == \A t \in Task :
       accepted'[t] # accepted[t] /\ accepted'[t].id # 0 => project' = accepted'[t].baseline
<1>1. TypeOK /\ [Next]_vars => Current
  <2> SUFFICES ASSUME TypeOK, [Next]_vars, NEW t \in Task,
                      accepted'[t] # accepted[t], accepted'[t].id # 0
               PROVE  project' = accepted'[t].baseline
    OBVIOUS
  <2>1. DecideAccept(t)
    BY AcceptanceIsDecided
  <2>2. ReviewIsCurrent(attempt[t]) /\ accepted'[t] = attempt[t]
    BY <2>1 DEF DecideAccept, TypeOK
  <2> QED
    BY <2>2 DEF ReviewIsCurrent
<1>2. TypeOK /\ [Next]_vars => [Current]_vars
  BY <1>1
<1> QED
  BY <1>2, WorkflowTypeCorrect, PTL DEF Spec, AcceptedAsReviewed

\* No review is accepted over a decision on it that nobody answered or carried out.
THEOREM DecisionsHonoured == Spec => DecisionsAreHonoured
<1> DEFINE Honoured == \A t \in Task, i \in DOMAIN receipts :
       /\ accepted'[t] # accepted[t] /\ accepted'[t].id # 0
       /\ receipts[i].gate = accepted'[t].id /\ receipts[i].what \in {"owner", "repair"}
       => \E j \in DOMAIN receipts :
            /\ j > i
            /\ IF receipts[i].what = "owner"
               THEN receipts[j].what = "resolution" /\ receipts[j].of = i
               ELSE receipts[j].what = "revision"
<1> USE DEF taskVars
<1>1. TypeOK /\ WorkflowInv /\ [Next]_vars => Honoured
  <2> SUFFICES ASSUME TypeOK, WorkflowInv, [Next]_vars,
                      NEW t \in Task, NEW i \in DOMAIN receipts,
                      accepted'[t] # accepted[t], accepted'[t].id # 0,
                      receipts[i].gate = accepted'[t].id, receipts[i].what \in {"owner", "repair"}
               PROVE  \E j \in DOMAIN receipts :
                        /\ j > i
                        /\ IF receipts[i].what = "owner"
                           THEN receipts[j].what = "resolution" /\ receipts[j].of = i
                           ELSE receipts[j].what = "revision"
    OBVIOUS
  <2>1. DecideAccept(t)
    BY AcceptanceIsDecided
  <2>2. accepted'[t] = attempt[t] /\ ~PendingOwner(attempt[t].id) /\ ~PendingRepair(attempt[t].id)
    BY <2>1 DEF DecideAccept, Adjudicates, TypeOK
  <2>3. receipts[i].gate = attempt[t].id
    BY <2>2
  <2>4. CASE receipts[i].what = "repair"
    <3>1. PICK j \in DOMAIN receipts : j > i /\ receipts[j].what = "revision"
      BY <2>2, <2>3, <2>4 DEF PendingRepair
    <3> QED
      BY <2>4, <3>1
  <2>5. CASE receipts[i].what = "owner"
    <3>1. DecisionInv /\ DOMAIN receipts \subseteq Nat
      BY DEF WorkflowInv, TypeOK
    <3>2. PICK j \in DOMAIN receipts : receipts[j].what = "resolution" /\ receipts[j].of = i
      BY <2>2, <2>3, <2>5, <3>1 DEF PendingOwner, DecisionInv
    <3>3. i < j
      BY <3>1, <3>2 DEF DecisionInv
    <3> QED
      BY <2>5, <3>1, <3>2, <3>3
  <2> QED
    BY <2>4, <2>5
<1>2. TypeOK /\ WorkflowInv /\ [Next]_vars => [Honoured]_vars
  BY <1>1
<1> QED
  BY <1>2, WorkflowInvHolds, PTL DEF Spec, DecisionsAreHonoured

=============================================================================
