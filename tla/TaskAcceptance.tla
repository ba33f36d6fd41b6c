---------------------------- MODULE TaskAcceptance ----------------------------
(***************************************************************************)
(* One task of a run: its launches (scripts/dsd_attempt.py), the monitors   *)
(* and workers they leave running (scripts/run_worker.py), the task's entry *)
(* in state.json (scripts/dsd_state.py), the integrity gates of its         *)
(* attempts (scripts/evidence_gate.py), and the acceptance that asks for a  *)
(* review fresher than every project change.                                *)
(*                                                                          *)
(* Commands that write state.json are one step each ("assume one            *)
(* intentional writer per checkout"); a launch, which takes minutes, is     *)
(* not: everything else may happen between its steps.  The task's status    *)
(* and last_attempt are left out: what they say, nothing here decides on.   *)
(***************************************************************************)
EXTENDS Naturals

CONSTANTS
  Attempt,           \* the event directories of the task's attempts: bounds the launches
  Writer,            \* those launched in a role that writes the project; the others review it
  Superseding,       \* those launched with --supersede-incomplete
  NONE,              \* no attempt
  TicksPerSecond,    \* clock ticks in the second to which a supersession is rounded
  MaxTick,           \* bound on the clock
  MaxTree,           \* bound on the number of project writes
  MaxContract,       \* bound on the contract files
  OneLaunchAtATime,  \* does each launch reach its binding before another launch or contract?
  LauncherMayDie,    \* may a launcher be killed?
  WorkerMayOutlive,  \* may a worker go on after its monitor gave up on it or was killed?
  ScopeMayFail       \* may the comparison of the project with its baseline fail?

ASSUME ConstantsAssumption ==
  /\ Writer \subseteq Attempt /\ Superseding \subseteq Attempt
  /\ NONE \notin Attempt
  /\ TicksPerSecond \in Nat \ {0}
  /\ MaxTick \in Nat /\ MaxTree \in Nat /\ MaxContract \in Nat
  /\ OneLaunchAtATime \in BOOLEAN
  /\ LauncherMayDie \in BOOLEAN
  /\ WorkerMayOutlive \in BOOLEAN
  /\ ScopeMayFail \in BOOLEAN

VARIABLES
  now,        \* the wall clock, in ticks
  tree,       \* the project's bytes: how many writes they have had
  contract,   \* state.json: the revision of the task's current_contract
  current,    \* state.json: the task's current_attempt
  accepted,   \* state.json: the attempt whose gate the task was accepted on
  recorded,   \* state.json: the processes of current_attempt whose pid it holds
  stage,      \* per attempt: where its launcher is
  launch,     \* per attempt: its arguments, its scope baseline and its reservation
  reserved,   \* the attempts whose launch-reservation.json exists
  monitor,    \* per attempt: its detached run_worker.py process
  worker,     \* per attempt: its executor
  noted,      \* per attempt: what its monitor has in memory of the worker's end
  terminal,   \* per attempt: its terminal.json
  gateScope,  \* per attempt: the scope in its first evidence-gate.json, when it has no frozen one
  superseded, \* per attempt: observed_at of its supersession.json; 0 if there is none
  wrote       \* history: per attempt, the tree its last write left; 0 if it never wrote

stateVars == <<contract, current, accepted, recorded>>
procVars == <<monitor, noted, worker>>
evidenceVars == <<reserved, terminal, gateScope, superseded>>
treeVars == <<tree, wrote>>
vars == <<now, treeVars, stateVars, stage, launch, procVars, evidenceVars>>

-----------------------------------------------------------------------------
(* Values *)

Event == Attempt \cup {NONE}
Process == {"monitor", "worker"}
ProcessState == {"none", "running", "ended"}
MonitorState == ProcessState \cup {"closing"}  \* "closing": it knows the worker's end
Stage == {"unused", "preflighted", "captured", "reserved", "detached", "done"}

Launch == [contract : Nat, baseline : Nat, at : Nat]
\* "completed": the process ended with 0 and left its report.
Status == {"none", "completed", "failed"}
End == [status : Status, ended : Nat]
\* "absent": nobody compared the project with the baseline; "failed": the comparison did.
Scope == {"absent", "failed", "unchanged", "changed"}
Terminal == [status : Status, ended : Nat, scope : Scope]

NoLaunch == [contract |-> 0, baseline |-> 0, at |-> 0]
NoEnd == [status |-> "none", ended |-> 0]
NoTerminal == [status |-> "none", ended |-> 0, scope |-> "absent"]

Terminated(a) == terminal[a].status # "none"
MonitorRuns(a) == monitor[a] \in {"running", "closing"}

\* scope_snapshot.py compare: the project against the attempt's baseline.
Delta(a) == IF tree = launch[a].baseline THEN "unchanged" ELSE "changed"

\* The clock moves between two steps that read it; nothing else looks at it.
ReadClock == now' \in {t \in {now, now + 1} : t <= MaxTick}

\* isoformat(timespec="seconds")
ToTheSecond(t) == (t \div TicksPerSecond) * TicksPerSecond

-----------------------------------------------------------------------------

Init ==
  /\ now = TicksPerSecond
  /\ tree = 0
  /\ contract = 1
  /\ current = NONE
  /\ accepted = NONE
  /\ recorded = {}
  /\ stage = [a \in Attempt |-> "unused"]
  /\ launch = [a \in Attempt |-> NoLaunch]
  /\ reserved = {}
  /\ monitor = [a \in Attempt |-> "none"]
  /\ noted = [a \in Attempt |-> NoEnd]
  /\ worker = [a \in Attempt |-> "none"]
  /\ terminal = [a \in Attempt |-> NoTerminal]
  /\ gateScope = [a \in Attempt |-> "absent"]
  /\ superseded = [a \in Attempt |-> 0]
  /\ wrote = [a \in Attempt |-> 0]

-----------------------------------------------------------------------------
(* state.json: dsd_state.py *)

\* _attempt_live of the current attempt: only processes whose pids its binding recorded.
RecordedLive(a) ==
  \/ "monitor" \in recorded /\ MonitorRuns(a)
  \/ "worker" \in recorded /\ worker[a] = "running"

\* archive_current_attempt: an attempt without a terminal record only when asked, and not live.
MayArchive(supersede) ==
  current # NONE => Terminated(current) \/ (supersede /\ ~RecordedLive(current))

\* An attempt without a terminal record gets its supersession.json, written once, which records
\* when it was observed not to run.
Archive ==
  IF current = NONE \/ Terminated(current) \/ superseded[current] # 0
  THEN UNCHANGED <<now, superseded>>
  ELSE /\ ReadClock
       /\ superseded' = [superseded EXCEPT ![current] = ToTheSecond(now')]

\* bind_contract_core: any contract file may take the task over, the same one or an older one too;
\* task.clear() forgets the acceptance.
BindContract(revision, supersede) ==
  /\ OneLaunchAtATime => \A a \in Attempt : stage[a] \in {"unused", "done"}
  /\ MayArchive(supersede)
  /\ Archive
  /\ contract' = revision
  /\ current' = NONE /\ recorded' = {}
  /\ accepted' = NONE
  /\ UNCHANGED <<treeVars, stage, launch, procVars, reserved, terminal, gateScope>>

\* Mutant: what run_worker printed is not passed on, so only attempt.json names processes.
PidsInAttemptFile(a) == IF worker[a] = "none" THEN {} ELSE Process

\* What bind_attempt finds in attempt.json, in terminal.json and in what run_worker printed.
PidsOf(a) == {p \in Process : IF p = "monitor" THEN monitor[a] # "none" ELSE worker[a] # "none"}

\* bind_attempt refuses another contract's reservation, and over an attempt it may not archive.
MayBind(a, supersede) ==
  /\ a \in reserved
  /\ launch[a].contract = contract
  /\ current # a => MayArchive(supersede)

BindAttempt(a) ==
  /\ IF current = a THEN UNCHANGED <<now, superseded>> ELSE Archive
  /\ current' = a /\ recorded' = PidsOf(a)
  /\ UNCHANGED <<contract, accepted>>

\* The `wait` command, and the launcher's own: once the attempt is terminal it is bound again.
BindAgain(a) ==
  /\ Terminated(a) /\ MayBind(a, FALSE)
  /\ BindAttempt(a)
  /\ UNCHANGED <<treeVars, stage, launch, procVars, reserved, terminal, gateScope>>

-----------------------------------------------------------------------------
(* A launch: dsd_attempt.py *)

\* preflight_attempt, on the contract the launch read from state.json.
Preflight(a) ==
  /\ stage[a] = "unused"
  /\ OneLaunchAtATime => \A b \in Attempt : stage[b] \in {"unused", "done"}
  /\ MayArchive(a \in Superseding)
  /\ stage' = [stage EXCEPT ![a] = "preflighted"]
  /\ launch' = [launch EXCEPT ![a].contract = contract]
  /\ UNCHANGED <<now, treeVars, stateVars, procVars, evidenceVars>>

\* scope_snapshot.py capture: what later changes are compared with.
Capture(a) ==
  /\ stage[a] = "preflighted"
  /\ stage' = [stage EXCEPT ![a] = "captured"]
  /\ launch' = [launch EXCEPT ![a].baseline = tree]
  /\ UNCHANGED <<now, treeVars, stateVars, procVars, evidenceVars>>

\* The capture, the prompt or the reservation failed: the event directory is removed.
PrepareFails(a) ==
  /\ stage[a] \in {"preflighted", "captured"}
  /\ stage' = [stage EXCEPT ![a] = "done"]
  /\ UNCHANGED <<now, treeVars, stateVars, launch, procVars, evidenceVars>>

\* run_worker.py: reserve_attempt.
ReserveAttempt(a) ==
  /\ stage[a] = "captured"
  /\ ReadClock
  /\ stage' = [stage EXCEPT ![a] = "reserved"]
  /\ launch' = [launch EXCEPT ![a].at = now']
  /\ reserved' = reserved \cup {a}
  /\ UNCHANGED <<treeVars, stateVars, procVars, terminal, gateScope, superseded>>

\* terminal_error: the worker was not started, and the project is not looked at.
Unscoped == [status |-> "failed", ended |-> now', scope |-> "absent"]

\* run_worker.py detaches its monitor, or writes that it could not.
Detach(a) ==
  /\ stage[a] = "reserved"
  /\ stage' = [stage EXCEPT ![a] = "detached"]
  /\ \/ /\ monitor' = [monitor EXCEPT ![a] = "running"]
        /\ UNCHANGED <<now, terminal>>
     \/ /\ ReadClock
        /\ terminal' = [terminal EXCEPT ![a] = Unscoped]
        /\ UNCHANGED monitor
  /\ UNCHANGED <<treeVars, stateVars, launch, noted, worker, reserved, gateScope, superseded>>

\* bind-attempt; if that is refused the launcher ends, and the worker does not.
BindLaunched(a) ==
  /\ stage[a] = "detached" /\ MayBind(a, a \in Superseding)
  /\ BindAttempt(a)
  /\ stage' = [stage EXCEPT ![a] = "done"]
  /\ UNCHANGED <<treeVars, launch, procVars, reserved, terminal, gateScope>>

BindRefused(a) ==
  /\ stage[a] = "detached" /\ ~MayBind(a, a \in Superseding)
  /\ stage' = [stage EXCEPT ![a] = "done"]
  /\ UNCHANGED <<now, treeVars, stateVars, launch, procVars, evidenceVars>>

\* The launcher, or the run_worker.py it runs, is killed.
LauncherDies(a) ==
  /\ LauncherMayDie
  /\ stage[a] \notin {"unused", "done"}
  /\ stage' = [stage EXCEPT ![a] = "done"]
  /\ UNCHANGED <<now, treeVars, stateVars, launch, procVars, evidenceVars>>

-----------------------------------------------------------------------------
(* The monitor and the worker: run_worker.py child_run *)

StartWorker(a) ==
  /\ monitor[a] = "running" /\ worker[a] = "none"
  /\ \/ /\ worker' = [worker EXCEPT ![a] = "running"]
        /\ UNCHANGED <<now, monitor, terminal>>
     \/ /\ monitor' = [monitor EXCEPT ![a] = "ended"]
        /\ ReadClock
        /\ terminal' = [terminal EXCEPT ![a] = Unscoped]
        /\ UNCHANGED worker
  /\ UNCHANGED <<treeVars, stateVars, stage, launch, noted, reserved, gateScope, superseded>>

\* The executor changes the project; a reviewer should not, and nothing stops it.
Write(a) ==
  /\ worker[a] = "running" /\ tree < MaxTree
  /\ tree' = tree + 1
  /\ wrote' = [wrote EXCEPT ![a] = tree']
  /\ UNCHANGED <<now, stateVars, stage, launch, procVars, evidenceVars>>

EndWorker(a) ==
  /\ worker[a] = "running"
  /\ worker' = [worker EXCEPT ![a] = "ended"]
  /\ UNCHANGED <<now, treeVars, stateVars, stage, launch, monitor, noted, evidenceVars>>

\* process_ended_at is read, before the project is compared with its baseline.
NoteEnd(a, outcome) ==
  /\ ReadClock
  /\ monitor' = [monitor EXCEPT ![a] = "closing"]
  /\ noted' = [noted EXCEPT ![a] = [status |-> outcome, ended |-> now']]

\* The worker ended.
SeeEnd(a) ==
  /\ monitor[a] = "running" /\ worker[a] = "ended"
  /\ \E outcome \in {"completed", "failed"} : NoteEnd(a, outcome)
  /\ UNCHANGED <<treeVars, stateVars, stage, launch, worker, evidenceVars>>

\* The deadline: the worker is stopped, or could not be.
GiveUp(a) ==
  /\ monitor[a] = "running" /\ worker[a] = "running"
  /\ NoteEnd(a, "failed")
  /\ \/ worker' = [worker EXCEPT ![a] = "ended"]
     \/ WorkerMayOutlive /\ UNCHANGED worker
  /\ UNCHANGED <<treeVars, stateVars, stage, launch, evidenceVars>>

\* freeze_scope_at_terminal, or its failure; then the terminal record, with the end noted before.
WriteTerminal(a) ==
  /\ monitor[a] = "closing"
  /\ monitor' = [monitor EXCEPT ![a] = "ended"]
  /\ noted' = [noted EXCEPT ![a] = NoEnd]
  /\ \E scope \in {Delta(a)} \cup (IF ScopeMayFail THEN {"failed"} ELSE {}) :
       terminal' = [terminal EXCEPT ![a] =
         [status |-> noted[a].status, ended |-> noted[a].ended, scope |-> scope]]
  /\ UNCHANGED <<now, treeVars, stateVars, stage, launch, worker, reserved, gateScope, superseded>>

\* The monitor is killed, with its worker or without it: there will be no terminal record.
LoseMonitor(a) ==
  /\ MonitorRuns(a)
  /\ monitor' = [monitor EXCEPT ![a] = "ended"]
  /\ noted' = [noted EXCEPT ![a] = NoEnd]
  /\ \/ worker' = [worker EXCEPT ![a] = IF @ = "running" THEN "ended" ELSE @]
     \/ WorkerMayOutlive /\ UNCHANGED worker
  /\ UNCHANGED <<now, treeVars, stateVars, stage, launch, evidenceVars>>

-----------------------------------------------------------------------------
(* Gate and acceptance *)

\* evidence_gate.py: a completed process, its report, and a frozen scope: for a read-only attempt,
\* of a project that did not move.  What it reads is immutable, so of such an attempt the gate is
\* no step: when it is run does not matter.
CleanGate(a) ==
  /\ terminal[a].status = "completed"
  /\ terminal[a].scope \in (IF a \in Writer THEN {"unchanged", "changed"} ELSE {"unchanged"})

\* Of an attempt without a frozen scope it is one: the gate compares the project itself, unless the
\* comparison failed at the end, when its scope is empty, with no change in it.
Gate(a) ==
  /\ Terminated(a) /\ gateScope[a] = "absent"
  /\ \/ terminal[a].scope = "absent" /\ gateScope' = [gateScope EXCEPT ![a] = Delta(a)]
     \/ terminal[a].scope = "failed" /\ gateScope' = [gateScope EXCEPT ![a] = "unchanged"]
  /\ UNCHANGED <<now, treeVars, stateVars, stage, launch, procVars, reserved, terminal, superseded>>

\* The delta _terminal_scope_changed goes by.
KnownScope(a) ==
  IF terminal[a].scope \in {"absent", "failed"} THEN gateScope[a] ELSE terminal[a].scope

\* _terminal_scope_changed: did the attempt change the project, and when was it last able to?
Mutating(a) ==
  /\ a \in reserved /\ launch[a].contract = contract
  /\ a \in Writer
  /\ Terminated(a) => KnownScope(a) # "unchanged"

Boundary(a) == IF Terminated(a) THEN terminal[a].ended ELSE superseded[a]

\* Mutant: only the attempt state.json still knows is consulted.
FreshOfCurrent(g) ==
  /\ g \notin Writer
  /\ \A a \in Attempt \ {g} : Mutating(a) /\ a = current =>
       Boundary(a) # 0 /\ launch[g].at > Boundary(a)

\* _assert_fresh_reviewer: a review reserved after every attempt that changed the project ended.
Fresh(g) ==
  /\ g \notin Writer
  /\ \A a \in Attempt \ {g} : Mutating(a) => Boundary(a) # 0 /\ launch[g].at > Boundary(a)

\* accept_task on the gate of attempt g: every reservation under the contract is consulted.
Accept(g) ==
  /\ CleanGate(g) /\ launch[g].contract = contract
  /\ (\E a \in Attempt : Mutating(a)) => Fresh(g)
  /\ accepted' = g
  /\ current' = NONE /\ recorded' = {}
  /\ UNCHANGED <<now, treeVars, contract, stage, launch, procVars, evidenceVars>>

-----------------------------------------------------------------------------

LaunchStep(a) ==
  \/ Preflight(a) \/ Capture(a) \/ PrepareFails(a) \/ ReserveAttempt(a) \/ Detach(a)
  \/ BindLaunched(a) \/ BindRefused(a) \/ LauncherDies(a)

WorkerStep(a) ==
  \/ StartWorker(a) \/ Write(a) \/ EndWorker(a)
  \/ SeeEnd(a) \/ GiveUp(a) \/ WriteTerminal(a) \/ LoseMonitor(a)

Next ==
  \/ \E a \in Attempt : LaunchStep(a) \/ WorkerStep(a) \/ BindAgain(a) \/ Gate(a) \/ Accept(a)
  \/ \E revision \in 1 .. MaxContract, supersede \in BOOLEAN : BindContract(revision, supersede)

Spec == Init /\ [][Next]_vars

-----------------------------------------------------------------------------
(* Type invariant *)

\* Every record, process table entry and field of the task's state holds what the code puts there.
TypeOK ==
  /\ now \in Nat /\ tree \in Nat /\ contract \in Nat
  /\ current \in Event /\ accepted \in Event
  /\ recorded \subseteq Process
  /\ stage \in [Attempt -> Stage]
  /\ launch \in [Attempt -> Launch]
  /\ reserved \subseteq Attempt
  /\ monitor \in [Attempt -> MonitorState]
  /\ noted \in [Attempt -> End]
  /\ worker \in [Attempt -> ProcessState]
  /\ terminal \in [Attempt -> Terminal]
  /\ gateScope \in [Attempt -> Scope]
  /\ superseded \in [Attempt -> Nat]
  /\ wrote \in [Attempt -> Nat]

-----------------------------------------------------------------------------
(* Safety *)

\* The attempts whose writes the acceptance of g has to answer for.
WroteUnder(a) == a \in reserved /\ launch[a].contract = contract /\ wrote[a] # 0

\* "Fresh Reviewer follows every project mutation" (accept_task, _assert_fresh_reviewer): whatever
\* launches overlap, and whatever crashes, a task is accepted only on a review whose baseline holds every
\* write its contract's writers have made.
ReviewSawEveryWrite ==
  [][\A g \in Attempt :
       Accept(g) => \A a \in Writer : WroteUnder(a) =>
                      g \notin Writer /\ wrote[a] <= launch[g].baseline]_vars

\* A supersession is final: the attempt it set aside never writes again, and never concludes.
SupersessionIsFinal ==
  \A a \in Attempt : superseded[a] # 0 => worker[a] # "running" /\ ~Terminated(a)

\* test_reviewer_before_supersession_boundary_is_stale: a review reserved before a writer was set
\* aside is not taken for one launched after it.
ReviewFollowsSupersession ==
  [][\A g \in Attempt \ Writer, a \in Writer :
       /\ superseded[a] = 0 /\ superseded'[a] # 0
       /\ g \in reserved /\ launch[g].contract = launch[a].contract
       => ~(launch[g].at > superseded'[a])]_vars

\* "No terminal event blocks normal relaunch."
IncompleteBlocksRelaunch ==
  [][\A a, b \in Attempt :
       /\ stage[a] = "unused" /\ stage'[a] = "preflighted" /\ a \notin Superseding
       /\ b \in reserved /\ launch[b].contract = contract
       => Terminated(b) \/ superseded[b] # 0]_vars

-----------------------------------------------------------------------------
(* Why *)

\* An attempt's life: reserved, then monitored, then over; its worker is its monitor's.
ProcessInv ==
  \A a \in Attempt :
    /\ stage[a] \in {"unused", "preflighted", "captured"} => a \notin reserved
    /\ stage[a] = "reserved" => a \in reserved /\ monitor[a] = "none" /\ ~Terminated(a)
    /\ stage[a] = "detached" => a \in reserved /\ (Terminated(a) \/ monitor[a] # "none")
    /\ a \notin reserved => monitor[a] = "none" /\ ~Terminated(a)
    /\ monitor[a] = "none" => worker[a] = "none"
    /\ monitor[a] = "closing" => worker[a] = "ended" /\ noted[a].status # "none"
    /\ worker[a] = "running" => monitor[a] = "running"
    /\ Terminated(a) => ~MonitorRuns(a)

\* The current attempt is over, or state.json holds its monitor's pid.
CurrentInv ==
  \A a \in Attempt : current = a =>
    \/ Terminated(a)
    \/ stage[a] = "done" /\ monitor[a] # "none" /\ "monitor" \in recorded

\* The clock and the tree only grow past what was noted of them; a writer's frozen scope shows it.
ClockInv ==
  \A a \in Attempt :
    /\ a \in reserved => launch[a].at <= now
    /\ wrote[a] <= tree /\ launch[a].baseline <= tree
    /\ wrote[a] # 0 => worker[a] # "none" /\ wrote[a] > launch[a].baseline
    /\ Terminated(a) /\ worker[a] # "none" => terminal[a].scope \in {"unchanged", "changed"}
    /\ Terminated(a) /\ wrote[a] # 0 => terminal[a].scope = "changed"

SupersessionInv ==
  \A a \in Attempt : superseded[a] # 0 =>
    /\ stage[a] = "done" /\ a \in reserved
    /\ monitor[a] = "ended" /\ ~Terminated(a)

\* When a's last write was behind it, as its monitor knows it or as the record says.
EndOf(a) == IF monitor[a] = "closing" THEN noted[a].ended ELSE Boundary(a)

\* A review reserved after a writer's end starts from that writer's writes, or it finds, when it
\* ends, that they moved the project under it.
BoundaryInv ==
  \A a \in Writer, g \in Attempt \ Writer :
    EndOf(a) # 0 /\ launch[g].at > EndOf(a) /\ CleanGate(g) => wrote[a] <= launch[g].baseline

\* Why an accepted review saw every write, when a worker ends with its monitor and supersessions
\* are as exact as reservations.
AcceptanceInv == ProcessInv /\ CurrentInv /\ ClockInv /\ SupersessionInv /\ BoundaryInv

=============================================================================
