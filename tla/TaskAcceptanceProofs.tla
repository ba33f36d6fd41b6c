------------------------ MODULE TaskAcceptanceProofs ------------------------
(***************************************************************************)
(* Proofs about TaskAcceptance: its types for every value of the            *)
(* constants, and, when a worker ends with its monitor, comparisons succeed *)
(* and supersessions are as exact as reservations, the inductive invariant  *)
(* AcceptanceInv, from which a superseded attempt is over and an accepted   *)
(* review saw every write.                                                  *)
(***************************************************************************)
EXTENDS TaskAcceptance, TLAPS

-----------------------------------------------------------------------------
(* The clock *)

\* Rounding to the second gives a clock value again.
LEMMA RoundingTyped ==
  ASSUME NEW t \in Nat
  PROVE  ToTheSecond(t) \in Nat
<1>1. TicksPerSecond \in Nat \ {0}
  BY ConstantsAssumption
<1>2. t \div TicksPerSecond \in Nat
  BY <1>1, SMT
<1>3. \A m, n \in Nat : m * n \in Nat
  OBVIOUS
<1> QED
  BY <1>1, <1>2, <1>3 DEF ToTheSecond

\* With one tick to the second, nothing is rounded away.
LEMMA RoundingExact ==
  ASSUME TicksPerSecond = 1, NEW t \in Nat
  PROVE  ToTheSecond(t) = t
BY DEF ToTheSecond

\* The clock never goes back.
LEMMA ClockForward ==
  ASSUME now \in Nat, ReadClock
  PROVE  now' \in Nat /\ now <= now'
BY DEF ReadClock

\* Setting the current attempt aside dates it at most now, and touches no other.
LEMMA ArchiveTyped ==
  ASSUME TypeOK, Archive
  PROVE  now' \in Nat /\ now <= now' /\ superseded' \in [Attempt -> Nat]
<1>1. CASE UNCHANGED <<now, superseded>>
  BY <1>1 DEF TypeOK
<1>2. CASE /\ ReadClock
           /\ superseded' = [superseded EXCEPT ![current] = ToTheSecond(now')]
  BY <1>2, ClockForward, RoundingTyped DEF TypeOK
<1> QED
  BY <1>1, <1>2 DEF Archive

\* Binding does what setting the current attempt aside does, or leaves the dates alone.
LEMMA BindTyped ==
  ASSUME TypeOK, NEW a \in Attempt, BindAttempt(a)
  PROVE  /\ now' \in Nat /\ now <= now' /\ superseded' \in [Attempt -> Nat]
         /\ current' = a /\ recorded' = PidsOf(a) /\ recorded' \subseteq Process
         /\ UNCHANGED <<contract, accepted>>
<1>1. PidsOf(a) \subseteq Process
  BY DEF PidsOf
<1>2. now' \in Nat /\ now <= now' /\ superseded' \in [Attempt -> Nat]
  BY ArchiveTyped DEF BindAttempt, TypeOK
<1> QED
  BY <1>1, <1>2 DEF BindAttempt, TypeOK

-----------------------------------------------------------------------------
(* Types *)

LEMMA TypeOKInit == Init => TypeOK
BY ConstantsAssumption
DEF Init, TypeOK, Event, Process, ProcessState, MonitorState, Stage, Launch, Terminal, NoLaunch,
    NoTerminal, Status, End, NoEnd, Scope

\* A launcher notes where its attempt starts, or when it was reserved.
LEMMA LaunchNoted ==
  ASSUME launch \in [Attempt -> Launch], NEW a \in Attempt, NEW n \in Nat,
         \/ launch' = [launch EXCEPT ![a].contract = n]
         \/ launch' = [launch EXCEPT ![a].baseline = n]
         \/ launch' = [launch EXCEPT ![a].at = n]
  PROVE  launch' \in [Attempt -> Launch]
<1>1. PICK x : x = launch[a]  OBVIOUS
<1>2. x \in Launch  BY <1>1
<1>3. /\ [x EXCEPT !.contract = n] \in Launch
      /\ [x EXCEPT !.baseline = n] \in Launch
      /\ [x EXCEPT !.at = n] \in Launch
  BY <1>2 DEF Launch
<1>4. PICK y \in Launch : launch' = [launch EXCEPT ![a] = y]
  BY <1>1, <1>3
<1> QED
  BY <1>4

\* A launcher's step.
LEMMA TypeOKLaunch ==
  ASSUME TypeOK, NEW a \in Attempt, LaunchStep(a)
  PROVE  TypeOK'
<1> USE DEF TypeOK, Event, ProcessState, MonitorState, Stage, Launch, Terminal, Status, Scope
<1> USE DEF vars, treeVars, stateVars, procVars, evidenceVars
<1>1. CASE Preflight(a)
  <2>1. launch' = [launch EXCEPT ![a].contract = contract]
    BY <1>1 DEF Preflight
  <2>2. launch' \in [Attempt -> Launch]
    BY <2>1, LaunchNoted
  <2>3. stage' = [stage EXCEPT ![a] = "preflighted"]
    BY <1>1 DEF Preflight
  <2> QED
    BY <1>1, <2>2, <2>3 DEF Preflight
<1>2. CASE Capture(a)
  <2>1. launch' \in [Attempt -> Launch]
    BY <1>2, LaunchNoted DEF Capture
  <2> QED
    BY <1>2, <2>1 DEF Capture
<1>3. CASE PrepareFails(a)
  BY <1>3 DEF PrepareFails
<1>4. CASE ReserveAttempt(a)
  <2>1. now' \in Nat
    BY <1>4, ClockForward DEF ReserveAttempt
  <2>2. launch' \in [Attempt -> Launch]
    BY <1>4, <2>1, LaunchNoted DEF ReserveAttempt
  <2> QED
    BY <1>4, <2>1, <2>2 DEF ReserveAttempt
<1>5. CASE Detach(a)
  <2>1. CASE UNCHANGED <<now, terminal>>
    BY <1>5, <2>1 DEF Detach
  <2>2. CASE ReadClock /\ terminal' = [terminal EXCEPT ![a] = Unscoped] /\ UNCHANGED monitor
    BY <1>5, <2>2, ClockForward DEF Detach, Unscoped
  <2> QED
    BY <1>5, <2>1, <2>2 DEF Detach
<1>6. CASE BindLaunched(a)
  BY <1>6, BindTyped DEF BindLaunched
<1>7. CASE BindRefused(a)
  BY <1>7 DEF BindRefused
<1>8. CASE LauncherDies(a)
  BY <1>8 DEF LauncherDies
<1> QED
  BY <1>1, <1>2, <1>3, <1>4, <1>5, <1>6, <1>7, <1>8 DEF LaunchStep

\* A step of the monitor or of the worker.
LEMMA TypeOKWorker ==
  ASSUME TypeOK, NEW a \in Attempt, WorkerStep(a)
  PROVE  TypeOK'
<1> USE DEF TypeOK, Event, ProcessState, MonitorState, Launch, Terminal, Status, End, Scope
<1> USE DEF vars, treeVars, stateVars, procVars, evidenceVars
<1>1. CASE StartWorker(a)
  <2>1. CASE UNCHANGED <<now, monitor, terminal>>
    BY <1>1, <2>1 DEF StartWorker
  <2>2. CASE ReadClock /\ terminal' = [terminal EXCEPT ![a] = Unscoped] /\ UNCHANGED worker
    BY <1>1, <2>2, ClockForward DEF StartWorker, Unscoped
  <2> QED
    BY <1>1, <2>1, <2>2 DEF StartWorker
<1>2. CASE Write(a)
  BY <1>2 DEF Write
<1>3. CASE EndWorker(a)
  BY <1>3 DEF EndWorker
<1>4. CASE SeeEnd(a)
  BY <1>4, ClockForward DEF SeeEnd, NoteEnd
<1>5. CASE GiveUp(a)
  BY <1>5, ClockForward DEF GiveUp, NoteEnd
<1>6. CASE WriteTerminal(a)
  <2>1. PICK scope \in Scope :
          terminal' = [terminal EXCEPT ![a] =
            [status |-> noted[a].status, ended |-> noted[a].ended, scope |-> scope]]
    BY <1>6 DEF WriteTerminal, Delta
  <2>2. terminal' \in [Attempt -> Terminal]
    BY <2>1
  <2>3. noted' \in [Attempt -> End]
    BY <1>6 DEF WriteTerminal, NoEnd
  <2>4. monitor' \in [Attempt -> MonitorState]
    BY <1>6 DEF WriteTerminal
  <2>5. UNCHANGED <<now, treeVars, stateVars, stage, launch, worker, reserved, gateScope,
                    superseded>>
    BY <1>6 DEF WriteTerminal
  <2> QED
    BY <2>2, <2>3, <2>4, <2>5
<1>7. CASE LoseMonitor(a)
  <2>1. noted' \in [Attempt -> End]
    BY <1>7 DEF LoseMonitor, NoEnd
  <2>2. monitor' \in [Attempt -> MonitorState]
    BY <1>7 DEF LoseMonitor
  <2>3. worker' \in [Attempt -> ProcessState]
    <3>1. CASE UNCHANGED worker
      BY <3>1
    <3>2. CASE worker' = [worker EXCEPT ![a] = IF @ = "running" THEN "ended" ELSE @]
      BY <3>2
    <3> QED
      BY <1>7, <3>1, <3>2 DEF LoseMonitor
  <2>4. UNCHANGED <<now, treeVars, stateVars, stage, launch, evidenceVars>>
    BY <1>7 DEF LoseMonitor
  <2> QED
    BY <2>1, <2>2, <2>3, <2>4
<1> QED
  BY <1>1, <1>2, <1>3, <1>4, <1>5, <1>6, <1>7 DEF WorkerStep

\* Every record, process table entry and field of the task's state holds what the code puts
\* there, for every value of the constants.
THEOREM TaskTypeCorrect == Spec => []TypeOK
<1>1. ASSUME TypeOK, [Next]_vars
      PROVE  TypeOK'
  <2>1. CASE UNCHANGED vars
    BY <1>1, <2>1
    DEF TypeOK, Terminated, vars, treeVars, stateVars, procVars, evidenceVars
  <2>2. ASSUME NEW a \in Attempt, BindAgain(a)
        PROVE  TypeOK'
    BY <1>1, <2>2, BindTyped DEF BindAgain, TypeOK, Event, treeVars, procVars
  <2>3. ASSUME NEW a \in Attempt, Accept(a)
        PROVE  TypeOK'
    BY <1>1, <2>3 DEF Accept, TypeOK, Event, treeVars, procVars, evidenceVars
  <2>4. ASSUME NEW a \in Attempt, Gate(a)
        PROVE  TypeOK'
    <3>1. gateScope' \in [Attempt -> Scope]
      BY <1>1, <2>4 DEF Gate, TypeOK, Delta, Scope
    <3> QED
      BY <1>1, <2>4, <3>1 DEF Gate, TypeOK, treeVars, stateVars, procVars
  <2>5. ASSUME NEW revision \in 1 .. MaxContract, NEW supersede \in BOOLEAN,
               BindContract(revision, supersede)
        PROVE  TypeOK'
    BY <1>1, <2>5, ArchiveTyped DEF BindContract, TypeOK, Event, Process, treeVars, procVars
  <2> QED
    BY <1>1, <2>1, <2>2, <2>3, <2>4, <2>5, TypeOKLaunch, TypeOKWorker DEF Next
<1> QED
  BY <1>1, TypeOKInit, PTL DEF Spec

-----------------------------------------------------------------------------
(* Setting an attempt aside *)

\* The current attempt is set aside only when its worker and its monitor are over; its
\* supersession is dated at the moment it was seen so.
LEMMA ArchiveEffect ==
  ASSUME TypeOK, AcceptanceInv, TicksPerSecond = 1,
         NEW supersede \in BOOLEAN, MayArchive(supersede), Archive
  PROVE  \A b \in Attempt : superseded'[b] # superseded[b] =>
           /\ superseded'[b] = now'
           /\ superseded[b] = 0
           /\ stage[b] = "done" /\ b \in reserved
           /\ monitor[b] = "ended" /\ ~Terminated(b)
<1> SUFFICES ASSUME NEW b \in Attempt, superseded'[b] # superseded[b]
             PROVE  /\ superseded'[b] = now'
                    /\ superseded[b] = 0
                    /\ stage[b] = "done" /\ b \in reserved
                    /\ monitor[b] = "ended" /\ ~Terminated(b)
  OBVIOUS
<1>1. /\ current # NONE /\ ~Terminated(current) /\ superseded[current] = 0
      /\ ReadClock /\ superseded' = [superseded EXCEPT ![current] = ToTheSecond(now')]
  BY DEF Archive
<1>2. current = b
  BY <1>1 DEF TypeOK
<1>3. superseded'[b] = now'
  BY <1>1, <1>2, ClockForward, RoundingExact DEF TypeOK
<1>4. ~RecordedLive(b)
  BY <1>1, <1>2 DEF MayArchive
<1>5. stage[b] = "done" /\ monitor[b] # "none" /\ "monitor" \in recorded
  BY <1>1, <1>2 DEF AcceptanceInv, CurrentInv
<1>6. monitor[b] = "ended"
  BY <1>4, <1>5 DEF RecordedLive, MonitorRuns, TypeOK, ProcessState, MonitorState
<1>7. b \in reserved
  BY <1>5 DEF AcceptanceInv, ProcessInv
<1> QED
  BY <1>1, <1>2, <1>3, <1>5, <1>6, <1>7

\* So does a binding, of the attempt that was current.
LEMMA BindEffect ==
  ASSUME TypeOK, AcceptanceInv, TicksPerSecond = 1,
         NEW a \in Attempt, NEW supersede \in BOOLEAN, MayBind(a, supersede), BindAttempt(a)
  PROVE  \A b \in Attempt : superseded'[b] # superseded[b] =>
           /\ superseded'[b] = now'
           /\ superseded[b] = 0
           /\ stage[b] = "done" /\ b \in reserved
           /\ monitor[b] = "ended" /\ ~Terminated(b)
BY ArchiveEffect DEF BindAttempt, MayBind

-----------------------------------------------------------------------------
(* The terminal record *)

\* When no comparison fails, a terminal record has the end that was noted and the project's delta,
\* and no other record changes.
LEMMA WriteTerminalEffect ==
  ASSUME TypeOK, ScopeMayFail = FALSE, NEW a \in Attempt, WriteTerminal(a)
  PROVE  /\ \A b \in Attempt \ {a} : terminal'[b] = terminal[b]
         /\ terminal'[a].status = noted[a].status
         /\ terminal'[a].ended = noted[a].ended
         /\ terminal'[a].scope = Delta(a)
<1>1. terminal' = [terminal EXCEPT ![a] =
        [status |-> noted[a].status, ended |-> noted[a].ended, scope |-> Delta(a)]]
  BY DEF WriteTerminal
<1> QED
  BY <1>1 DEF TypeOK

-----------------------------------------------------------------------------
(* The invariant, conjunct by conjunct *)

LEMMA AcceptanceInvInit == Init => AcceptanceInv
BY ConstantsAssumption
DEF Init, AcceptanceInv, ProcessInv, CurrentInv, ClockInv, SupersessionInv, BoundaryInv,
    MonitorRuns, Terminated, NoTerminal, NoLaunch, CleanGate

\* An attempt's life stays in order.
LEMMA ProcessInvLaunch ==
  ASSUME TypeOK, AcceptanceInv, NEW a \in Attempt, LaunchStep(a)
  PROVE  ProcessInv'
<1> USE DEF TypeOK, AcceptanceInv, ProcessInv, MonitorRuns, Terminated
<1> USE DEF treeVars, stateVars, procVars, evidenceVars
<1>1. CASE Preflight(a)
  BY <1>1 DEF Preflight
<1>2. CASE Capture(a)
  BY <1>2 DEF Capture
<1>3. CASE PrepareFails(a)
  BY <1>3 DEF PrepareFails
<1>4. CASE ReserveAttempt(a)
  BY <1>4 DEF ReserveAttempt
<1>5. CASE Detach(a)
  <2>1. CASE monitor' = [monitor EXCEPT ![a] = "running"] /\ UNCHANGED <<now, terminal>>
    BY <1>5, <2>1 DEF Detach
  <2>2. CASE terminal' = [terminal EXCEPT ![a] = Unscoped] /\ UNCHANGED monitor
    BY <1>5, <2>2 DEF Detach, Unscoped
  <2> QED
    BY <1>5, <2>1, <2>2 DEF Detach
<1>6. CASE BindLaunched(a)
  BY <1>6 DEF BindLaunched
<1>7. CASE BindRefused(a)
  BY <1>7 DEF BindRefused
<1>8. CASE LauncherDies(a)
  BY <1>8 DEF LauncherDies
<1> QED
  BY <1>1, <1>2, <1>3, <1>4, <1>5, <1>6, <1>7, <1>8 DEF LaunchStep

LEMMA ProcessInvWorker ==
  ASSUME TypeOK, AcceptanceInv, WorkerMayOutlive = FALSE, ScopeMayFail = FALSE,
         NEW a \in Attempt, WorkerStep(a)
  PROVE  ProcessInv'
<1> USE DEF TypeOK, AcceptanceInv, ProcessInv, MonitorRuns, Terminated
<1> USE DEF treeVars, stateVars, procVars, evidenceVars
<1>1. CASE StartWorker(a)
  BY <1>1 DEF StartWorker
<1>2. CASE Write(a)
  BY <1>2 DEF Write
<1>3. CASE EndWorker(a)
  BY <1>3 DEF EndWorker
<1>4. CASE SeeEnd(a)
  BY <1>4 DEF SeeEnd, NoteEnd
<1>5. CASE GiveUp(a)
  BY <1>5 DEF GiveUp, NoteEnd
<1>6. CASE WriteTerminal(a)
  <2>1. /\ terminal'[a].status = noted[a].status
        /\ \A b \in Attempt \ {a} : terminal'[b] = terminal[b]
    BY <1>6, WriteTerminalEffect
  <2> QED
    BY <1>6, <2>1 DEF WriteTerminal
<1>7. CASE LoseMonitor(a)
  BY <1>7 DEF LoseMonitor
<1> QED
  BY <1>1, <1>2, <1>3, <1>4, <1>5, <1>6, <1>7 DEF WorkerStep

\* state.json holds the pid of the current attempt's monitor, or the attempt is over.
LEMMA CurrentInvLaunch ==
  ASSUME TypeOK, AcceptanceInv, NEW a \in Attempt, LaunchStep(a)
  PROVE  CurrentInv'
<1> USE DEF TypeOK, AcceptanceInv, ProcessInv, CurrentInv, MonitorRuns, Terminated
<1> USE DEF treeVars, stateVars, procVars, evidenceVars
<1>1. CASE Preflight(a)
  BY <1>1 DEF Preflight
<1>2. CASE Capture(a)
  BY <1>2 DEF Capture
<1>3. CASE PrepareFails(a)
  BY <1>3 DEF PrepareFails
<1>4. CASE ReserveAttempt(a)
  BY <1>4 DEF ReserveAttempt
<1>5. CASE Detach(a)
  BY <1>5 DEF Detach, Unscoped
<1>6. CASE BindLaunched(a)
  <2>1. current' = a /\ recorded' = PidsOf(a)
    BY <1>6 DEF BindLaunched, BindAttempt
  <2>2. stage'[a] = "done" /\ UNCHANGED <<monitor, terminal>>
    BY <1>6 DEF BindLaunched
  <2>3. Terminated(a) \/ monitor[a] # "none"
    BY <1>6 DEF BindLaunched
  <2>4. monitor[a] # "none" => "monitor" \in PidsOf(a)
    BY DEF PidsOf, Process
  <2> QED
    BY <2>1, <2>2, <2>3, <2>4
<1>7. CASE BindRefused(a)
  BY <1>7 DEF BindRefused
<1>8. CASE LauncherDies(a)
  BY <1>8 DEF LauncherDies
<1> QED
  BY <1>1, <1>2, <1>3, <1>4, <1>5, <1>6, <1>7, <1>8 DEF LaunchStep

LEMMA CurrentInvWorker ==
  ASSUME TypeOK, AcceptanceInv, ScopeMayFail = FALSE, NEW a \in Attempt, WorkerStep(a)
  PROVE  CurrentInv'
<1> USE DEF TypeOK, AcceptanceInv, ProcessInv, CurrentInv, MonitorRuns, Terminated
<1> USE DEF treeVars, stateVars, procVars, evidenceVars
<1>1. CASE StartWorker(a)
  BY <1>1 DEF StartWorker, Unscoped
<1>2. CASE Write(a)
  BY <1>2 DEF Write
<1>3. CASE EndWorker(a)
  BY <1>3 DEF EndWorker
<1>4. CASE SeeEnd(a)
  BY <1>4 DEF SeeEnd, NoteEnd
<1>5. CASE GiveUp(a)
  BY <1>5 DEF GiveUp, NoteEnd
<1>6. CASE WriteTerminal(a)
  <2>1. /\ terminal'[a].status = noted[a].status
        /\ \A b \in Attempt \ {a} : terminal'[b] = terminal[b]
    BY <1>6, WriteTerminalEffect
  <2> QED
    BY <1>6, <2>1 DEF WriteTerminal
<1>7. CASE LoseMonitor(a)
  BY <1>7 DEF LoseMonitor
<1> QED
  BY <1>1, <1>2, <1>3, <1>4, <1>5, <1>6, <1>7 DEF WorkerStep

\* The clock and the tree only grow past what was noted of them.
LEMMA ClockInvLaunch ==
  ASSUME TypeOK, AcceptanceInv, NEW a \in Attempt, LaunchStep(a)
  PROVE  ClockInv'
<1> USE DEF TypeOK, AcceptanceInv, ProcessInv, ClockInv, MonitorRuns, Terminated, Launch
<1> USE DEF treeVars, stateVars, procVars, evidenceVars
<1>1. CASE Preflight(a)
  <2>1. a \notin reserved /\ wrote[a] = 0
    BY <1>1 DEF Preflight
  <2>2. /\ launch'[a].baseline = launch[a].baseline /\ launch'[a].at = launch[a].at
        /\ \A b \in Attempt \ {a} : launch'[b] = launch[b]
    BY <1>1 DEF Preflight
  <2> QED
    BY <1>1, <2>1, <2>2 DEF Preflight
<1>2. CASE Capture(a)
  <2>1. a \notin reserved /\ wrote[a] = 0
    BY <1>2 DEF Capture
  <2> QED
    BY <1>2, <2>1 DEF Capture
<1>3. CASE PrepareFails(a)
  BY <1>3 DEF PrepareFails
<1>4. CASE ReserveAttempt(a)
  <2>1. now' \in Nat /\ now <= now'
    BY <1>4, ClockForward DEF ReserveAttempt
  <2> QED
    BY <1>4, <2>1 DEF ReserveAttempt
<1>5. CASE Detach(a)
  <2>1. now' \in Nat /\ now <= now'
    BY <1>5, ClockForward DEF Detach
  <2>2. worker[a] = "none"
    BY <1>5 DEF Detach
  <2>3. /\ wrote[a] = 0
        /\ \A b \in Attempt \ {a} : terminal'[b] = terminal[b]
    BY <1>5, <2>2 DEF Detach
  <2>4. UNCHANGED <<tree, wrote, launch, worker, reserved>>
    BY <1>5 DEF Detach
  <2> QED
    BY <2>1, <2>2, <2>3, <2>4
<1>6. CASE BindLaunched(a)
  BY <1>6, BindTyped DEF BindLaunched
<1>7. CASE BindRefused(a)
  BY <1>7 DEF BindRefused
<1>8. CASE LauncherDies(a)
  BY <1>8 DEF LauncherDies
<1> QED
  BY <1>1, <1>2, <1>3, <1>4, <1>5, <1>6, <1>7, <1>8 DEF LaunchStep

LEMMA ClockInvWorker ==
  ASSUME TypeOK, AcceptanceInv, ScopeMayFail = FALSE, NEW a \in Attempt, WorkerStep(a)
  PROVE  ClockInv'
<1> USE DEF TypeOK, AcceptanceInv, ProcessInv, ClockInv, MonitorRuns, Terminated, Launch
<1> USE DEF treeVars, stateVars, procVars, evidenceVars
<1>1. CASE StartWorker(a)
  <2>1. now' \in Nat /\ now <= now'
    BY <1>1, ClockForward DEF StartWorker
  <2> QED
    BY <1>1, <2>1 DEF StartWorker, Unscoped
<1>2. CASE Write(a)
  <2>1. ~Terminated(a)
    BY <1>2 DEF Write
  <2> QED
    BY <1>2, <2>1 DEF Write
<1>3. CASE EndWorker(a)
  BY <1>3 DEF EndWorker
<1>4. CASE SeeEnd(a)
  <2>1. now' \in Nat /\ now <= now'
    BY <1>4, ClockForward DEF SeeEnd, NoteEnd
  <2> QED
    BY <1>4, <2>1 DEF SeeEnd, NoteEnd
<1>5. CASE GiveUp(a)
  <2>1. now' \in Nat /\ now <= now'
    BY <1>5, ClockForward DEF GiveUp, NoteEnd
  <2>2. ~Terminated(a)
    BY <1>5 DEF GiveUp
  <2> QED
    BY <1>5, <2>1, <2>2 DEF GiveUp, NoteEnd
<1>6. CASE WriteTerminal(a)
  <2>1. /\ terminal'[a].scope = Delta(a)
        /\ \A b \in Attempt \ {a} : terminal'[b] = terminal[b]
    BY <1>6, WriteTerminalEffect
  <2>2. Delta(a) \in {"unchanged", "changed"} /\ (wrote[a] # 0 => Delta(a) = "changed")
    BY DEF Delta
  <2>3. UNCHANGED <<now, treeVars, launch, worker, reserved>>
    BY <1>6 DEF WriteTerminal
  <2> QED
    BY <2>1, <2>2, <2>3
<1>7. CASE LoseMonitor(a)
  BY <1>7 DEF LoseMonitor
<1> QED
  BY <1>1, <1>2, <1>3, <1>4, <1>5, <1>6, <1>7 DEF WorkerStep

\* A superseded attempt stays over.
LEMMA SupersessionInvLaunch ==
  ASSUME TypeOK, AcceptanceInv, TicksPerSecond = 1, NEW a \in Attempt, LaunchStep(a)
  PROVE  SupersessionInv'
<1> USE DEF SupersessionInv, Terminated, treeVars, stateVars, procVars, evidenceVars
<1>0. TypeOK /\ SupersessionInv
  BY DEF AcceptanceInv
<1>1. CASE Preflight(a)
  BY <1>0, <1>1 DEF Preflight, TypeOK
<1>2. CASE Capture(a)
  BY <1>0, <1>2 DEF Capture, TypeOK
<1>3. CASE PrepareFails(a)
  BY <1>0, <1>3 DEF PrepareFails, TypeOK
<1>4. CASE ReserveAttempt(a)
  BY <1>0, <1>4 DEF ReserveAttempt, TypeOK
<1>5. CASE Detach(a)
  BY <1>0, <1>5 DEF Detach, TypeOK
<1>6. CASE BindLaunched(a)
  <2>1. (a \in Superseding) \in BOOLEAN
    OBVIOUS
  <2>2. \A b \in Attempt : superseded'[b] # superseded[b] =>
          stage[b] = "done" /\ b \in reserved /\ monitor[b] = "ended" /\ ~Terminated(b)
    BY <1>6, <2>1, BindEffect DEF BindLaunched
  <2> QED
    BY <1>0, <1>6, <2>2 DEF BindLaunched, TypeOK
<1>7. CASE BindRefused(a)
  BY <1>0, <1>7 DEF BindRefused, TypeOK
<1>8. CASE LauncherDies(a)
  BY <1>0, <1>8 DEF LauncherDies, TypeOK
<1> QED
  BY <1>1, <1>2, <1>3, <1>4, <1>5, <1>6, <1>7, <1>8 DEF LaunchStep

LEMMA SupersessionInvWorker ==
  ASSUME TypeOK, AcceptanceInv, ScopeMayFail = FALSE, NEW a \in Attempt, WorkerStep(a)
  PROVE  SupersessionInv'
<1> USE DEF SupersessionInv, Terminated, treeVars, stateVars, procVars, evidenceVars
<1>0. TypeOK /\ SupersessionInv
  BY DEF AcceptanceInv
<1>1. CASE StartWorker(a)
  BY <1>0, <1>1 DEF StartWorker, TypeOK
<1>2. CASE Write(a)
  BY <1>0, <1>2 DEF Write, TypeOK
<1>3. CASE EndWorker(a)
  BY <1>0, <1>3 DEF EndWorker, TypeOK
<1>4. CASE SeeEnd(a)
  BY <1>0, <1>4 DEF SeeEnd, NoteEnd, TypeOK, MonitorState, ProcessState
<1>5. CASE GiveUp(a)
  BY <1>0, <1>5 DEF GiveUp, NoteEnd, TypeOK
<1>6. CASE WriteTerminal(a)
  <2>1. \A b \in Attempt \ {a} : terminal'[b] = terminal[b]
    BY <1>6, WriteTerminalEffect
  <2> QED
    BY <1>0, <1>6, <2>1 DEF WriteTerminal, TypeOK
<1>7. CASE LoseMonitor(a)
  BY <1>0, <1>7 DEF LoseMonitor, MonitorRuns, TypeOK
<1> QED
  BY <1>1, <1>2, <1>3, <1>4, <1>5, <1>6, <1>7 DEF WorkerStep

\* A step that concludes no attempt and writes nothing: what it dates is dated no earlier than any
\* reservation that has a record, and what it launches has none.
LEMMA BoundaryInvKept ==
  ASSUME TypeOK, AcceptanceInv, now' \in Nat, now <= now',
         UNCHANGED <<terminal, wrote>>,
         \A b \in Attempt : launch'[b] = launch[b] \/ b \notin reserved,
         \A b \in Attempt : EndOf(b)' = EndOf(b) \/ EndOf(b)' = 0 \/ EndOf(b)' = now'
  PROVE  BoundaryInv'
<1> SUFFICES ASSUME NEW a \in Writer, NEW g \in Attempt \ Writer,
                    EndOf(a)' # 0, launch'[g].at > EndOf(a)', CleanGate(g)'
             PROVE  wrote[a] <= launch'[g].baseline
  BY DEF BoundaryInv
<1>1. CleanGate(g) /\ Terminated(g)
  BY DEF CleanGate, Terminated
<1>2. launch'[g] = launch[g] /\ launch[g].at <= now /\ launch[g].at \in Nat
  BY <1>1 DEF AcceptanceInv, ProcessInv, ClockInv, TypeOK, Launch
<1>3. a \in Attempt
  BY ConstantsAssumption
<1>4. EndOf(a)' = EndOf(a)
  BY <1>2, <1>3 DEF TypeOK
<1> QED
  BY <1>1, <1>2, <1>4 DEF AcceptanceInv, BoundaryInv

\* So in particular when no end, no supersession and no monitor changes either.
LEMMA BoundaryInvStutters ==
  ASSUME TypeOK, AcceptanceInv, now' \in Nat, now <= now',
         UNCHANGED <<terminal, wrote, superseded, noted>>,
         \A b \in Attempt : monitor'[b] = "closing" <=> monitor[b] = "closing",
         \A b \in Attempt : launch'[b] = launch[b] \/ b \notin reserved
  PROVE  BoundaryInv'
<1>1. \A b \in Attempt : EndOf(b)' = EndOf(b)
  BY DEF EndOf, Boundary, Terminated
<1> QED
  BY <1>1, BoundaryInvKept

\* A terminal record dated now, that nobody compared: whatever review was reserved before is not
\* after it.
LEMMA BoundaryInvUnscoped ==
  ASSUME TypeOK, AcceptanceInv, NEW b \in Attempt, ReadClock, ~Terminated(b),
         terminal' = [terminal EXCEPT ![b] = Unscoped],
         monitor'[b] # "closing",
         \A a \in Attempt \ {b} : monitor'[a] = monitor[a],
         UNCHANGED <<launch, superseded, wrote, noted>>
  PROVE  BoundaryInv'
<1> SUFFICES ASSUME NEW a \in Writer, NEW g \in Attempt \ Writer,
                    EndOf(a)' # 0, launch[g].at > EndOf(a)', CleanGate(g)'
             PROVE  wrote[a] <= launch[g].baseline
  BY DEF BoundaryInv
<1>0. a \in Attempt
  BY ConstantsAssumption
<1>1. now' \in Nat /\ now <= now'
  BY ClockForward DEF TypeOK
<1>2. terminal'[b] = Unscoped /\ \A c \in Attempt \ {b} : terminal'[c] = terminal[c]
  BY DEF TypeOK
<1>3. terminal'[b].ended = now' /\ terminal'[b].status = "failed"
  BY <1>2 DEF Unscoped
<1>4. g # b /\ CleanGate(g) /\ Terminated(g)
  BY <1>2, <1>3 DEF CleanGate, Terminated
<1>5. launch[g].at <= now /\ launch[g].at \in Nat
  BY <1>4 DEF AcceptanceInv, ProcessInv, ClockInv, TypeOK, Launch
<1>6. EndOf(b)' = now'
  BY <1>3 DEF EndOf, Boundary, Terminated
<1>7. a # b
  BY <1>1, <1>5, <1>6 DEF TypeOK
<1>8. EndOf(a)' = EndOf(a)
  BY <1>0, <1>2, <1>7 DEF EndOf, Boundary, Terminated
<1> QED
  BY <1>4, <1>8 DEF AcceptanceInv, BoundaryInv

\* A terminal record with a frozen scope: it has the end that was noted, and if it is a clean
\* review's, the project is where its baseline was.
LEMMA BoundaryInvScoped ==
  ASSUME TypeOK, AcceptanceInv, ScopeMayFail = FALSE, NEW b \in Attempt, WriteTerminal(b)
  PROVE  BoundaryInv'
<1> SUFFICES ASSUME NEW a \in Writer, NEW g \in Attempt \ Writer,
                    EndOf(a)' # 0, launch[g].at > EndOf(a)', CleanGate(g)'
             PROVE  wrote[a] <= launch[g].baseline
  BY DEF BoundaryInv, WriteTerminal, treeVars
<1>0. a \in Attempt
  BY ConstantsAssumption
<1>1. /\ \A c \in Attempt \ {b} : terminal'[c] = terminal[c]
      /\ terminal'[b].status = noted[b].status
      /\ terminal'[b].ended = noted[b].ended
      /\ terminal'[b].scope = Delta(b)
  BY WriteTerminalEffect
<1>2. /\ monitor[b] = "closing" /\ noted[b].status # "none"
      /\ monitor' = [monitor EXCEPT ![b] = "ended"] /\ noted' = [noted EXCEPT ![b] = NoEnd]
      /\ UNCHANGED superseded
  BY DEF WriteTerminal, AcceptanceInv, ProcessInv
<1>3. EndOf(a)' = EndOf(a)
  <2>1. CASE a = b
    BY <2>1, <1>1, <1>2 DEF EndOf, Boundary, Terminated, TypeOK
  <2>2. CASE a # b
    BY <2>2, <1>0, <1>1, <1>2 DEF EndOf, Boundary, Terminated, TypeOK
  <2> QED
    BY <2>1, <2>2
<1>4. CASE g = b
  <2>1. tree = launch[g].baseline
    BY <1>1, <1>4 DEF CleanGate, Delta
  <2> QED
    BY <1>0, <2>1 DEF AcceptanceInv, ClockInv
<1>5. CASE g # b
  <2>1. CleanGate(g)
    BY <1>1, <1>5 DEF CleanGate
  <2> QED
    BY <1>3, <2>1 DEF AcceptanceInv, BoundaryInv
<1> QED
  BY <1>4, <1>5

\* A review reserved after a writer's boundary starts from that writer's writes, or is not clean.
LEMMA BoundaryInvLaunch ==
  ASSUME TypeOK, AcceptanceInv, TicksPerSecond = 1, NEW a \in Attempt, LaunchStep(a)
  PROVE  BoundaryInv'
<1> USE DEF treeVars, stateVars, procVars, evidenceVars
<1>0. now \in Nat /\ launch \in [Attempt -> Launch] /\ superseded \in [Attempt -> Nat]
  BY DEF TypeOK
<1>1. CASE Preflight(a)
  <2>1. a \notin reserved
    BY <1>1 DEF Preflight, AcceptanceInv, ProcessInv
  <2>2. UNCHANGED <<now, terminal, superseded, wrote, noted, monitor>>
    BY <1>1 DEF Preflight
  <2>3. \A b \in Attempt \ {a} : launch'[b] = launch[b]
    BY <1>0, <1>1 DEF Preflight
  <2> QED
    BY <1>0, <2>1, <2>2, <2>3, BoundaryInvStutters
<1>2. CASE Capture(a)
  <2>1. a \notin reserved
    BY <1>2 DEF Capture, AcceptanceInv, ProcessInv
  <2>2. UNCHANGED <<now, terminal, superseded, wrote, noted, monitor>>
    BY <1>2 DEF Capture
  <2>3. \A b \in Attempt \ {a} : launch'[b] = launch[b]
    BY <1>0, <1>2 DEF Capture
  <2> QED
    BY <1>0, <2>1, <2>2, <2>3, BoundaryInvStutters
<1>3. CASE PrepareFails(a)
  BY <1>0, <1>3, BoundaryInvStutters DEF PrepareFails
<1>4. CASE ReserveAttempt(a)
  <2>1. a \notin reserved
    BY <1>4 DEF ReserveAttempt, AcceptanceInv, ProcessInv
  <2>2. UNCHANGED <<terminal, superseded, wrote, noted, monitor>> /\ now' \in Nat /\ now <= now'
    BY <1>0, <1>4, ClockForward DEF ReserveAttempt
  <2>3. \A b \in Attempt \ {a} : launch'[b] = launch[b]
    BY <1>0, <1>4 DEF ReserveAttempt
  <2> QED
    BY <1>0, <2>1, <2>2, <2>3, BoundaryInvStutters
<1>5. CASE Detach(a)
  <2>1. CASE UNCHANGED <<now, terminal>> /\ monitor' = [monitor EXCEPT ![a] = "running"]
    <3>1. monitor[a] = "none"
      BY <1>5 DEF Detach, AcceptanceInv, ProcessInv
    <3>2. \A b \in Attempt : monitor'[b] = "closing" <=> monitor[b] = "closing"
      BY <2>1, <3>1 DEF TypeOK
    <3> QED
      BY <1>0, <1>5, <2>1, <3>2, BoundaryInvStutters DEF Detach
  <2>2. CASE ReadClock /\ terminal' = [terminal EXCEPT ![a] = Unscoped] /\ UNCHANGED monitor
    <3>1. ~Terminated(a) /\ monitor[a] = "none"
      BY <1>5 DEF Detach, AcceptanceInv, ProcessInv
    <3> QED
      BY <1>5, <2>2, <3>1, BoundaryInvUnscoped DEF Detach
  <2> QED
    BY <1>5, <2>1, <2>2 DEF Detach
<1>6. CASE BindLaunched(a)
  <2>1. (a \in Superseding) \in BOOLEAN
    OBVIOUS
  <2>2. \A b \in Attempt : superseded'[b] # superseded[b] => superseded'[b] = now'
    BY <1>6, <2>1, BindEffect DEF BindLaunched
  <2>3. now' \in Nat /\ now <= now'
    BY <1>6, BindTyped DEF BindLaunched
  <2>4. UNCHANGED <<monitor, noted, terminal, wrote, launch>>
    BY <1>6 DEF BindLaunched
  <2>5. \A b \in Attempt : EndOf(b)' = EndOf(b) \/ EndOf(b)' = now'
    BY <2>2, <2>4 DEF EndOf, Boundary, Terminated
  <2> QED
    BY <2>3, <2>4, <2>5, BoundaryInvKept
<1>7. CASE BindRefused(a)
  BY <1>0, <1>7, BoundaryInvStutters DEF BindRefused
<1>8. CASE LauncherDies(a)
  BY <1>0, <1>8, BoundaryInvStutters DEF LauncherDies
<1> QED
  BY <1>1, <1>2, <1>3, <1>4, <1>5, <1>6, <1>7, <1>8 DEF LaunchStep

LEMMA BoundaryInvWorker ==
  ASSUME TypeOK, AcceptanceInv, ScopeMayFail = FALSE, NEW a \in Attempt, WorkerStep(a)
  PROVE  BoundaryInv'
<1> USE DEF treeVars, stateVars, procVars, evidenceVars
<1>0. now \in Nat
  BY DEF TypeOK
<1>1. MonitorRuns(a) \/ worker[a] = "running" => ~Terminated(a) /\ superseded[a] = 0
  BY DEF AcceptanceInv, ProcessInv, SupersessionInv, MonitorRuns
<1>2. CASE StartWorker(a)
  <2>1. CASE UNCHANGED <<now, monitor, terminal>>
    BY <1>0, <1>2, <2>1, BoundaryInvStutters DEF StartWorker
  <2>2. CASE /\ monitor' = [monitor EXCEPT ![a] = "ended"]
             /\ ReadClock /\ terminal' = [terminal EXCEPT ![a] = Unscoped] /\ UNCHANGED worker
    <3>1. /\ monitor'[a] # "closing"
          /\ \A b \in Attempt \ {a} : monitor'[b] = monitor[b]
      BY <2>2 DEF TypeOK
    <3>2. ~Terminated(a)
      BY <1>1, <1>2 DEF StartWorker, MonitorRuns
    <3> QED
      BY <1>2, <2>2, <3>1, <3>2, BoundaryInvUnscoped DEF StartWorker
  <2> QED
    BY <1>2, <2>1, <2>2 DEF StartWorker
<1>3. CASE Write(a)
  <2>1. EndOf(a) = 0
    BY <1>1, <1>3 DEF Write, EndOf, Boundary, AcceptanceInv, ProcessInv
  <2>2. \A b \in Attempt : b # a => wrote'[b] = wrote[b]
    BY <1>3 DEF Write, TypeOK
  <2>3. UNCHANGED <<launch, terminal, superseded, monitor, noted>>
    BY <1>3 DEF Write
  <2>4. Writer \subseteq Attempt
    BY ConstantsAssumption
  <2> QED
    BY <2>1, <2>2, <2>3, <2>4
    DEF AcceptanceInv, BoundaryInv, EndOf, Boundary, CleanGate, Terminated
<1>4. CASE EndWorker(a)
  BY <1>0, <1>4, BoundaryInvStutters DEF EndWorker
<1>5. ASSUME monitor[a] = "running", NEW outcome, NoteEnd(a, outcome),
             UNCHANGED <<treeVars, launch, evidenceVars>>
      PROVE  BoundaryInv'
  <2>1. now' \in Nat /\ now <= now'
    BY <1>0, <1>5, ClockForward DEF NoteEnd
  <2>2. EndOf(a)' = now'
    BY <1>5 DEF NoteEnd, EndOf, TypeOK
  <2>3. \A b \in Attempt \ {a} : EndOf(b)' = EndOf(b)
    BY <1>5 DEF NoteEnd, EndOf, Boundary, Terminated, TypeOK
  <2> QED
    BY <1>5, <2>1, <2>2, <2>3, BoundaryInvKept
<1>6. CASE SeeEnd(a)
  BY <1>5, <1>6 DEF SeeEnd
<1>7. CASE GiveUp(a)
  BY <1>5, <1>7 DEF GiveUp
<1>8. CASE WriteTerminal(a)
  BY <1>8, BoundaryInvScoped
<1>9. CASE LoseMonitor(a)
  <2>1. EndOf(a)' = 0
    BY <1>1, <1>9 DEF LoseMonitor, EndOf, Boundary, Terminated, TypeOK
  <2>2. \A b \in Attempt \ {a} : EndOf(b)' = EndOf(b)
    BY <1>9 DEF LoseMonitor, EndOf, Boundary, Terminated, TypeOK
  <2> QED
    BY <1>0, <1>9, <2>1, <2>2, BoundaryInvKept DEF LoseMonitor
<1> QED
  BY <1>2, <1>3, <1>4, <1>6, <1>7, <1>8, <1>9 DEF WorkerStep

-----------------------------------------------------------------------------
(* The commands that write state.json alone *)

\* A command that changes only the task's entry, and may set the current attempt aside.
LEMMA AcceptanceInvCommand ==
  ASSUME TypeOK, AcceptanceInv, CurrentInv', now' \in Nat, now <= now',
         UNCHANGED <<treeVars, stage, launch, procVars, reserved, terminal, gateScope>>,
         \A b \in Attempt : superseded'[b] # superseded[b] =>
           /\ superseded'[b] = now'
           /\ stage[b] = "done" /\ b \in reserved
           /\ monitor[b] = "ended" /\ ~Terminated(b)
  PROVE  AcceptanceInv'
<1> USE DEF treeVars, procVars
<1>1. ProcessInv'
  BY DEF AcceptanceInv, ProcessInv, MonitorRuns, Terminated
<1>2. ClockInv'
  BY DEF AcceptanceInv, ClockInv, Terminated, TypeOK, Launch
<1>3. SupersessionInv'
  BY DEF AcceptanceInv, SupersessionInv, Terminated
<1>4. \A b \in Attempt : EndOf(b)' = EndOf(b) \/ EndOf(b)' = now'
  BY DEF EndOf, Boundary, Terminated
<1>5. BoundaryInv'
  BY <1>4, BoundaryInvKept
<1> QED
  BY <1>1, <1>2, <1>3, <1>5 DEF AcceptanceInv

\* Binding again an attempt that is over.
LEMMA AcceptanceInvBindAgain ==
  ASSUME TypeOK, AcceptanceInv, TicksPerSecond = 1, NEW a \in Attempt, BindAgain(a)
  PROVE  AcceptanceInv'
<1>1. current' = a /\ now' \in Nat /\ now <= now'
  BY BindTyped DEF BindAgain
<1>2. CurrentInv'
  BY <1>1 DEF BindAgain, CurrentInv, Terminated
<1>3. \A b \in Attempt : superseded'[b] # superseded[b] =>
        /\ superseded'[b] = now'
        /\ stage[b] = "done" /\ b \in reserved
        /\ monitor[b] = "ended" /\ ~Terminated(b)
  BY BindEffect DEF BindAgain
<1> QED
  BY <1>1, <1>2, <1>3, AcceptanceInvCommand DEF BindAgain

\* Another contract.
LEMMA AcceptanceInvBindContract ==
  ASSUME TypeOK, AcceptanceInv, TicksPerSecond = 1,
         NEW revision, NEW supersede \in BOOLEAN, BindContract(revision, supersede)
  PROVE  AcceptanceInv'
<1>1. now' \in Nat /\ now <= now'
  BY ArchiveTyped DEF BindContract
<1>2. CurrentInv'
  BY ConstantsAssumption DEF BindContract, CurrentInv
<1>3. \A b \in Attempt : superseded'[b] # superseded[b] =>
        /\ superseded'[b] = now'
        /\ stage[b] = "done" /\ b \in reserved
        /\ monitor[b] = "ended" /\ ~Terminated(b)
  BY ArchiveEffect DEF BindContract
<1> QED
  BY <1>1, <1>2, <1>3, AcceptanceInvCommand DEF BindContract

\* A gate leaves everything but its own scope as it was.
LEMMA AcceptanceInvGate ==
  ASSUME TypeOK, AcceptanceInv, NEW a \in Attempt, Gate(a)
  PROVE  AcceptanceInv'
BY DEF Gate, AcceptanceInv, ProcessInv, CurrentInv, ClockInv, SupersessionInv, BoundaryInv,
       EndOf, Boundary, CleanGate, MonitorRuns, Terminated, treeVars, stateVars, procVars

\* Accepting the task.
LEMMA AcceptanceInvAccept ==
  ASSUME TypeOK, AcceptanceInv, NEW g \in Attempt, Accept(g)
  PROVE  AcceptanceInv'
<1>1. CurrentInv'
  BY ConstantsAssumption DEF Accept, CurrentInv
<1>2. now' \in Nat /\ now <= now' /\ superseded' = superseded
  BY DEF Accept, evidenceVars, TypeOK
<1> QED
  BY <1>1, <1>2, AcceptanceInvCommand DEF Accept, treeVars, procVars, evidenceVars

-----------------------------------------------------------------------------
(* The theorems *)

\* The inductive invariant: what makes a review that was reserved after a writer's end, or after
\* its supersession, a review of everything that writer did.
THEOREM AcceptanceInvariant ==
  ASSUME TicksPerSecond = 1, WorkerMayOutlive = FALSE, ScopeMayFail = FALSE
  PROVE  Spec => []AcceptanceInv
<1>1. ASSUME TypeOK, AcceptanceInv, [Next]_vars
      PROVE  AcceptanceInv'
  <2>1. CASE UNCHANGED vars
    BY <1>1, <2>1
    DEF AcceptanceInv, ProcessInv, CurrentInv, ClockInv, SupersessionInv, BoundaryInv, EndOf,
        Boundary, CleanGate, MonitorRuns, Terminated, vars, treeVars, stateVars, procVars, evidenceVars
  <2>2. ASSUME NEW a \in Attempt, LaunchStep(a)
        PROVE  AcceptanceInv'
    BY <1>1, <2>2, ProcessInvLaunch, CurrentInvLaunch, ClockInvLaunch, SupersessionInvLaunch,
       BoundaryInvLaunch
    DEF AcceptanceInv
  <2>3. ASSUME NEW a \in Attempt, WorkerStep(a)
        PROVE  AcceptanceInv'
    BY <1>1, <2>3, ProcessInvWorker, CurrentInvWorker, ClockInvWorker, SupersessionInvWorker,
       BoundaryInvWorker
    DEF AcceptanceInv
  <2> QED
    BY <1>1, <2>1, <2>2, <2>3, AcceptanceInvBindAgain, AcceptanceInvBindContract,
       AcceptanceInvGate, AcceptanceInvAccept
    DEF Next
<1> QED
  BY <1>1, AcceptanceInvInit, TaskTypeCorrect, PTL DEF Spec

\* An attempt that was set aside has no worker that still writes, and never concludes.
THEOREM SupersededIsOver ==
  ASSUME TicksPerSecond = 1, WorkerMayOutlive = FALSE, ScopeMayFail = FALSE
  PROVE  Spec => []SupersessionIsFinal
<1>1. AcceptanceInv => SupersessionIsFinal
  BY DEF AcceptanceInv, ProcessInv, SupersessionInv, SupersessionIsFinal, Terminated
<1> QED
  BY <1>1, AcceptanceInvariant, PTL

\* A task is accepted only on a review whose baseline holds every write of its contract's writers,
\* for any number of attempts, however their launches overlap and whatever is killed.
THEOREM AcceptedReviewSawEveryWrite ==
  ASSUME TicksPerSecond = 1, WorkerMayOutlive = FALSE, ScopeMayFail = FALSE
  PROVE  Spec => ReviewSawEveryWrite
<1>1. ASSUME TypeOK, AcceptanceInv,
             NEW g \in Attempt, Accept(g), NEW a \in Writer, WroteUnder(a)
      PROVE  g \notin Writer /\ wrote[a] <= launch[g].baseline
  <2>1. a \in Attempt
    BY ConstantsAssumption
  <2>2. Terminated(a) => KnownScope(a) = "changed"
    BY <1>1, <2>1 DEF AcceptanceInv, ClockInv, WroteUnder, KnownScope
  <2>3. Mutating(a)
    BY <1>1, <2>2 DEF Mutating, WroteUnder
  <2>4. Fresh(g) /\ CleanGate(g)
    BY <1>1, <2>1, <2>3 DEF Accept
  <2>5. g \notin Writer /\ Boundary(a) # 0 /\ launch[g].at > Boundary(a)
    BY <2>1, <2>3, <2>4 DEF Fresh
  <2>6. EndOf(a) = Boundary(a)
    BY <1>1, <2>1, <2>5
    DEF AcceptanceInv, ProcessInv, SupersessionInv, MonitorRuns, EndOf, Boundary
  <2> QED
    BY <1>1, <2>4, <2>5, <2>6 DEF AcceptanceInv, BoundaryInv
<1>2. TypeOK /\ AcceptanceInv =>
        [\A g \in Attempt :
           Accept(g) => \A a \in Writer : WroteUnder(a) =>
                          g \notin Writer /\ wrote[a] <= launch[g].baseline]_vars
  BY <1>1
<1> QED
  BY <1>2, TaskTypeCorrect, AcceptanceInvariant, PTL DEF ReviewSawEveryWrite

=============================================================================
