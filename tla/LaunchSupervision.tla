--------------------------- MODULE LaunchSupervision ---------------------------
(***************************************************************************)
(* One run's supervised launches: `continue` and `recover --apply` callers, *)
(* the run lock, the supervision record active.json, the supervisors they   *)
(* start, the launcher / run_worker / monitor / worker processes of each    *)
(* attempt, and the launch ledger (scripts/_supervision.py and              *)
(* scripts/_supervised_launch.py over LaunchLedger of _launch_budget.py).   *)
(*                                                                          *)
(* A supervisor is named by its token; an attempt (an event directory with  *)
(* its reservation and its processes) by the token of the supervisor that   *)
(* launched it.  A token never used by a launch has no attempt.             *)
(***************************************************************************)
EXTENDS Naturals, Sequences, FiniteSets

CONSTANTS
  Caller,        \* commands running `continue` or `recover --apply` on this run
  Token,         \* supervisor tokens (uuid4), hence also attempts: bounds the launches
  NONE,          \* no token / no lock holder / no event directory
  Ceiling,       \* the run's launch_ceiling
  LossPoints,    \* where a supervisor may be lost or raise (see PointOf)
  SweepMayFail,  \* may the process table be unreadable, or a process survive, in a sweep?
  SpawnPsMayFail \* may `ps` fail while _spawn reads the new supervisor's start time?

Points == {"before-launcher", "launching", "launched"}

ASSUME ConstantsAssumption ==
  /\ NONE \notin Caller \cup Token
  /\ Ceiling \in Nat
  /\ LossPoints \subseteq Points
  /\ SweepMayFail \in BOOLEAN
  /\ SpawnPsMayFail \in BOOLEAN

VARIABLES
  lock,     \* holder of .launch.lock (flock)
  active,   \* supervision/active.json, or NONE
  result,   \* the tokens that have a <token>.result.json
  ledger,   \* launch-ledger.json: the slots in order
  cpc,      \* per caller: where its command is
  cseen,    \* per caller: the supervision record it read, writes or waits for
  cplan,    \* per caller: the request it derived; what diagnose found; recover's ledger
  spc,      \* per supervisor: where it is
  smem,     \* per supervisor: the ledger it loaded and writes back
  swork,    \* per supervisor: mode, request, slot, event directory, reservations before
  launcher, \* per attempt: the dsd_attempt.py launch process
  helper,   \* per attempt: the run_worker.py process that reserves and detaches
  monitor,  \* per attempt: the detached run_worker.py --_child process
  worker,   \* per attempt: the executor process
  reserved, \* the attempts whose launch-reservation.json exists
  terminal, \* per attempt: the status in terminal.json
  current   \* state.json: the task's current_attempt, or NONE

fileVars == <<active, result, ledger>>
callerVars == <<lock, cpc, cseen, cplan>>
supVars == <<spc, smem, swork>>
procVars == <<launcher, helper, monitor, worker>>
evidenceVars == <<reserved, terminal, current>>
vars == <<fileVars, callerVars, supVars, procVars, evidenceVars>>

-----------------------------------------------------------------------------
(* Values *)

Unresolved == "unresolved"
PreExecutorFailure == "pre-executor-failure"
ExecutorReached == "executor-reached"
Class == {Unresolved, PreExecutorFailure, ExecutorReached}

Event == Token \cup {NONE}
Slot == [class : Class, event : Event]
Mode == {"launch", "adopt"}
\* A request (phase, task, role) is known by the attempt it was derived after, as state.json
\* then named it.
Record == [token : Token, mode : Mode, request : Event, slot : Nat, event : Event,
           started : BOOLEAN]

ASSUME NoneIsNoRecord == NONE \notin Record

CallerState == {"idle", "proposed", "deciding", "recording", "waiting", "diagnosing",
                "scanning", "sweeping", "classifying", "concluding", "unlinking"}
SupervisorState == {"unborn", "polling", "loaded", "admitted", "reserved", "running",
                    "looking", "watching", "sweeping", "identifying", "finalizing", "closing",
                    "resulted", "gone"}
LiveState == SupervisorState \ {"unborn", "gone"}

Plan == [request : Event, live : BOOLEAN, pending : SUBSET Nat, found : SUBSET Token,
         slots : Seq(Slot)]
Work == [mode : Mode, request : Event, slot : Nat, event : Event, before : SUBSET Token]

NoPlan == [request |-> NONE, live |-> FALSE, pending |-> {}, found |-> {}, slots |-> <<>>]
NoWork == [mode |-> "launch", request |-> NONE, slot |-> 0, event |-> NONE, before |-> {}]

-----------------------------------------------------------------------------
(* The ledger (LaunchLedger) *)

SlotsOf(slots, class) == {i \in DOMAIN slots : slots[i].class = class}
UnresolvedSlots(slots) == SlotsOf(slots, Unresolved)
SpentSlots(slots) == Cardinality(SlotsOf(slots, ExecutorReached))
PreExecutorFailures(slots) == Cardinality(SlotsOf(slots, PreExecutorFailure))
Claimed(slots) == {slots[i].event : i \in DOMAIN slots} \ {NONE}

\* Mutant: admission that forgets the unreconciled slots.
AdmitsOverUnresolved(slots) ==
  /\ \A a \in Claimed(slots) : terminal[a] # "none"
  /\ SpentSlots(slots) + PreExecutorFailures(slots) + 1 <= Ceiling

\* Every refusal that depends on this module's state.  The spending limits only refuse more,
\* so a supervisor may also be refused when this holds.
Admits(slots) ==
  /\ UnresolvedSlots(slots) = {}
  /\ \A a \in Claimed(slots) : terminal[a] # "none"
  /\ SpentSlots(slots) + PreExecutorFailures(slots) + 1 <= Ceiling

\* Mutant: a reservation that leaves its classification empty.
ReserveUnclassified(slots) == Append(slots, [class |-> NONE, event |-> NONE])

Reserve(slots) == Append(slots, [class |-> Unresolved, event |-> NONE])

\* The event directory decides: executor-reached iff its reservation exists.
Classify(slots, i, e) ==
  [slots EXCEPT ![i] = [class |-> IF e \in reserved THEN ExecutorReached ELSE PreExecutorFailure,
                        event |-> e]]

-----------------------------------------------------------------------------
(* Processes *)

\* _owned_processes: run_worker, its detached child and the executor name the run's runtime
\* directory (--db, the staged executor); dsd_attempt.py's own command line names only the run.
Owned(a) == helper[a] = "running" \/ monitor[a] = "running" \/ worker[a] = "running"
AnyOwned == \E a \in Token : Owned(a)

\* Attempt a may still be reserved, or bound to its task: nothing durable says so yet, and the
\* launcher that will do it is not one of the owned processes.
Launching(a) == launcher[a] \in {"preparing", "awaiting"} \/ helper[a] = "running"

\* Mutant: a teardown that stops the monitor and not what it monitors.
StopMonitorOnly ==
  /\ helper' = [a \in Token |-> IF helper[a] = "running" THEN "exited" ELSE helper[a]]
  /\ monitor' = [a \in Token |-> IF monitor[a] = "running" THEN "exited" ELSE monitor[a]]
  /\ UNCHANGED worker

\* stop_attempt: everything owned is stopped, or (table unreadable, survivors) nothing is known.
StopAttempt ==
  \/ /\ helper' = [a \in Token |-> IF helper[a] = "running" THEN "exited" ELSE helper[a]]
     /\ monitor' = [a \in Token |-> IF monitor[a] = "running" THEN "exited" ELSE monitor[a]]
     /\ worker' = [a \in Token |-> IF worker[a] = "running" THEN "exited" ELSE worker[a]]
  \/ SweepMayFail /\ UNCHANGED <<helper, monitor, worker>>

Live(t) == spc[t] \in LiveState

\* alive(record): the pid runs, started when the record says and names the token.  A record
\* whose start time could not be read matches no running process.
Alive(record) == record.started /\ Live(record.token)

Owns(t) == active # NONE /\ active.token = t

PointOf(t) ==
  IF \E a \in Token : Launching(a) THEN "launching"
  ELSE IF spc[t] \in {"polling", "loaded", "admitted", "reserved"} THEN "before-launcher"
  ELSE "launched"

-----------------------------------------------------------------------------
(* Initial state: a fresh run *)

Init ==
  /\ lock = NONE
  /\ active = NONE
  /\ result = {}
  /\ ledger = <<>>
  /\ cpc = [c \in Caller |-> "idle"]
  /\ cseen = [c \in Caller |-> NONE]
  /\ cplan = [c \in Caller |-> NoPlan]
  /\ spc = [t \in Token |-> "unborn"]
  /\ smem = [t \in Token |-> <<>>]
  /\ swork = [t \in Token |-> NoWork]
  /\ launcher = [a \in Token |-> "none"]
  /\ helper = [a \in Token |-> "none"]
  /\ monitor = [a \in Token |-> "none"]
  /\ worker = [a \in Token |-> "none"]
  /\ reserved = {}
  /\ terminal = [a \in Token |-> "none"]
  /\ current = NONE

-----------------------------------------------------------------------------
(* Callers: `continue` *)

Release(c) == lock' = IF lock = c THEN NONE ELSE lock

\* A command of caller c returns, or dies: its flock goes with it.
Return(c) ==
  /\ cpc' = [cpc EXCEPT ![c] = "idle"]
  /\ cseen' = [cseen EXCEPT ![c] = NONE]
  /\ cplan' = [cplan EXCEPT ![c] = NoPlan]
  /\ Release(c)

\* continue_run attaches to a launch it sees running ...
Attach(c) ==
  /\ cpc[c] = "idle" /\ active # NONE /\ Alive(active)
  /\ cpc' = [cpc EXCEPT ![c] = "waiting"]
  /\ cseen' = [cseen EXCEPT ![c] = active]
  /\ UNCHANGED <<lock, cplan, fileVars, supVars, procVars, evidenceVars>>

\* ... or derives a launch from state.json: no attempt yet, or the current one completed.
Propose(c) ==
  /\ cpc[c] = "idle" /\ active = NONE
  /\ current # NONE => terminal[current] = "completed"
  /\ cpc' = [cpc EXCEPT ![c] = "proposed"]
  /\ cplan' = [cplan EXCEPT ![c].request = current]
  /\ UNCHANGED <<lock, cseen, fileVars, supVars, procVars, evidenceVars>>

\* Bound: a command that may start a supervisor begins only while a token is left for it.
TokenLeft == \E t \in Token : spc[t] = "unborn"

\* Mutant: the decision to launch is not exclusive.
TakeNoLaunchLock(c) ==
  /\ cpc[c] = "proposed" /\ TokenLeft
  /\ cpc' = [cpc EXCEPT ![c] = "deciding"]
  /\ cseen' = [cseen EXCEPT ![c] = active]
  /\ UNCHANGED <<lock, cplan, fileVars, supVars, procVars, evidenceVars>>

TakeLaunchLock(c) ==
  /\ cpc[c] = "proposed" /\ lock = NONE /\ TokenLeft
  /\ lock' = c
  /\ cpc' = [cpc EXCEPT ![c] = "deciding"]
  /\ cseen' = [cseen EXCEPT ![c] = active]
  /\ UNCHANGED <<cplan, fileVars, supVars, procVars, evidenceVars>>

\* A record exists: wait for its supervisor if it runs, otherwise refuse ("run recover").
AttachOrRefuse(c) ==
  /\ cpc[c] = "deciding" /\ cseen[c] # NONE
  /\ \/ /\ Alive(cseen[c])
        /\ cpc' = [cpc EXCEPT ![c] = "waiting"]
        /\ Release(c)
        /\ UNCHANGED <<cseen, cplan>>
     \/ ~Alive(cseen[c]) /\ Return(c)
  /\ UNCHANGED <<fileVars, supVars, procVars, evidenceVars>>

\* _spawn, first half: the process is created before the record that names it exists.
Spawn(c, mode, slot, event) ==
  \E t \in Token, started \in BOOLEAN :
    /\ spc[t] = "unborn"
    /\ started \/ SpawnPsMayFail
    /\ spc' = [spc EXCEPT ![t] = "polling"]
    /\ cpc' = [cpc EXCEPT ![c] = "recording"]
    /\ cseen' = [cseen EXCEPT ![c] = [token |-> t, mode |-> mode, slot |-> slot,
                                     event |-> event, started |-> started,
                                     request |-> cplan[c].request]]
    /\ UNCHANGED <<lock, cplan, smem, swork, fileVars, procVars, evidenceVars>>

SpawnLaunch(c) ==
  /\ cpc[c] = "deciding" /\ cseen[c] = NONE
  /\ Spawn(c, "launch", 0, NONE)

\* _spawn, second half, and the end of the locked section.
RecordSpawn(c) ==
  /\ cpc[c] = "recording"
  /\ active' = cseen[c]
  /\ cpc' = [cpc EXCEPT ![c] = "waiting"]
  /\ Release(c)
  /\ UNCHANGED <<result, ledger, cseen, cplan, supVars, procVars, evidenceVars>>

\* Mutant: a caller that waits for the result alone.
AwaitResult(c) ==
  /\ cpc[c] = "waiting"
  /\ cseen[c].token \in result
  /\ Return(c)
  /\ UNCHANGED <<fileVars, supVars, procVars, evidenceVars>>

\* wait: the result, or the supervisor found not running with no result.
Await(c) ==
  /\ cpc[c] = "waiting"
  /\ cseen[c].token \in result \/ ~Alive(cseen[c])
  /\ Return(c)
  /\ UNCHANGED <<fileVars, supVars, procVars, evidenceVars>>

\* The lock times out, or the command is killed wherever it is.
CallerDies(c) ==
  /\ cpc[c] # "idle"
  /\ Return(c)
  /\ UNCHANGED <<fileVars, supVars, procVars, evidenceVars>>

-----------------------------------------------------------------------------
(* Callers: `recover --apply` *)

\* Mutant: recovery outside the decision lock.
TakeNoRecoverLock(c) ==
  /\ cpc[c] = "idle" /\ TokenLeft
  /\ cpc' = [cpc EXCEPT ![c] = "diagnosing"]
  /\ UNCHANGED <<lock, cseen, cplan, fileVars, supVars, procVars, evidenceVars>>

TakeRecoverLock(c) ==
  /\ cpc[c] = "idle" /\ lock = NONE /\ TokenLeft
  /\ lock' = c
  /\ cpc' = [cpc EXCEPT ![c] = "diagnosing"]
  /\ UNCHANGED <<cseen, cplan, fileVars, supVars, procVars, evidenceVars>>

\* diagnose reads the ledger, the record, the supervisor and the reservations ...
ReadEvidence(c) ==
  /\ cpc[c] = "diagnosing"
  /\ cpc' = [cpc EXCEPT ![c] = "scanning"]
  /\ cseen' = [cseen EXCEPT ![c] = active]
  /\ cplan' = [cplan EXCEPT ![c] =
       [request |-> NONE, live |-> active # NONE /\ Alive(active), pending |-> UnresolvedSlots(ledger),
        found |-> reserved \ Claimed(ledger), slots |-> <<>>]]
  /\ UNCHANGED <<lock, fileVars, supVars, procVars, evidenceVars>>

Contradictory(plan) ==
  \/ Cardinality(plan.pending) > 1
  \/ Cardinality(plan.found) > 1
  \/ plan.pending = {} /\ plan.found # {}

PendingSlot(plan) == CHOOSE i \in plan.pending : TRUE
FoundEvent(plan) == IF plan.found = {} THEN NONE ELSE CHOOSE a \in plan.found : TRUE

\* Mutant: a run with nothing to recover gets no verdict.
NothingToApplyUnlessClear(c) ==
  /\ cpc[c] = "scanning"
  /\ cplan[c].live \/ SweepMayFail \/ Contradictory(cplan[c])
  /\ Return(c)
  /\ UNCHANGED <<fileVars, supVars, procVars, evidenceVars>>

\* ... and then the process table, and gives its verdict: nothing is applied,
NothingToApply(c) ==
  /\ cpc[c] = "scanning"
  /\ \/ cplan[c].live
     \/ SweepMayFail
     \/ Contradictory(cplan[c])
     \/ cplan[c].pending = {} /\ cseen[c] = NONE
  /\ Return(c)
  /\ UNCHANGED <<fileVars, supVars, procVars, evidenceVars>>

\* the lost supervisor's record is archived,
ArchiveRecord(c) ==
  /\ cpc[c] = "scanning" /\ ~cplan[c].live /\ ~Contradictory(cplan[c])
  /\ cplan[c].pending = {} /\ cseen[c] # NONE
  /\ cpc' = [cpc EXCEPT ![c] = "concluding"]
  /\ UNCHANGED <<lock, cseen, cplan, fileVars, supVars, procVars, evidenceVars>>

\* a supervisor that adopts the attempt is started,
Adopt(c) ==
  /\ cpc[c] = "scanning" /\ ~cplan[c].live /\ ~Contradictory(cplan[c])
  /\ cplan[c].pending # {} /\ AnyOwned
  /\ Spawn(c, "adopt", PendingSlot(cplan[c]), FoundEvent(cplan[c]))

\* or the slot is finalized from retained evidence.
Finalize(c) ==
  /\ cpc[c] = "scanning" /\ ~cplan[c].live /\ ~Contradictory(cplan[c])
  /\ cplan[c].pending # {} /\ ~AnyOwned
  /\ cpc' = [cpc EXCEPT ![c] = "sweeping"]
  /\ cplan' = [cplan EXCEPT ![c].slots = ledger]
  /\ UNCHANGED <<lock, cseen, fileVars, supVars, procVars, evidenceVars>>

FinalizeSweep(c) ==
  /\ cpc[c] = "sweeping"
  /\ StopAttempt
  /\ cpc' = [cpc EXCEPT ![c] = "classifying"]
  /\ UNCHANGED <<launcher, lock, cseen, cplan, fileVars, supVars, evidenceVars>>

FinalizeClassify(c) ==
  /\ cpc[c] = "classifying"
  /\ ledger' = Classify(cplan[c].slots, PendingSlot(cplan[c]), FoundEvent(cplan[c]))
  /\ IF cseen[c] = NONE
     THEN Return(c)
     ELSE /\ cpc' = [cpc EXCEPT ![c] = "concluding"]
          /\ UNCHANGED <<lock, cseen, cplan>>
  /\ UNCHANGED <<active, result, supVars, procVars, evidenceVars>>

\* _close on behalf of the lost supervisor: its result first,
ConcludeLost(c) ==
  /\ cpc[c] = "concluding"
  /\ result' = result \cup {cseen[c].token}
  /\ cpc' = [cpc EXCEPT ![c] = "unlinking"]
  /\ UNCHANGED <<active, ledger, lock, cseen, cplan, supVars, procVars, evidenceVars>>

\* then its record.
UnlinkLost(c) ==
  /\ cpc[c] = "unlinking"
  /\ active' = NONE
  /\ Return(c)
  /\ UNCHANGED <<result, ledger, supVars, procVars, evidenceVars>>

-----------------------------------------------------------------------------
(* Supervisors *)

\* A process that ends takes its memory with it.
Forget(t) ==
  /\ smem' = [smem EXCEPT ![t] = <<>>]
  /\ swork' = [swork EXCEPT ![t] = NoWork]

Goes(t, from, to) ==
  /\ spc[t] = from
  /\ spc' = [spc EXCEPT ![t] = to]

\* supervise polls until the record names it, then loads the ledger and starts its mode.
SeeRecord(t) ==
  /\ Owns(t)
  /\ Goes(t, "polling", IF active.mode = "adopt" THEN "looking" ELSE "loaded")
  /\ smem' = [smem EXCEPT ![t] = ledger]
  /\ swork' = [swork EXCEPT ![t] = [mode |-> active.mode, request |-> active.request,
                                    slot |-> active.slot, event |-> active.event,
                                    before |-> {}]]
  /\ UNCHANGED <<fileVars, callerVars, procVars, evidenceVars>>

\* Its caller died between creating it and recording it, or is slow: it exits, having done nothing.
GiveUpPolling(t) ==
  /\ ~Owns(t)
  /\ Goes(t, "polling", "gone")
  /\ UNCHANGED <<smem, swork, fileVars, callerVars, procVars, evidenceVars>>

AdmitLaunch(t) ==
  /\ Admits(smem[t]) /\ Owns(t)
  /\ Goes(t, "loaded", "admitted")
  /\ swork' = [swork EXCEPT ![t].before = reserved]
  /\ UNCHANGED <<smem, fileVars, callerVars, procVars, evidenceVars>>

\* Refused by the ledger, by a spending limit or by a preflight check: no slot is reserved.
RefuseLaunch(t) ==
  /\ Goes(t, "loaded", "closing")
  /\ UNCHANGED <<smem, swork, fileVars, callerVars, procVars, evidenceVars>>

ReserveSlot(t) ==
  /\ Goes(t, "admitted", "reserved")
  /\ smem' = [smem EXCEPT ![t] = Reserve(@)]
  /\ ledger' = Reserve(smem[t])
  /\ swork' = [swork EXCEPT ![t].slot = Len(smem[t]) + 1]
  /\ UNCHANGED <<active, result, callerVars, procVars, evidenceVars>>

StartLauncher(t) ==
  /\ Owns(t)
  /\ Goes(t, "reserved", "running")
  /\ launcher' = [launcher EXCEPT ![t] = "preparing"]
  /\ UNCHANGED <<helper, monitor, worker, smem, swork, fileVars, callerVars, evidenceVars>>

\* LaunchLedger.classify: the whole ledger this process loaded is written back.
WriteClass(t, slots) ==
  /\ smem' = [smem EXCEPT ![t] = slots]
  /\ ledger' = slots

\* The launcher could not be created (OSError): classified at once as a pre-executor failure.
LauncherNotCreated(t) ==
  /\ Owns(t)
  /\ Goes(t, "reserved", "closing")
  /\ WriteClass(t, Classify(smem[t], swork[t].slot, NONE))
  /\ UNCHANGED <<active, result, swork, callerVars, procVars, evidenceVars>>

\* The launcher is reaped, and what it printed kept: the event directory, if it returned.
LauncherGone(t) ==
  /\ launcher[t] \in {"returned", "exited"}
  /\ Goes(t, "running", "sweeping")
  /\ launcher' = [launcher EXCEPT ![t] = "exited"]
  /\ swork' = [swork EXCEPT ![t].event = IF launcher[t] = "returned" THEN t ELSE NONE]
  /\ UNCHANGED <<helper, monitor, worker, smem, fileVars, callerVars, evidenceVars>>

\* The host deadline or a containment rule: the launcher is killed, then the rest is swept.
StopLauncher(t) ==
  /\ launcher[t] \notin {"returned", "exited"}
  /\ Goes(t, "running", "sweeping")
  /\ launcher' = [launcher EXCEPT ![t] = "exited"]
  /\ UNCHANGED <<helper, monitor, worker, smem, swork, fileVars, callerVars, evidenceVars>>

\* The adopter first looks for the reservation of the attempt it adopts, if it has none yet ...
LookForReservation(t) ==
  /\ Goes(t, "looking", "watching")
  /\ LET new == reserved \ Claimed(smem[t]) IN
     IF swork[t].event = NONE /\ Cardinality(new) = 1
     THEN swork' = [swork EXCEPT ![t].event = CHOOSE a \in new : TRUE]
     ELSE UNCHANGED swork
  /\ Owns(t)
  /\ UNCHANGED <<smem, fileVars, callerVars, procVars, evidenceVars>>

\* ... then whether anything the attempt owns still runs: if so it polls again ...
KeepWatching(t) ==
  /\ AnyOwned
  /\ Goes(t, "watching", "looking")
  /\ UNCHANGED <<smem, swork, fileVars, callerVars, procVars, evidenceVars>>

\* Mutant: an adoption without a deadline.
StopWatchingIdle(t) ==
  /\ ~AnyOwned
  /\ Goes(t, "watching", "sweeping")
  /\ UNCHANGED <<smem, swork, fileVars, callerVars, procVars, evidenceVars>>

\* ... until nothing does, the recorded deadline is over or a containment rule is broken.
StopWatching(t) ==
  /\ Goes(t, "watching", "sweeping")
  /\ UNCHANGED <<smem, swork, fileVars, callerVars, procVars, evidenceVars>>

Sweep(t) ==
  /\ Goes(t, "sweeping", "identifying")
  /\ StopAttempt
  /\ UNCHANGED <<launcher, smem, swork, fileVars, callerVars, evidenceVars>>

\* The event directory the launcher printed, or else the one reservation that is new.
NewEvents(t) ==
  IF swork[t].event # NONE THEN {swork[t].event} ELSE reserved \ swork[t].before

\* Mutant: only what the launcher printed names the attempt.
IdentifyPrinted(t) ==
  /\ Owns(t)
  /\ Goes(t, "identifying", "finalizing")
  /\ UNCHANGED <<swork, smem, fileVars, callerVars, procVars, evidenceVars>>

Identify(t) ==
  /\ Owns(t)
  /\ \/ /\ swork[t].mode = "adopt"
        /\ Goes(t, "identifying", "finalizing")
        /\ UNCHANGED swork
     \/ /\ swork[t].mode = "launch" /\ Cardinality(NewEvents(t)) <= 1
        /\ Goes(t, "identifying", "finalizing")
        /\ swork' = [swork EXCEPT ![t].event =
             IF NewEvents(t) = {} THEN NONE ELSE CHOOSE a \in NewEvents(t) : TRUE]
     \/ /\ swork[t].mode = "launch" /\ Cardinality(NewEvents(t)) > 1
        /\ Goes(t, "identifying", "closing")
        /\ UNCHANGED swork
  /\ UNCHANGED <<smem, fileVars, callerVars, procVars, evidenceVars>>

ClassifySlot(t) ==
  /\ Goes(t, "finalizing", "closing")
  /\ WriteClass(t, Classify(smem[t], swork[t].slot, swork[t].event))
  /\ UNCHANGED <<active, result, swork, callerVars, procVars, evidenceVars>>

\* _close: the result first, then the record, whoever it names, is unlinked.
WriteResult(t) ==
  /\ Goes(t, "closing", "resulted")
  /\ result' = result \cup {t}
  /\ UNCHANGED <<active, ledger, smem, swork, callerVars, procVars, evidenceVars>>

UnlinkRecord(t) ==
  /\ Goes(t, "resulted", "gone")
  /\ active' = NONE
  /\ Forget(t)
  /\ UNCHANGED <<result, ledger, callerVars, procVars, evidenceVars>>

\* An exception, a refused `update` of a record it no longer owns included: an unresolved
\* result is written and whatever it started is left as it is.
Raise(t) ==
  /\ spc[t] \in LiveState \ {"polling", "closing", "resulted"}
  /\ ~Owns(t) \/ PointOf(t) \in LossPoints
  /\ spc' = [spc EXCEPT ![t] = "closing"]
  /\ UNCHANGED <<smem, swork, fileVars, callerVars, procVars, evidenceVars>>

Lose(t) ==
  /\ Live(t) /\ PointOf(t) \in LossPoints
  /\ spc' = [spc EXCEPT ![t] = "gone"]
  /\ Forget(t)
  /\ UNCHANGED <<fileVars, callerVars, procVars, evidenceVars>>

-----------------------------------------------------------------------------
(* The processes of attempt a *)

\* preflight-attempt refuses while the current attempt has no terminal record.
NoIncompleteAttempt == current # NONE => terminal[current] # "none"

StartHelper(a) ==
  /\ launcher[a] = "preparing" /\ NoIncompleteAttempt
  /\ launcher' = [launcher EXCEPT ![a] = "awaiting"]
  /\ helper' = [helper EXCEPT ![a] = "running"]
  /\ UNCHANGED <<monitor, worker, fileVars, callerVars, supVars, evidenceVars>>

\* Preflight, scope capture or prompt rendering failed: the event directory is removed.
PrepareFails(a) ==
  /\ launcher[a] = "preparing"
  /\ launcher' = [launcher EXCEPT ![a] = "exited"]
  /\ UNCHANGED <<helper, monitor, worker, fileVars, callerVars, supVars, evidenceVars>>

\* reserve_attempt: O_EXCL creation of launch-reservation.json, or nothing at all.
HelperReserves(a) ==
  /\ helper[a] = "running" /\ a \notin reserved
  /\ reserved' = reserved \cup {a}
  /\ UNCHANGED <<terminal, current, fileVars, callerVars, supVars, procVars>>

HelperFails(a) ==
  /\ helper[a] = "running" /\ a \notin reserved
  /\ helper' = [helper EXCEPT ![a] = "exited"]
  /\ UNCHANGED <<launcher, monitor, worker, fileVars, callerVars, supVars, evidenceVars>>

\* The detached monitor is created, or that failure is the attempt's terminal record.
HelperDetaches(a) ==
  /\ helper[a] = "running" /\ a \in reserved
  /\ helper' = [helper EXCEPT ![a] = "exited"]
  /\ \/ /\ monitor' = [monitor EXCEPT ![a] = "running"]
        /\ UNCHANGED terminal
     \/ /\ terminal' = [terminal EXCEPT ![a] = "failed"]
        /\ UNCHANGED monitor
  /\ UNCHANGED <<launcher, worker, reserved, current, fileVars, callerVars, supVars>>

\* bind-attempt: refused while another attempt is current and has no terminal record.
MayBind(a) == current \notin {NONE, a} => terminal[current] # "none"

\* The attempt is bound to its task, if run_worker reserved it.
LauncherBinds(a) ==
  /\ launcher[a] = "awaiting" /\ helper[a] = "exited"
  /\ \/ /\ a \in reserved /\ MayBind(a)
        /\ launcher' = [launcher EXCEPT ![a] = "waiting"]
        /\ current' = a
     \/ /\ a \notin reserved \/ ~MayBind(a)
        /\ launcher' = [launcher EXCEPT ![a] = "exited"]
        /\ UNCHANGED current
  /\ UNCHANGED <<helper, monitor, worker, reserved, terminal, fileVars, callerVars, supVars>>

\* wait_worker timed out, or saw the terminal record and the attempt is bound again; unless that
\* is refused, the launcher prints its event directory.
LauncherReturns(a) ==
  /\ launcher[a] = "waiting"
  /\ \/ /\ terminal[a] = "none"
        /\ launcher' = [launcher EXCEPT ![a] = "returned"]
        /\ UNCHANGED current
     \/ /\ terminal[a] # "none" /\ MayBind(a)
        /\ launcher' = [launcher EXCEPT ![a] = "returned"]
        /\ current' = a
     \/ /\ terminal[a] # "none" /\ ~MayBind(a)
        /\ launcher' = [launcher EXCEPT ![a] = "exited"]
        /\ UNCHANGED current
  /\ UNCHANGED <<helper, monitor, worker, reserved, terminal, fileVars, callerVars, supVars>>

MonitorStartsWorker(a) ==
  /\ monitor[a] = "running" /\ worker[a] = "none"
  /\ \/ /\ worker' = [worker EXCEPT ![a] = "running"]
        /\ UNCHANGED <<monitor, terminal>>
     \/ /\ monitor' = [monitor EXCEPT ![a] = "exited"]
        /\ terminal' = [terminal EXCEPT ![a] = "failed"]
        /\ UNCHANGED worker
  /\ UNCHANGED <<launcher, helper, reserved, current, fileVars, callerVars, supVars>>

WorkerEnds(a) ==
  /\ worker[a] = "running"
  /\ worker' = [worker EXCEPT ![a] = "exited"]
  /\ UNCHANGED <<launcher, helper, monitor, fileVars, callerVars, supVars, evidenceVars>>

\* The worker ended: the monitor binds its report and scope, and writes the terminal record.
MonitorConcludes(a) ==
  /\ monitor[a] = "running" /\ worker[a] = "exited"
  /\ \E status \in {"completed", "failed"} : terminal' = [terminal EXCEPT ![a] = status]
  /\ monitor' = [monitor EXCEPT ![a] = "exited"]
  /\ UNCHANGED <<launcher, helper, worker, reserved, current, fileVars, callerVars, supVars>>

\* The worker's own deadline: the monitor may be unable to signal it (the boundary denies that).
MonitorGivesUp(a) ==
  /\ monitor[a] = "running" /\ worker[a] = "running"
  /\ terminal' = [terminal EXCEPT ![a] = "failed"]
  /\ monitor' = [monitor EXCEPT ![a] = "exited"]
  /\ \/ UNCHANGED worker
     \/ worker' = [worker EXCEPT ![a] = "exited"]
  /\ UNCHANGED <<launcher, helper, reserved, current, fileVars, callerVars, supVars>>

\* A host restart ends every process and leaves every file.
HostRestart ==
  LET Ended(p) == [a \in Token |-> IF p[a] = "none" THEN "none" ELSE "exited"] IN
  /\ lock' = NONE
  /\ cpc' = [c \in Caller |-> "idle"]
  /\ cseen' = [c \in Caller |-> NONE]
  /\ cplan' = [c \in Caller |-> NoPlan]
  /\ spc' = [t \in Token |-> IF Live(t) THEN "gone" ELSE spc[t]]
  /\ smem' = [t \in Token |-> <<>>]
  /\ swork' = [t \in Token |-> NoWork]
  /\ launcher' = Ended(launcher) /\ helper' = Ended(helper)
  /\ monitor' = Ended(monitor) /\ worker' = Ended(worker)
  /\ UNCHANGED <<fileVars, evidenceVars>>

-----------------------------------------------------------------------------

ContinueStep(c) ==
  \/ Attach(c) \/ Propose(c) \/ TakeLaunchLock(c) \/ AttachOrRefuse(c) \/ SpawnLaunch(c)
  \/ RecordSpawn(c) \/ Await(c) \/ CallerDies(c)

RecoverStep(c) ==
  \/ TakeRecoverLock(c) \/ ReadEvidence(c) \/ NothingToApply(c) \/ ArchiveRecord(c) \/ Adopt(c)
  \/ Finalize(c) \/ FinalizeSweep(c) \/ FinalizeClassify(c) \/ ConcludeLost(c) \/ UnlinkLost(c)

SuperviseStep(t) ==
  \/ SeeRecord(t) \/ GiveUpPolling(t) \/ AdmitLaunch(t) \/ RefuseLaunch(t) \/ ReserveSlot(t)
  \/ StartLauncher(t) \/ LauncherNotCreated(t) \/ LauncherGone(t) \/ StopLauncher(t)
  \/ LookForReservation(t) \/ KeepWatching(t) \/ StopWatching(t) \/ Sweep(t) \/ Identify(t) \/ ClassifySlot(t)
  \/ WriteResult(t) \/ UnlinkRecord(t)

AttemptStep(a) ==
  \/ StartHelper(a) \/ PrepareFails(a) \/ HelperReserves(a) \/ HelperFails(a)
  \/ HelperDetaches(a) \/ LauncherBinds(a) \/ LauncherReturns(a) \/ MonitorStartsWorker(a)
  \/ WorkerEnds(a) \/ MonitorConcludes(a) \/ MonitorGivesUp(a)

Next ==
  \/ \E c \in Caller : ContinueStep(c) \/ RecoverStep(c)
  \/ \E t \in Token : SuperviseStep(t) \/ Raise(t) \/ Lose(t) \/ AttemptStep(t)
  \/ HostRestart

Spec == Init /\ [][Next]_vars

\* What the host's scheduling justifies: a running process keeps running.  The host deadline
\* ends a launcher, and an adoption, every poll of which tests it (hence SF); a waiting caller
\* keeps polling; the locked section waits for nothing.
LockedStep(c) ==
  \/ AttachOrRefuse(c) \/ SpawnLaunch(c) \/ RecordSpawn(c)
  \/ ReadEvidence(c) \/ NothingToApply(c) \/ ArchiveRecord(c) \/ Adopt(c) \/ Finalize(c)
  \/ FinalizeSweep(c) \/ FinalizeClassify(c) \/ ConcludeLost(c) \/ UnlinkLost(c)

Fairness ==
  /\ \A t \in Token : WF_vars(SuperviseStep(t)) /\ SF_vars(StopWatching(t))
  /\ \A c \in Caller : WF_vars(Await(c)) /\ WF_vars(LockedStep(c))

LiveSpec == Spec /\ Fairness

-----------------------------------------------------------------------------
(* Type invariant *)

ProcessState == {"none", "running", "exited"}
LauncherState == {"none", "preparing", "awaiting", "waiting", "returned", "exited"}

\* Every variable holds a value its file, record or process table entry can hold, and a command
\* that writes, awaits or concludes a supervision record has one.
TypeOK ==
  /\ lock \in Caller \cup {NONE}
  /\ active \in Record \cup {NONE}
  /\ result \subseteq Token
  /\ ledger \in Seq(Slot)
  /\ cpc \in [Caller -> CallerState]
  /\ cseen \in [Caller -> Record \cup {NONE}]
  /\ \A c \in Caller : cpc[c] \in {"recording", "waiting", "concluding", "unlinking"} =>
       cseen[c] # NONE
  /\ cplan \in [Caller -> Plan]
  /\ spc \in [Token -> SupervisorState]
  /\ smem \in [Token -> Seq(Slot)]
  /\ swork \in [Token -> Work]
  /\ launcher \in [Token -> LauncherState]
  /\ helper \in [Token -> ProcessState]
  /\ monitor \in [Token -> ProcessState]
  /\ worker \in [Token -> ProcessState]
  /\ reserved \subseteq Token
  /\ terminal \in [Token -> {"none", "completed", "failed"}]
  /\ current \in Event

-----------------------------------------------------------------------------
(* Safety *)

\* A supervisor that has found its record and is not yet gone.
Acting(t) == Live(t) /\ spc[t] # "polling"

\* A caller that `recover --apply` has let act: on the ledger, on the processes or on the record.
Recovering(c) == cpc[c] \in {"sweeping", "classifying", "concluding", "unlinking"}

\* However callers, crashes and recoveries interleave, two supervisors never act on one run.
OneSupervisor == \A t, u \in Token : Acting(t) /\ Acting(u) => t = u

\* _close: "a reader never sees neither".  While a supervisor acts, a caller looking for it finds
\* the record that names it, or its result.
NeverNeither == \A t \in Token : Acting(t) => Owns(t) \/ t \in result

\* recover changes nothing while a supervisor runs: not only when diagnose looked, but during
\* every step it then takes.
RecoveryAloneActs == \A c \in Caller, t \in Token : Recovering(c) => ~Acting(t)

\* diagnose: "one launch leaves at most one of each".
AtMostOneUnresolved == Cardinality(UnresolvedSlots(ledger)) <= 1

\* The run's launch ceiling bounds the slots ever reserved, pre-executor failures included.
CeilingRespected == Len(ledger) <= Ceiling

\* Spending is summed over executor-reached slots: no attempt's session is counted in two of them.
AttemptsCountedOnce ==
  \A i, j \in SlotsOf(ledger, ExecutorReached) : ledger[i].event = ledger[j].event => i = j

\* Every reservation is claimed by a slot or waits for the one unresolved slot: the ledger never
\* says "the executor was never reached" of an attempt that reached it.
PreExecutorIsTrue ==
  Cardinality(reserved \ Claimed(ledger)) <= Cardinality(UnresolvedSlots(ledger))

\* Two executors never work on one project at a time.
OneWorker == \A a, b \in Token : worker[a] = "running" /\ worker[b] = "running" => a = b

\* The post-exit sweep comes before the classification: a classified attempt runs nothing.
ClassifiedMeansStopped ==
  \A i \in SlotsOf(ledger, ExecutorReached) : ~Owned(ledger[i].event)

\* A launch starts the work that state.json still calls for: what its caller derived the request
\* from is still the current attempt when the slot is reserved.
ReservesWhatWasDerived ==
  [][\A t \in Token : spc[t] = "admitted" /\ spc'[t] = "reserved"
                      => swork[t].request = current]_vars

-----------------------------------------------------------------------------
(* Why: what the lock and the record keep true *)

InLockedSection(c) == cpc[c] \notin {"idle", "proposed", "waiting"}

\* No record, or the record of a supervisor that is gone.
Orphaned == active = NONE \/ ~Live(active.token)

\* A caller that is past its decision, and took it because it found no supervisor.
FoundOrphaned(c) ==
  \/ cpc[c] = "deciding" /\ cseen[c] = NONE
  \/ cpc[c] = "scanning" /\ ~cplan[c].live
  \/ cpc[c] = "recording"
  \/ Recovering(c)

\* The lock covers every decision; a decision taken over an orphaned record stays right until it
\* is carried out; and a supervisor acts only while the record names it.  This is what makes one
\* supervisor act at a time, when the start time of each was read as it was recorded.
SupervisionInv ==
  /\ \A c \in Caller : InLockedSection(c) => lock = c
  /\ \A c \in Caller : cseen[c] # NONE => cseen[c].started
  /\ \A c \in Caller : cpc[c] = "recording" => spc[cseen[c].token] # "unborn"
  /\ active # NONE => active.started /\ spc[active.token] # "unborn"
  /\ \A c \in Caller : FoundOrphaned(c) => Orphaned
  /\ \A t \in Token : Acting(t) => Owns(t)

\* A supervisor with a slot to classify.
Holding(t) ==
  spc[t] \in {"reserved", "running", "looking", "watching", "sweeping", "identifying",
              "finalizing"}

\* Whoever acts has the ledger as it is on disk, and knows of its unresolved slot.
LedgerInv ==
  /\ \A i \in DOMAIN ledger : ledger[i].class = Unresolved => i = Len(ledger)
  /\ Len(ledger) <= Ceiling
  /\ \A t \in Token : Acting(t) => smem[t] = ledger
  /\ \A t \in Token : spc[t] = "admitted" =>
       UnresolvedSlots(ledger) = {} /\ Len(ledger) < Ceiling
  /\ \A t \in Token : Holding(t) => swork[t].slot \in UnresolvedSlots(ledger)
  /\ active # NONE /\ active.mode = "adopt" /\ spc[active.token] = "polling" =>
       active.slot \in UnresolvedSlots(ledger)
  /\ \A c \in Caller : cpc[c] = "recording" /\ cseen[c].mode = "adopt" =>
       cseen[c].slot \in UnresolvedSlots(ledger)
  /\ \A c \in Caller : cpc[c] = "scanning" /\ ~cplan[c].live =>
       cplan[c].pending = UnresolvedSlots(ledger)
  /\ \A c \in Caller : cpc[c] \in {"sweeping", "classifying"} =>
       /\ cplan[c].pending = UnresolvedSlots(ledger)
       /\ cplan[c].pending # {}
       /\ cplan[c].slots = ledger

-----------------------------------------------------------------------------
(* Why: what the processes of the attempts and their reservations tell *)

\* The reservations that no slot names yet.
Unclaimed == reserved \ Claimed(ledger)

\* Event e is what the reservations say of the slot that is still to be classified.
Told(e) == IF e = NONE THEN Unclaimed = {} ELSE e \in Unclaimed

\* The processes of an attempt appear in order, the first of them while its supervisor runs it.
InOrder(a) ==
  /\ spc[a] \in {"unborn", "polling", "loaded", "admitted", "reserved"} => launcher[a] = "none"
  /\ launcher[a] \in {"preparing", "awaiting"} => spc[a] = "running"
  /\ launcher[a] \in {"none", "preparing"} => helper[a] = "none"
  /\ launcher[a] \in {"waiting", "returned"} => a \in reserved
  /\ helper[a] = "running" => spc[a] \in {"running", "sweeping"} /\ swork[a].mode = "launch"
  /\ a \in reserved => helper[a] # "none"
  /\ monitor[a] # "none" \/ worker[a] # "none" => a \in reserved

\* A slot names an attempt exactly when it is executor-reached, and no other slot names it; what it
\* names has been reserved and runs nothing; and at most one reservation waits for its slot.
SlotsTell ==
  /\ \A i \in DOMAIN ledger :
       /\ ledger[i].class = Unresolved => ledger[i].event = NONE
       /\ ledger[i].class = ExecutorReached => ledger[i].event # NONE
  /\ \A i, j \in DOMAIN ledger :
       ledger[i].event = ledger[j].event /\ ledger[i].event # NONE => i = j
  /\ Claimed(ledger) \subseteq reserved
  /\ \A a \in Claimed(ledger) : ~Owned(a)
  /\ \A a, b \in Unclaimed : a = b
  /\ Unclaimed # {} => UnresolvedSlots(ledger) # {}

\* A supervisor that launches knows the reservations there were before its own; one that adopts, or
\* is about to classify, knows the event directory; and nothing runs after its sweep.
SupervisorTells(t) ==
  /\ spc[t] \in {"loaded", "admitted", "reserved", "running"} =>
       swork[t].mode = "launch" /\ swork[t].event = NONE
  /\ spc[t] \in {"looking", "watching"} => swork[t].mode = "adopt"
  /\ spc[t] \in {"admitted", "reserved"} => Unclaimed = {}
  /\ spc[t] \in {"admitted", "reserved", "running", "sweeping", "identifying"}
       /\ swork[t].mode = "launch" =>
       /\ swork[t].before = Claimed(ledger) /\ t \notin Claimed(ledger)
       /\ Unclaimed \subseteq {t}
       /\ swork[t].event = NONE \/ swork[t].event \in Unclaimed
  /\ spc[t] \in {"looking", "watching", "sweeping", "identifying"} /\ swork[t].mode = "adopt" =>
       Told(swork[t].event)
  /\ spc[t] = "finalizing" => Told(swork[t].event)
  /\ spc[t] \in {"identifying", "finalizing"} => ~AnyOwned

\* A recovery that found no supervisor found the reservation it will act on, if there is one.
CallerTells(c) ==
  /\ cpc[c] = "recording" /\ cseen[c].mode = "launch" => cseen[c].event = NONE
  /\ cpc[c] = "recording" /\ cseen[c].mode = "adopt" => Told(cseen[c].event)
  /\ cpc[c] = "scanning" /\ ~cplan[c].live => cplan[c].found = Unclaimed
  /\ cpc[c] \in {"sweeping", "classifying"} => cplan[c].found = Unclaimed
  /\ cpc[c] = "classifying" => ~AnyOwned

\* So does the record of the supervisor that will adopt.
RecordTells ==
  active # NONE =>
    /\ active.mode = "launch" => active.event = NONE
    /\ active.mode = "adopt" /\ spc[active.token] = "polling" => Told(active.event)

\* This is what makes a slot's class true of its attempt, when nothing is lost while a launcher may
\* still reserve, and every sweep succeeds.
ProcessInv ==
  /\ \A a \in Token : InOrder(a)
  /\ SlotsTell
  /\ \A t \in Token : SupervisorTells(t)
  /\ \A c \in Caller : CallerTells(c)
  /\ RecordTells

-----------------------------------------------------------------------------
(* What the ledger implements *)

Slots == INSTANCE LaunchSlots WITH Attempt <- Token, slots <- ledger

\* Whoever writes the ledger, and from whatever copy of it, its slots are reserved and classified
\* as LaunchSlots says: one at a time, each once, none lost to another writer.
ImplementsSlots == Slots!Spec

-----------------------------------------------------------------------------
(* Liveness *)

\* Whatever happens to the supervisor it waits for, a waiting caller returns.
CallerReturns == \A c \in Caller : cpc[c] = "waiting" ~> cpc[c] = "idle"

\* The host deadline bounds every supervision: a supervisor ends, or is lost.
SupervisionEnds == \A t \in Token : Live(t) ~> ~Live(t)

\* run_lock is "never held while a worker runs": whoever takes it gives it back.
LockReleased == (lock # NONE) ~> (lock = NONE)

=============================================================================
