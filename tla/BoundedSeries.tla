--------------------------- MODULE BoundedSeries ---------------------------
(***************************************************************************)
(* A frozen paired series of paid trajectories (evals/_mlr_series.py): its *)
(* slots are filled in order, each by one attempt inside a constructed     *)
(* view (evals/_mlr_boundary.py), and the series is recorded after every   *)
(* attempt so that a killed driver may be started again on the record.     *)
(*                                                                         *)
(* What the driver holds in memory is what it last wrote: every decision   *)
(* is made from the record and written before the next thing is done, so   *)
(* the record is one variable.  The steps between are those at which the   *)
(* driver may be killed and something outside it remains: a view, the      *)
(* copy of an arm, processes, money spent.                                 *)
(***************************************************************************)
EXTENDS Naturals, Sequences, FiniteSets, FiniteSetsExt, SequencesExt

CONSTANTS
  Slots,          \* number of slots, filled in the order 1 .. Slots
  MaxAttempts,    \* max_attempts_per_slot
  Budget,         \* the ceiling, in the unit costs are counted in
  Reserve,        \* what one more trajectory could cost
  Faults,         \* sets of things that may be wrong with a completed attempt
  MaxRuns,        \* bound: how often the series is started
  MaxChanges,     \* bound: changes of the host between or during runs
  None

ASSUME SeriesAssumption ==
  /\ {Slots, MaxAttempts, Budget, Reserve, MaxRuns, MaxChanges} \subseteq Nat
  /\ None \notin Nat \cup BOOLEAN

VARIABLES
  rows,        \* the measurements of the record on disk, in the order they were appended
  driver,      \* where the running driver is, and in which slot
  attempt,     \* what run_bounded_attempt has put in its result so far
  executor,    \* the executor on the host: "frozen", "other" or "absent"
  residue,     \* what is on the host that the next slot would inherit: views, copies of an arm
  live,        \* processes of the last launched attempt that are still running
  entered,     \* history: how often the launcher was entered for a slot
  money,       \* history: what the trajectories cost, recorded or not
  stops,       \* history: the conditions this series was stopped on
  runs, changes

vars == <<rows, driver, attempt, executor, residue, live, entered, money, stops, runs, changes>>

Gone == [at |-> "gone", slot |-> None]

-----------------------------------------------------------------------------
(* What a recorded attempt says *)

\* Mutant: a launcher that refused is taken to have preceded semantic execution.
ExecutionStageOfWorker(result) ==
  IF ~result.began \/ result.returncode = "refused" THEN "before-launch" ELSE "worker-executed"

\* execution_stage, of what run_bounded_attempt returns: it always says whether the launcher was
\* entered.  "not-offered" and "in-flight" are written by the series loop alone and read back.
ExecutionStage(result) ==
  CASE ~result.began -> "before-launch"
    [] result.began /\ result.returncode = "refused" -> "launcher-refused"
    [] OTHER -> "worker-executed"

\* The condition a completed attempt trips, by the document's order of conditions.
Conditions == <<{"no-session"}, {"unresolved"}, {"contradiction", "uncovered"},
                {"view-survived", "source-in-contract"}, {"drift"}, {"ungraded"}>>
Letter == <<"D", "E", "F", "G", "H", "I">>

ValidityDefect(row) ==
  LET tripped == {n \in DOMAIN Conditions : Conditions[n] \cap row.faults # {}}
  IN  IF tripped = {} THEN None ELSE Letter[Min(tripped)]

Valid(row) == row.validity = "valid"

RowsOf(s) == SelectSeq(rows, LAMBDA row : row.slot = s)

\* spend: an attempt that may have reached the executor and carries no cost is unpriced, not free.
Spend(measurements) ==
  [derived |-> FoldLeft(LAMBDA sum, row : IF row.cost = None THEN sum ELSE sum + row.cost, 0, measurements),
   complete |-> \A n \in DOMAIN measurements :
                  measurements[n].cost = None =>
                    measurements[n].stage \in {"not-offered", "before-launch"}]

Offered(s) == Len(SelectSeq(RowsOf(s), LAMBDA row : row.stage # "not-offered"))

\* _unfinished_trajectory
Unfinished(s) ==
  \E n \in DOMAIN rows :
    /\ rows[n].slot = s
    /\ ~Valid(rows[n])
    /\ rows[n].began \/ rows[n].stage = "in-flight"

Done(s) == \E n \in DOMAIN rows : rows[n].slot = s /\ Valid(rows[n])

Row(s, number, result, stage) ==
  [slot |-> s, attempt |-> number, validity |-> result.validity, began |-> result.began,
   stage |-> stage, cost |-> result.cost, faults |-> result.faults, leak |-> result.leak,
   stopped |-> result.stopped]

\* What run_bounded_attempt starts its result from.
Blank == [validity |-> "harness-failure", began |-> FALSE, returncode |-> None, cost |-> None,
          faults |-> {}, leak |-> FALSE, stopped |-> None, spent |-> 0]

NotOffered(s) == Row(s, Offered(s) + 1, [Blank EXCEPT !.validity = "setup-failure"], "not-offered")

InFlight(s) == Row(s, Offered(s) + 1, Blank, "in-flight")

-----------------------------------------------------------------------------
(* The processes of an attempt and the sweep that stops them *)

\* Launcher, waiter, monitor and worker name the view on their command lines.  The worker's tools
\* are in its group, and a stray is a child of a tool that left the group.
NamesTheView == {"launcher", "waiter", "monitor", "worker"}
Shapes ==
  {{"launcher"}, {"launcher", "waiter", "monitor"}, {"launcher", "waiter", "monitor", "worker"},
   {"launcher", "waiter", "monitor", "worker", "tool"},
   {"launcher", "waiter", "monitor", "worker", "tool", "stray"},
   {"launcher", "waiter", "monitor", "worker", "stray"},
   {"monitor", "worker", "tool"}, {"tool"}, {"stray"}, {}}

\* Mutant: what the launcher recorded, and what hangs from it, is all that is owned.
OwnedByRecord(processes, recorded) ==
  LET roots == recorded \cap processes
  IN  roots \cup (IF "worker" \in roots THEN {"tool"} \cap processes ELSE {})

\* _owned_processes: recorded pids that still name the view, the groups they lead, what descends
\* from them, and whatever names the view.
Owned(processes, recorded) ==
  LET roots == recorded \cap processes
  IN  roots
      \cup (IF "worker" \in roots THEN {"tool"} \cap processes ELSE {})
      \cup (IF {"worker", "tool"} \subseteq processes /\ "worker" \in roots
              THEN {"stray"} \cap processes ELSE {})
      \cup (NamesTheView \cap processes)

\* The pids in attempt.json, once the attempt is reserved and as long as its view exists.
Recorded(processes) == {{}} \cup IF "worker" \in processes THEN {{"monitor", "worker"}} ELSE {}

\* _stop_attempt: every outcome of the two rounds of signals, some of which may reach nothing; a
\* process that names the view and is not watched is not killed.  The process table may be unreadable.
StopAttempt(processes, recorded) ==
  LET watch == Owned(processes, recorded)
  IN  {[live |-> processes, stopped |-> FALSE]}
      \cup {[live |-> (processes \ watch) \cup survivors, stopped |-> survivors = {}] :
              survivors \in SUBSET watch}

-----------------------------------------------------------------------------
(* The host *)

\* What launchable and b1_preflight check before anything is bought.
Launchable == executor = "frozen" /\ residue = {}

EligibleExecutor == executor = "frozen"

HostChange ==
  /\ changes < MaxChanges
  /\ changes' = changes + 1

\* The executor is upgraded, removed or put back.
ChangeExecutor(e) ==
  /\ HostChange
  /\ executor # e
  /\ executor' = e
  /\ UNCHANGED <<rows, driver, attempt, residue, live, entered, money, stops, runs>>

\* Something else leaves a copy of an arm where the next slot could read it.
LeaveCopy ==
  /\ HostChange
  /\ "copy" \notin residue
  /\ residue' = residue \cup {"copy"}
  /\ UNCHANGED <<rows, driver, attempt, executor, live, entered, money, stops, runs>>

\* clear_stale_views and preflight --clean, which an operator runs when no driver does.
Clear ==
  /\ driver = Gone
  /\ residue # {}
  /\ residue' = {}
  /\ UNCHANGED <<rows, driver, attempt, executor, live, entered, money, stops, runs, changes>>

-----------------------------------------------------------------------------
(* The series *)

\* run_b1: refused unless launchable, then the record is loaded.
Start ==
  /\ driver = Gone
  /\ runs < MaxRuns
  /\ Launchable
  /\ driver' = [at |-> "resume", slot |-> 1]
  /\ runs' = runs + 1
  /\ UNCHANGED <<rows, attempt, executor, residue, live, entered, money, stops, changes>>

\* stop: the record is written and the driver returns its condition.
Stop(condition) ==
  /\ stops' = stops \cup {condition}
  /\ driver' = Gone

Defective == {n \in DOMAIN rows : Valid(rows[n]) /\ ValidityDefect(rows[n]) # None}

\* The validity rules are applied again to every attempt on disk before anything else is done.
Resume ==
  /\ driver.at = "resume"
  /\ IF Defective # {}
       THEN Stop(ValidityDefect(rows[Min(Defective)]))
       ELSE driver' = [at |-> "next", slot |-> 1] /\ stops' = stops
  /\ UNCHANGED <<rows, attempt, executor, residue, live, entered, money, runs, changes>>

\* A completed slot is skipped.
SkipSlot ==
  /\ driver.at = "next"
  /\ driver.slot <= Slots
  /\ Done(driver.slot)
  /\ driver' = [driver EXCEPT !.slot = @ + 1]
  /\ UNCHANGED <<rows, attempt, executor, residue, live, entered, money, stops, runs, changes>>

\* The series is complete.
Complete ==
  /\ driver.at = "next"
  /\ driver.slot > Slots
  /\ Stop("complete")
  /\ UNCHANGED <<rows, attempt, executor, residue, live, entered, money, runs, changes>>

AffordsOneMore ==
  /\ Spend(rows).complete
  /\ Spend(rows).derived + Reserve <= Budget

\* A slot the driver has just come to is asked for an earlier attempt; one it offers again is not,
\* for the loop that just recorded the attempt has already judged it.
MayOffer(s) ==
  \/ driver.at = "retry"
  \/ /\ driver.at = "next"
     /\ s <= Slots
     /\ ~Done(s)
     /\ ~Unfinished(s)

\* The slot is refused: on an earlier attempt of it, on the ceiling, or on the host.  The rows of a
\* refusal that never reached the executor are marked so.
RefuseSlot ==
  /\ LET s == driver.slot
     IN  \/ /\ driver.at = "next" /\ s <= Slots
            /\ ~Done(s) /\ Unfinished(s)
            /\ Stop("C")
            /\ UNCHANGED rows
         \/ /\ MayOffer(s) /\ Offered(s) >= MaxAttempts
            /\ Stop("B")
            /\ UNCHANGED rows
         \/ /\ MayOffer(s) /\ Offered(s) < MaxAttempts
            /\ \/ /\ ~AffordsOneMore
                  /\ Stop("J")
                  /\ rows' = Append(rows, NotOffered(s))
               \/ /\ AffordsOneMore /\ ~EligibleExecutor
                  /\ Stop("executor")
                  /\ UNCHANGED rows
               \/ /\ AffordsOneMore /\ EligibleExecutor /\ residue # {}
                  /\ Stop("residue")
                  /\ rows' = Append(rows, NotOffered(s))
  /\ UNCHANGED <<attempt, executor, residue, live, entered, money, runs, changes>>

\* The slot is offered: that it was entered is on disk before anything is done about it.
OfferSlot ==
  /\ LET s == driver.slot
     IN  /\ MayOffer(s) /\ Offered(s) < MaxAttempts
         /\ AffordsOneMore /\ EligibleExecutor /\ residue = {}
         /\ rows' = Append(rows, InFlight(s))
         /\ attempt' = Blank
         /\ driver' = [driver EXCEPT !.at = "setup"]
  /\ UNCHANGED <<executor, residue, live, entered, money, stops, runs, changes>>

\* The executor is hashed, the view made and the arm staged in it; a failure is the attempt's
\* outcome, and the view is destroyed with it, unless removing it fails.
Setup ==
  /\ driver.at = "setup"
  /\ \/ /\ driver' = [driver EXCEPT !.at = "outcome"]
        /\ UNCHANGED <<attempt, residue>>
     \/ /\ executor # "absent"
        /\ driver' = [driver EXCEPT !.at = "preflight"]
        /\ attempt' = [attempt EXCEPT !.faults = IF executor = "other" THEN {"drift"} ELSE {}]
        /\ residue' = residue \cup {"view"}
  /\ UNCHANGED <<rows, executor, live, entered, money, stops, runs, changes>>

\* preflight scans the view; a finding is a leak, and nothing is launched.
Preflight ==
  /\ driver.at = "preflight"
  /\ \/ /\ attempt' = [attempt EXCEPT !.validity = "setup-failure", !.leak = TRUE]
        /\ driver' = [driver EXCEPT !.at = "outcome"]
        /\ residue' \in {residue, residue \ {"view"}}
     \/ /\ driver' = [driver EXCEPT !.at = "launch"]
        /\ UNCHANGED <<attempt, residue>>
  /\ UNCHANGED <<rows, executor, live, entered, money, stops, runs, changes>>

\* launch: from here on nothing may be read as "no model call happened".
Launch(cost) ==
  /\ driver.at = "launch"
  /\ attempt' = [attempt EXCEPT !.began = TRUE, !.spent = cost]
  /\ entered' = [entered EXCEPT ![driver.slot] = @ + 1]
  /\ money' = money + cost
  /\ driver' = [driver EXCEPT !.at = "running"]
  /\ live' = {"launcher"}
  /\ UNCHANGED <<rows, executor, residue, stops, runs, changes>>

\* The attempt returns: its view is destroyed, unless removing it fails, which a completed attempt
\* notices.  What is read back from the view before decides whether the trajectory has a price.
Ends(result, processes) ==
  /\ attempt' = result
  /\ driver' = [driver EXCEPT !.at = "outcome"]
  /\ live' = processes
  /\ residue' \in {residue, residue \ {"view"}}
  /\ UNCHANGED <<rows, executor, entered, money, stops, runs, changes>>

\* The deadline expires in the launch, after it or in the gate, or the monitor noticed it: the
\* processes are stopped from outside, and nothing is graded or priced.
TimeOut(processes) ==
  /\ driver.at = "running"
  /\ \E recorded \in Recorded(processes) : \E sweep \in StopAttempt(processes, recorded) :
       Ends([attempt EXCEPT !.stopped = sweep.stopped], sweep.live)

\* The launcher refuses, its output names no attempt, the gate leaves no artifact or the report is
\* the launcher's own skeleton; or the collection or the grading raises.
Fail(validity, returncode, processes) ==
  /\ driver.at = "running"
  /\ Ends([attempt EXCEPT !.validity = validity, !.returncode = returncode], processes)

\* Grading raises after the session was priced: the price is kept.
FailGrading(processes) ==
  /\ driver.at = "running"
  /\ Ends([attempt EXCEPT !.returncode = "zero", !.cost = attempt.spent], processes)

\* The attempt is collected, graded and valid.  Without its session there is no price, and a model
\* the table does not know has none either.
Succeed(faults, priced, processes) ==
  /\ driver.at = "running"
  /\ "no-session" \in faults => ~priced
  /\ \E survived \in BOOLEAN :
       /\ Ends([attempt EXCEPT !.validity = "valid", !.returncode = "zero",
                               !.faults = @ \cup faults \cup IF survived THEN {"view-survived"} ELSE {},
                               !.cost = IF priced THEN attempt.spent ELSE None],
               processes)
       /\ survived <=> "view" \in residue'

\* The outcome takes the place of the row that was in flight, and is written.
Outcome == Row(driver.slot, Last(rows).attempt, attempt, ExecutionStage(attempt))

RecordOutcome ==
  /\ driver.at = "outcome"
  /\ rows' = [rows EXCEPT ![Len(rows)] = Outcome]
  /\ IF Valid(Outcome)
       THEN IF ValidityDefect(Outcome) # None
              THEN Stop(ValidityDefect(Outcome))
              ELSE driver' = [driver EXCEPT !.at = "next"] /\ stops' = stops
       ELSE IF Outcome.stage # "before-launch" THEN Stop("C")
            ELSE IF Outcome.leak THEN Stop("leak")
            ELSE driver' = [driver EXCEPT !.at = "retry"] /\ stops' = stops
  /\ UNCHANGED <<attempt, executor, residue, live, entered, money, runs, changes>>

\* The driver is killed: its view and the copy it was staging or grading stay, its processes run
\* on.  Interrupted before it launched, it still destroys its view.
Kill ==
  /\ driver # Gone
  /\ driver' = Gone
  /\ LET leaves == CASE driver.at = "setup" -> {"view", "copy"}
                     [] driver.at = "running" -> {"copy"}
                     [] OTHER -> {}
     IN  residue' \in {residue \ {"view"}} \cup {residue \cup left : left \in SUBSET leaves}
  /\ UNCHANGED <<rows, attempt, executor, live, entered, money, stops, runs, changes>>

\* The driver is interrupted in a launched attempt: its view goes first, and with it the recorded
\* pids, so that only a command line shows what is owned.
Interrupt(processes) ==
  /\ driver.at = "running"
  /\ \E sweep \in StopAttempt(processes, {}) :
       /\ live' = sweep.live
       /\ attempt' = [attempt EXCEPT !.stopped = sweep.stopped]
  /\ driver' = Gone
  /\ residue' = residue \ {"view"}
  /\ UNCHANGED <<rows, executor, entered, money, stops, runs, changes>>

-----------------------------------------------------------------------------
Init ==
  /\ rows = <<>>
  /\ driver = Gone
  /\ attempt = Blank
  /\ executor \in {"frozen", "other", "absent"}
  /\ residue = {}
  /\ live = {}
  /\ entered = [s \in 1 .. Slots |-> 0]
  /\ money = 0
  /\ stops = {}
  /\ runs = 0
  /\ changes = 0

Attempts ==
  \/ Setup
  \/ Preflight
  \/ \E cost \in 0 .. Reserve : Launch(cost)
  \/ \E processes \in Shapes :
       \/ TimeOut(processes)
       \/ \E validity \in {"setup-failure", "harness-failure"} :
            \E returncode \in {"refused", "zero"} : Fail(validity, returncode, processes)
       \/ FailGrading(processes)
       \/ \E faults \in Faults, priced \in BOOLEAN : Succeed(faults, priced, processes)
       \/ Interrupt(processes)

Next ==
  \/ Start \/ Resume \/ SkipSlot \/ Complete \/ RefuseSlot \/ OfferSlot
  \/ Attempts
  \/ RecordOutcome
  \/ Kill
  \/ \E e \in {"frozen", "other", "absent"} : ChangeExecutor(e)
  \/ LeaveCopy
  \/ Clear

Spec == Init /\ [][Next]_vars

-----------------------------------------------------------------------------
(* Properties *)

\* A slot never buys a second trajectory: once the launcher was entered for it, no later attempt
\* and no restart on the record enters it again, wherever the driver was killed.
OneTrajectoryPerSlot == \A s \in 1 .. Slots : entered[s] <= 1

\* When an attempt's record says its processes were stopped, no launcher, waiter, monitor or worker
\* of it is left to call a provider, although an interrupted attempt has lost its recorded pids.
StoppedMeansQuiet == attempt.stopped = TRUE => live \cap NamesTheView = {}

\* "A stop is a property of the evidence, not of the process that noticed it": a series stopped on
\* a leak into a slot's view would stay stopped as well.
LeakStaysStopped == [][stops \cap {"leak"} # {} => entered' = entered]_vars

=============================================================================
