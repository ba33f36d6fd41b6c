------------------------ MODULE EvaluationRunProofs ------------------------
(***************************************************************************)
(* Proofs about recorded evaluations: a bounded series, the slice that     *)
(* ends in a package, and two qualification results that are compared, for *)
(* any number of slots, attempts, launches, trials and changes.  The three *)
(* share no variable, and nothing here relates them.                       *)
(***************************************************************************)
EXTENDS BoundedSeries, SlicePackage, QualificationComparison,
        FiniteSetTheorems, SequenceTheorems, TLAPS

-----------------------------------------------------------------------------
(* One trajectory per slot.  A slot whose launcher was entered has a row that says so (Told), at *)
(* first as the row in flight and then as its outcome, and such a row is never replaced by one   *)
(* that does not; a driver that comes to a slot looks for it.                                    *)

\* A row of a slot whose launcher was, or may have been, entered.
Telling(row, s) == row.slot = s /\ (row.began \/ row.stage = "in-flight")
Told(s) == \E n \in DOMAIN rows : Telling(rows[n], s)

SeriesTypes ==
  /\ \E S : rows \in Seq(S)
  /\ driver = Gone \/ driver.slot \in Nat
  /\ {"at", "slot"} \subseteq DOMAIN driver
  /\ "began" \in DOMAIN attempt /\ attempt.began \in BOOLEAN
  /\ entered \in [1 .. Slots -> Nat]

Entered(s) == s \in 1 .. Slots /\ entered[s] > 0
Attempting == driver.at \in {"setup", "preflight", "launch", "running", "outcome"}

\* The last row is the one in flight, and nobody entered the launcher before this attempt did.
AttemptInv ==
  /\ Attempting =>
       rows # <<>> /\ rows[Len(rows)].slot = driver.slot /\ rows[Len(rows)].stage = "in-flight"
  /\ driver.at \in {"setup", "preflight", "launch", "retry"} => ~Entered(driver.slot)
  /\ driver.at \in {"running", "outcome"} => (Entered(driver.slot) => attempt.began)

SeriesInv ==
  SeriesTypes /\ OneTrajectoryPerSlot /\ AttemptInv /\ \A s : Entered(s) => Told(s)

LEMMA SeriesStart == Init => SeriesInv
<1> SUFFICES ASSUME Init PROVE SeriesInv  OBVIOUS
<1> USE DEF Init
<1>1. rows \in Seq({})  BY EmptySeq
<1>2. SeriesTypes  BY <1>1 DEF SeriesTypes, Gone, Blank
<1>3. AttemptInv  BY DEF AttemptInv, Attempting, Gone
<1>4. OneTrajectoryPerSlot /\ \A s : Entered(s) => Told(s)  BY DEF OneTrajectoryPerSlot, Entered
<1> QED  BY <1>2, <1>3, <1>4 DEF SeriesInv

LEMMA AppendKeepsTold ==
  ASSUME SeriesTypes, NEW row, rows' = Append(rows, row)
  PROVE  /\ \E S : rows' \in Seq(S)
         /\ rows' # <<>> /\ rows'[Len(rows')] = row
         /\ \A s : Told(s) => Told(s)'
<1>1. PICK S : rows \in Seq(S)  BY DEF SeriesTypes
<1>2. rows \in Seq(S \cup {row})  BY <1>1, ElementOfSeq, SeqDef
<1>3. rows' \in Seq(S \cup {row})  BY <1>2, AppendProperties
<1>4. /\ Len(rows') = Len(rows) + 1 /\ rows'[Len(rows')] = row /\ rows' # <<>>
      /\ \A n \in DOMAIN rows : n \in DOMAIN rows' /\ rows'[n] = rows[n]
  BY <1>2
<1>5. \A s : Told(s) => Told(s)'  BY <1>4 DEF Told
<1> QED  BY <1>3, <1>4, <1>5

LEMMA OutcomeKeepsTold ==
  ASSUME SeriesTypes, NEW row, rows # <<>>, rows' = [rows EXCEPT ![Len(rows)] = row],
         NEW s, Told(s), rows[Len(rows)].slot = s => Telling(row, s)
  PROVE  Told(s)'
<1>1. PICK S : rows \in Seq(S)  BY DEF SeriesTypes
<1>2. DOMAIN rows = 1 .. Len(rows) /\ Len(rows) \in Nat \ {0}  BY <1>1
<1>3. PICK n \in DOMAIN rows : Telling(rows[n], s)  BY DEF Told
<1>4. CASE n = Len(rows)
  <2>1. rows'[n] = row /\ n \in DOMAIN rows'  BY <1>2, <1>3, <1>4
  <2> QED  BY <2>1, <1>3, <1>4 DEF Told, Telling
<1>5. CASE n # Len(rows)
  <2>1. rows'[n] = rows[n] /\ n \in DOMAIN rows'  BY <1>2, <1>3, <1>5
  <2> QED  BY <2>1, <1>3 DEF Told
<1> QED  BY <1>4, <1>5

\* A driver that may offer a slot it has just come to finds no row of an entered launcher.
LEMMA OfferedSlotIsNew ==
  ASSUME SeriesInv, driver.at = "next", ~Done(driver.slot), ~Unfinished(driver.slot)
  PROVE  ~Entered(driver.slot)
BY DEF SeriesInv, Told, Telling, Done, Unfinished, Valid

\* A step that adds no trajectory and no row, and leaves no attempt under way.
LEMMA BetweenAttempts ==
  ASSUME SeriesInv, UNCHANGED <<rows, entered>>,
         {"at", "slot"} \subseteq DOMAIN driver', driver' = Gone \/ driver'.slot \in Nat,
         driver'.at \notin {"setup", "preflight", "launch", "running", "outcome", "retry"},
         "began" \in DOMAIN attempt', attempt'.began \in BOOLEAN
  PROVE  SeriesInv'
<1> USE DEF SeriesInv
<1>1. SeriesTypes'  BY DEF SeriesTypes
<1>2. AttemptInv'  BY DEF AttemptInv, Attempting
<1>3. OneTrajectoryPerSlot' /\ \A s : Entered(s)' => Told(s)'
  BY DEF OneTrajectoryPerSlot, Entered, Told
<1> QED  BY <1>1, <1>2, <1>3

\* A step within an attempt that enters nothing.
LEMMA WithinAttempt ==
  ASSUME SeriesInv, UNCHANGED <<rows, entered>>, Attempting, driver # Gone,
         NEW at \in {"preflight", "launch", "outcome"}, driver' = [driver EXCEPT !.at = at],
         at # "outcome" => driver.at \in {"setup", "preflight"},
         "began" \in DOMAIN attempt', attempt'.began = attempt.began
  PROVE  SeriesInv'
<1> USE DEF SeriesInv
<1>1. driver'.at = at /\ driver'.slot = driver.slot /\ {"at", "slot"} \subseteq DOMAIN driver'
  BY DEF SeriesTypes
<1>2. SeriesTypes'  BY <1>1 DEF SeriesTypes
<1>3. AttemptInv'  BY <1>1 DEF AttemptInv, Attempting, Entered
<1>4. OneTrajectoryPerSlot' /\ \A s : Entered(s)' => Told(s)'
  BY DEF OneTrajectoryPerSlot, Entered, Told
<1> QED  BY <1>2, <1>3, <1>4

LEMMA RefusalKeepsInv ==
  ASSUME SeriesInv, RefuseSlot
  PROVE  SeriesInv'
<1>1. PICK c : Stop(c)  BY DEF RefuseSlot
<1>2. driver' = Gone /\ UNCHANGED <<attempt, entered>>  BY <1>1 DEF Stop, RefuseSlot
<1>3. CASE UNCHANGED rows
  BY <1>2, <1>3, BetweenAttempts DEF Gone, SeriesInv, SeriesTypes
<1>4. CASE rows' = Append(rows, NotOffered(driver.slot))
  <2>1. (\E S : rows' \in Seq(S)) /\ \A s : Told(s) => Told(s)'
    BY <1>4, AppendKeepsTold DEF SeriesInv
  <2>2. SeriesTypes'  BY <1>2, <2>1 DEF SeriesInv, SeriesTypes, Gone
  <2>3. AttemptInv'  BY <1>2 DEF AttemptInv, Attempting, Gone
  <2>4. OneTrajectoryPerSlot' /\ \A s : Entered(s)' => Told(s)'
    BY <1>2, <2>1 DEF SeriesInv, OneTrajectoryPerSlot, Entered
  <2> QED  BY <2>2, <2>3, <2>4 DEF SeriesInv
<1> QED  BY <1>3, <1>4 DEF RefuseSlot

LEMMA OfferKeepsInv ==
  ASSUME SeriesInv, OfferSlot
  PROVE  SeriesInv'
<1> USE DEF SeriesInv
<1>1. /\ rows' = Append(rows, InFlight(driver.slot)) /\ attempt' = Blank
      /\ driver' = [driver EXCEPT !.at = "setup"] /\ UNCHANGED entered
      /\ MayOffer(driver.slot)
  BY DEF OfferSlot
<1>2. ~Entered(driver.slot)
  BY <1>1, OfferedSlotIsNew DEF MayOffer, AttemptInv
<1>3. driver'.at = "setup" /\ driver'.slot = driver.slot /\ {"at", "slot"} \subseteq DOMAIN driver'
  BY <1>1 DEF SeriesTypes
<1>4. driver # Gone  BY <1>1 DEF MayOffer, Gone
<1>5. /\ \E S : rows' \in Seq(S)
      /\ rows' # <<>> /\ rows'[Len(rows')] = InFlight(driver.slot)
      /\ \A s : Told(s) => Told(s)'
  BY <1>1, AppendKeepsTold
<1>6. InFlight(driver.slot).slot = driver.slot /\ InFlight(driver.slot).stage = "in-flight"
  BY DEF InFlight, Row
<1>7. SeriesTypes'
  <2>1. "began" \in DOMAIN attempt' /\ attempt'.began \in BOOLEAN  BY <1>1 DEF Blank
  <2>2. driver'.slot \in Nat  BY <1>3, <1>4 DEF SeriesTypes
  <2> QED  BY <1>1, <1>3, <1>5, <2>1, <2>2 DEF SeriesTypes
<1>8. AttemptInv'  BY <1>1, <1>2, <1>3, <1>5, <1>6 DEF AttemptInv, Entered
<1>9. OneTrajectoryPerSlot' /\ \A s : Entered(s)' => Told(s)'
  BY <1>1, <1>5 DEF OneTrajectoryPerSlot, Entered
<1> QED  BY <1>7, <1>8, <1>9

LEMMA LaunchKeepsInv ==
  ASSUME SeriesInv, NEW cost, Launch(cost)
  PROVE  SeriesInv'
<1> USE DEF SeriesInv
<1>1. /\ driver.at = "launch" /\ UNCHANGED rows
      /\ attempt' = [attempt EXCEPT !.began = TRUE, !.spent = cost]
      /\ entered' = [entered EXCEPT ![driver.slot] = @ + 1]
      /\ driver' = [driver EXCEPT !.at = "running"]
  BY DEF Launch
<1>2. driver'.at = "running" /\ driver'.slot = driver.slot /\ {"at", "slot"} \subseteq DOMAIN driver'
      /\ driver # Gone
  BY <1>1 DEF SeriesTypes, Gone
<1>3. "began" \in DOMAIN attempt' /\ attempt'.began = TRUE  BY <1>1 DEF SeriesTypes
<1>4. rows # <<>> /\ rows[Len(rows)].slot = driver.slot /\ rows[Len(rows)].stage = "in-flight"
  BY <1>1 DEF AttemptInv, Attempting
<1>5. Told(driver.slot)
  <2>1. PICK S : rows \in Seq(S)  BY DEF SeriesTypes
  <2>2. Len(rows) \in DOMAIN rows  BY <1>4, <2>1
  <2> QED  BY <1>4, <2>2 DEF Told, Telling
<1>6. SeriesTypes'
  <2>1. entered' \in [1 .. Slots -> Nat]
    <3>1. entered \in [1 .. Slots -> Nat]  BY DEF SeriesTypes
    <3>2. \A s \in 1 .. Slots : entered'[s] \in {entered[s], entered[s] + 1}  BY <1>1, <3>1
    <3>3. \A s \in 1 .. Slots : entered'[s] \in Nat
      <4>1. \A s \in 1 .. Slots : entered[s] \in Nat  BY <3>1
      <4> QED  BY <4>1, <3>2
    <3>4. entered' = [s \in 1 .. Slots |-> entered'[s]]  BY <1>1, <3>1
    <3> QED  BY <3>3, <3>4
  <2>2. driver'.slot \in Nat  BY <1>2 DEF SeriesTypes
  <2>3. \E S : rows' \in Seq(S)  BY <1>1 DEF SeriesTypes
  <2> QED  BY <1>2, <1>3, <2>1, <2>2, <2>3 DEF SeriesTypes
<1>7. AttemptInv'  BY <1>1, <1>2, <1>3, <1>4 DEF AttemptInv
<1>8. OneTrajectoryPerSlot'
  BY <1>1 DEF OneTrajectoryPerSlot, AttemptInv, Entered, SeriesTypes
<1>9. ASSUME NEW s, Entered(s)' PROVE Told(s)'
  <2>1. s = driver.slot \/ Entered(s)  BY <1>1, <1>9 DEF Entered, SeriesTypes
  <2> QED  BY <1>1, <1>5, <2>1 DEF Told
<1> QED  BY <1>6, <1>7, <1>8, <1>9

LEMMA OutcomeKeepsInv ==
  ASSUME SeriesInv, RecordOutcome
  PROVE  SeriesInv'
<1> USE DEF SeriesInv
<1>1. /\ driver.at = "outcome" /\ rows' = [rows EXCEPT ![Len(rows)] = Outcome]
      /\ UNCHANGED <<attempt, entered>>
  BY DEF RecordOutcome
<1>2. rows # <<>> /\ rows[Len(rows)].slot = driver.slot /\ (Entered(driver.slot) => attempt.began)
      /\ driver # Gone
  BY <1>1 DEF AttemptInv, Attempting, Gone
<1>3. /\ Outcome.slot = driver.slot /\ Outcome.began = attempt.began
      /\ Outcome.stage = ExecutionStage(attempt)
  BY DEF Outcome, Row
<1>4. ASSUME NEW s, Entered(s) PROVE Told(s)'
  BY <1>1, <1>2, <1>3, <1>4, OutcomeKeepsTold DEF Telling
<1>5. \E S : rows' \in Seq(S)
  <2>1. PICK S : rows \in Seq(S)  BY DEF SeriesTypes
  <2>2. rows \in Seq(S \cup {Outcome})  BY <2>1, ElementOfSeq, SeqDef
  <2>3. rows' \in Seq(S \cup {Outcome})  BY <1>1, <1>2, <2>2
  <2> QED  BY <2>3
<1>6. \/ driver' = Gone
      \/ driver' = [driver EXCEPT !.at = "next"]
      \/ driver' = [driver EXCEPT !.at = "retry"] /\ ~attempt.began
  <2>1. Outcome.stage = "before-launch" => ~attempt.began
    BY <1>3 DEF ExecutionStage, SeriesTypes
  <2> QED  BY <2>1 DEF RecordOutcome, Stop
<1>7. /\ {"at", "slot"} \subseteq DOMAIN driver' /\ (driver' = Gone \/ driver'.slot \in Nat)
      /\ driver'.at \in {"gone", "next", "retry"}
      /\ driver'.at = "retry" => driver'.slot = driver.slot /\ ~attempt.began
  BY <1>2, <1>6 DEF SeriesTypes, Gone
<1>8. SeriesTypes'  BY <1>1, <1>5, <1>7 DEF SeriesTypes
<1>9. AttemptInv'  BY <1>1, <1>2, <1>7 DEF AttemptInv, Attempting, Entered
<1>10. OneTrajectoryPerSlot' /\ \A s : Entered(s)' => Told(s)'
  BY <1>1, <1>4 DEF OneTrajectoryPerSlot, Entered
<1> QED  BY <1>8, <1>9, <1>10

LEMMA AttemptKeepsInv ==
  ASSUME SeriesInv, Attempts, ~\E cost : Launch(cost)
  PROVE  SeriesInv'
<1> USE DEF SeriesInv
<1>1. ASSUME NEW result, NEW processes, driver.at = "running", Ends(result, processes),
             "began" \in DOMAIN result, result.began = attempt.began
      PROVE  SeriesInv'
  <2>1. driver # Gone /\ Attempting  BY <1>1 DEF Gone, Attempting
  <2> QED  BY <1>1, <2>1, WithinAttempt DEF Ends
<1>2. CASE Setup
  <2>1. driver # Gone /\ Attempting  BY <1>2 DEF Setup, Gone, Attempting
  <2>2. "began" \in DOMAIN attempt' /\ attempt'.began = attempt.began
    BY <1>2 DEF Setup, SeriesTypes
  <2> QED  BY <1>2, <2>1, <2>2, WithinAttempt DEF Setup
<1>3. CASE Preflight
  <2>1. driver # Gone /\ Attempting  BY <1>3 DEF Preflight, Gone, Attempting
  <2>2. "began" \in DOMAIN attempt' /\ attempt'.began = attempt.began
    BY <1>3 DEF Preflight, SeriesTypes
  <2> QED  BY <1>3, <2>1, <2>2, WithinAttempt DEF Preflight
<1>4. ASSUME NEW processes, TimeOut(processes) PROVE SeriesInv'
  <2>1. PICK sweep : Ends([attempt EXCEPT !.stopped = sweep.stopped], sweep.live)
    BY <1>4 DEF TimeOut
  <2> QED  BY <1>1, <1>4, <2>1 DEF TimeOut, SeriesTypes
<1>5. ASSUME NEW processes, NEW validity, NEW returncode, Fail(validity, returncode, processes)
      PROVE  SeriesInv'
  BY <1>1, <1>5 DEF Fail, SeriesTypes
<1>6. ASSUME NEW processes, FailGrading(processes) PROVE SeriesInv'
  BY <1>1, <1>6 DEF FailGrading, SeriesTypes
<1>7. ASSUME NEW processes, NEW faults, NEW priced, Succeed(faults, priced, processes)
      PROVE  SeriesInv'
  <2>1. PICK f, c : Ends([attempt EXCEPT !.validity = "valid", !.returncode = "zero",
                                         !.faults = f, !.cost = c], processes)
    BY <1>7 DEF Succeed
  <2> QED  BY <1>1, <1>7, <2>1 DEF Succeed, SeriesTypes
<1>8. ASSUME NEW processes, Interrupt(processes) PROVE SeriesInv'
  BY <1>8, BetweenAttempts DEF Interrupt, Gone, SeriesTypes
<1> QED  BY <1>2, <1>3, <1>4, <1>5, <1>6, <1>7, <1>8 DEF Attempts

LEMMA SeriesStep == SeriesInv /\ [Next]_vars => SeriesInv'
<1> SUFFICES ASSUME SeriesInv, [Next]_vars PROVE SeriesInv'  OBVIOUS
<1>1. CASE Start  BY <1>1, BetweenAttempts DEF Start, SeriesInv, SeriesTypes
<1>2. CASE Resume  BY <1>2, BetweenAttempts DEF Resume, Stop, Gone, SeriesInv, SeriesTypes
<1>3. CASE SkipSlot
  BY <1>3, BetweenAttempts DEF SkipSlot, Gone, SeriesInv, SeriesTypes
<1>4. CASE Complete \/ Kill
  BY <1>4, BetweenAttempts DEF Complete, Kill, Stop, Gone, SeriesInv, SeriesTypes
<1>5. CASE RefuseSlot  BY <1>5, RefusalKeepsInv
<1>6. CASE OfferSlot  BY <1>6, OfferKeepsInv
<1>7. CASE Attempts  BY <1>7, AttemptKeepsInv, LaunchKeepsInv
<1>8. CASE RecordOutcome  BY <1>8, OutcomeKeepsInv
<1>9. CASE UNCHANGED <<rows, driver, attempt, entered>>
  BY <1>9 DEF SeriesInv, SeriesTypes, AttemptInv, Attempting, Entered, Told, OneTrajectoryPerSlot
<1> QED
  BY <1>1, <1>2, <1>3, <1>4, <1>5, <1>6, <1>7, <1>8, <1>9
     DEF Next, ChangeExecutor, LeaveCopy, Clear, vars

\* The invariant: every slot whose launcher was entered has a row that says so.
THEOREM SeriesInvariant == Spec => []SeriesInv
BY SeriesStart, SeriesStep, PTL DEF Spec

\* No slot buys a second trajectory, however many slots, attempts and restarts there are and
\* wherever the driver is killed.
THEOREM SlotsAreBoughtOnce == Spec => []OneTrajectoryPerSlot
BY SeriesInvariant, PTL DEF SeriesInv

-----------------------------------------------------------------------------
(* What a stop leaves running.  An attempt says nothing of a stop until it is over, so that what *)
(* it says is never of processes that were started since.                                        *)

StopInv ==
  /\ "stopped" \in DOMAIN attempt
  /\ driver.at \in {"setup", "preflight", "launch", "running"} => attempt.stopped # TRUE
  /\ StoppedMeansQuiet

\* Every process that names the view is watched, whatever was recorded.
LEMMA SweepStopsTheNamed ==
  ASSUME NEW processes, NEW recorded, NEW sweep \in StopAttempt(processes, recorded),
         sweep.stopped = TRUE
  PROVE  sweep.live \cap NamesTheView = {}
<1>1. NamesTheView \cap processes \subseteq Owned(processes, recorded)  BY DEF Owned
<1> DEFINE watch == Owned(processes, recorded)
<1>2. CASE sweep = [live |-> processes, stopped |-> FALSE]  BY <1>2
<1>3. ASSUME NEW survivors \in SUBSET watch,
             sweep = [live |-> (processes \ watch) \cup survivors, stopped |-> survivors = {}]
      PROVE  sweep.live \cap NamesTheView = {}
  <2>1. survivors = {} /\ sweep.live = (processes \ watch) \cup survivors  BY <1>3
  <2> QED  BY <1>1, <2>1
<1> QED  BY <1>2, <1>3 DEF StopAttempt

LEMMA StopStart == Init => StopInv
BY SeriesAssumption DEF Init, Blank, Gone, StopInv, StoppedMeansQuiet

\* An attempt that ends, swept or not.
LEMMA EndKeepsStops ==
  ASSUME StopInv, NEW result, NEW processes, driver.at = "running", Ends(result, processes),
         "stopped" \in DOMAIN result,
         result.stopped = TRUE => processes \cap NamesTheView = {}
  PROVE  StopInv'
<1>1. driver'.at \notin {"setup", "preflight", "launch", "running"}
  BY DEF Ends, SeriesTypes
<1> QED  BY <1>1 DEF StopInv, StoppedMeansQuiet, Ends

LEMMA AttemptKeepsStops ==
  ASSUME SeriesInv, StopInv, Attempts
  PROVE  StopInv'
<1> USE DEF StopInv
<1>1. "at" \in DOMAIN driver  BY DEF SeriesInv, SeriesTypes
<1>2. CASE Setup  BY <1>1, <1>2 DEF Setup, StoppedMeansQuiet
<1>3. CASE Preflight  BY <1>1, <1>3 DEF Preflight, StoppedMeansQuiet
<1>4. ASSUME NEW cost, Launch(cost) PROVE StopInv'
  BY <1>1, <1>4 DEF Launch, StoppedMeansQuiet
<1>5. ASSUME NEW processes, TimeOut(processes) PROVE StopInv'
  <2>1. PICK recorded : \E sweep \in StopAttempt(processes, recorded) :
          Ends([attempt EXCEPT !.stopped = sweep.stopped], sweep.live)
    BY <1>5 DEF TimeOut
  <2>2. PICK sweep \in StopAttempt(processes, recorded) :
          Ends([attempt EXCEPT !.stopped = sweep.stopped], sweep.live)
    BY <2>1
  <2>3. sweep.stopped = TRUE => sweep.live \cap NamesTheView = {}
    BY <2>2, SweepStopsTheNamed
  <2>4. PICK result : result = [attempt EXCEPT !.stopped = sweep.stopped]  OBVIOUS
  <2>5. "stopped" \in DOMAIN result /\ result.stopped = sweep.stopped /\ driver.at = "running"
    BY <1>5, <2>4 DEF TimeOut
  <2>6. Ends(result, sweep.live)  BY <2>2, <2>4
  <2> HIDE DEF StopInv
  <2> QED  BY <2>3, <2>5, <2>6, EndKeepsStops
<1>6. ASSUME NEW processes, NEW validity, NEW returncode, Fail(validity, returncode, processes)
      PROVE  StopInv'
  BY <1>6, EndKeepsStops DEF Fail
<1>7. ASSUME NEW processes, FailGrading(processes) PROVE StopInv'
  BY <1>7, EndKeepsStops DEF FailGrading
<1>8. ASSUME NEW processes, NEW faults, NEW priced, Succeed(faults, priced, processes)
      PROVE  StopInv'
  <2>1. PICK f, c : Ends([attempt EXCEPT !.validity = "valid", !.returncode = "zero",
                                         !.faults = f, !.cost = c], processes)
    BY <1>8 DEF Succeed
  <2> QED  BY <1>8, <2>1, EndKeepsStops DEF Succeed
<1>9. ASSUME NEW processes, Interrupt(processes) PROVE StopInv'
  <2>1. PICK sweep \in StopAttempt(processes, {}) :
          live' = sweep.live /\ attempt' = [attempt EXCEPT !.stopped = sweep.stopped]
    BY <1>9 DEF Interrupt
  <2>2. sweep.stopped = TRUE => sweep.live \cap NamesTheView = {}
    BY <2>1, SweepStopsTheNamed
  <2>3. driver'.at = "gone"  BY <1>9 DEF Interrupt, Gone
  <2> QED  BY <2>1, <2>2, <2>3 DEF StoppedMeansQuiet
<1> QED  BY <1>2, <1>3, <1>4, <1>5, <1>6, <1>7, <1>8, <1>9 DEF Attempts

LEMMA StopStep == SeriesInv /\ StopInv /\ [Next]_vars => StopInv'
<1> SUFFICES ASSUME SeriesInv, StopInv, [Next]_vars PROVE StopInv'  OBVIOUS
<1>1. "at" \in DOMAIN driver  BY DEF SeriesInv, SeriesTypes
<1>2. CASE Attempts  BY <1>2, AttemptKeepsStops
<1>3. CASE OfferSlot
  BY <1>3, SeriesAssumption DEF OfferSlot, Blank, StopInv, StoppedMeansQuiet
<1>4. CASE UNCHANGED <<attempt, live>> /\ (UNCHANGED driver \/ driver'.at \notin
             {"setup", "preflight", "launch", "running"})
  BY <1>4 DEF StopInv, StoppedMeansQuiet
<1>5. CASE Start \/ Resume \/ Complete \/ RefuseSlot \/ RecordOutcome \/ Kill
  <2>1. UNCHANGED <<attempt, live>>
    BY <1>5 DEF Start, Resume, Complete, RefuseSlot, RecordOutcome, Kill
  <2>2. driver'.at \in {"gone", "resume", "next", "retry"}
    BY <1>1, <1>5 DEF Start, Resume, Complete, RefuseSlot, RecordOutcome, Kill, Stop, Gone
  <2> QED  BY <1>4, <2>1, <2>2
<1>6. CASE SkipSlot  BY <1>1, <1>4, <1>6 DEF SkipSlot
<1> QED
  BY <1>2, <1>3, <1>4, <1>5, <1>6 DEF Next, ChangeExecutor, LeaveCopy, Clear, vars

\* What an attempt says of a stop is true: after one that reports its processes stopped, no process
\* that names the view runs, whatever the attempt had started and whether its pids were recorded,
\* until the next attempt has its own record.
THEOREM StoppedAttemptsAreQuiet == Spec => []StoppedMeansQuiet
<1>1. StopInv => StoppedMeansQuiet  BY DEF StopInv
<1> QED  BY <1>1, SeriesInvariant, StopStart, StopStep, PTL DEF Spec

-----------------------------------------------------------------------------
(* What a difference is attributed to.  A run that recorded itself recorded what it used or left  *)
(* a field out; and what a result says of a field, unless it is mixed or unknown, every such run  *)
(* of it recorded.                                                                                *)

Observed == [OBSERVABLE -> {Unknown, 0, 1, 2}]
Trial == [case : CaseIdentities, transport : {"none", "stand-in"}, observed : {Unknown} \cup Observed]

ComparisonInv ==
  \A s \in Sides :
    /\ DOMAIN results[s] = {"configuration", "trials"}
    /\ results[s].configuration \in [Fields -> {1, 2}]
    /\ results[s].trials \in Seq(Trial) /\ used[s] \in Seq([OBSERVABLE -> {0, 1, 2}])
    /\ Len(used[s]) = Len(results[s].trials)
    /\ \A i \in DOMAIN used[s], f \in OBSERVABLE :
         results[s].trials[i].observed # Unknown =>
           results[s].trials[i].observed[f] \in {used[s][i][f], Unknown}

ComparisonShape == DOMAIN results = Sides /\ DOMAIN used = Sides

LEMMA ObservableAreFields == OBSERVABLE \subseteq Fields
<1>1. /\ {"executor"} = QUALIFICATION_GROUPS.executor /\ {"model", "provider"} = QUALIFICATION_GROUPS.worker
      /\ {"coordinator"} = QUALIFICATION_GROUPS.coordinator
      /\ {"executor", "worker", "coordinator"} \subseteq DOMAIN QUALIFICATION_GROUPS
  BY DEF QUALIFICATION_GROUPS
<1> QED  BY <1>1 DEF Fields, OBSERVABLE

LEMMA OneElement ==
  ASSUME NEW S, IsFiniteSet(S), Cardinality(S) = 1, NEW x \in S
  PROVE  (CHOOSE v \in S : TRUE) = x
<1>1. PICK y : S = {y}  BY FS_Singleton
<1> QED  BY <1>1

LEMMA FiniteImage ==
  ASSUME NEW S, IsFiniteSet(S), NEW g, g = [x \in S |-> g[x]]
  PROVE  IsFiniteSet({g[x] : x \in S})
<1> DEFINE T == {g[x] : x \in S}
<1>1. g \in Surjection(S, T)  BY DEF Surjection
<1> HIDE DEF T
<1>2. IsFiniteSet(T)  BY <1>1, FS_Surjection
<1> QED  BY <1>2 DEF T

\* Where a result speaks of a field of its runs, each run that recorded itself used that value.
LEMMA RunsUsedWhatIsSaid ==
  ASSUME ComparisonInv, NEW s \in Sides, NEW f \in OBSERVABLE,
         NEW i \in DOMAIN used[s], results[s].trials[i].observed # Unknown,
         ~Effective(results[s]).conflict, Effective(results[s]).conf[f] # Unknown
  PROVE  used[s][i][f] = Effective(results[s]).conf[f]
<1> DEFINE trials == results[s].trials
           observed == ObservedConfiguration(trials)
           values == {o[f] : o \in RecordedBy(trials)}
<1>1. i \in DOMAIN trials /\ trials \in Seq(Trial)
  <2>1. DOMAIN used[s] = 1 .. Len(used[s]) /\ DOMAIN trials = 1 .. Len(trials)
    BY LenProperties DEF ComparisonInv
  <2> QED  BY <2>1 DEF ComparisonInv
<1>2. trials[i].observed \in RecordedBy(trials)  BY <1>1 DEF RecordedBy
<1>3. DOMAIN observed = OBSERVABLE
  BY <1>2 DEF ObservedConfiguration
<1>4. observed[f] = IF Unknown \in values THEN Unknown
                    ELSE IF Cardinality(values) = 1 THEN CHOOSE v \in values : TRUE ELSE Mixed
  BY <1>2 DEF ObservedConfiguration
<1>5. observed[f] # Mixed
  BY <1>3 DEF Effective
<1>6. Effective(results[s]).conf[f] = observed[f]
  <2>1. f \in Fields  BY ObservableAreFields
  <2> QED  BY <1>3, <1>5, <2>1 DEF Effective
<1>7. trials[i].observed[f] \in values  BY <1>2
<1>8. IsFiniteSet(values)
  <2>1. IsFiniteSet(DOMAIN trials)
    <3>1. DOMAIN trials = 1 .. Len(trials) /\ Len(trials) \in Nat  BY <1>1, LenProperties
    <3> QED  BY <3>1, FS_Interval
  <2> DEFINE told == {j \in DOMAIN trials : trials[j].observed # Unknown}
             g == [j \in told |-> trials[j].observed[f]]
  <2>2. IsFiniteSet(told)  BY <2>1, FS_Subset
  <2>3. values = {g[j] : j \in told}  BY DEF RecordedBy
  <2>4. DOMAIN g = told /\ g = [j \in told |-> g[j]]  OBVIOUS
  <2> HIDE DEF g, told, values
  <2> QED  BY <2>2, <2>3, <2>4, FiniteImage
<1>9. trials[i].observed[f] # Unknown /\ observed[f] = trials[i].observed[f]
  <2>1. Unknown \notin values /\ Cardinality(values) = 1  BY <1>4, <1>5, <1>6
  <2> QED  BY <1>4, <1>7, <1>8, <2>1, OneElement
<1> QED  BY <1>6, <1>9 DEF ComparisonInv

LEMMA ComparisonStart == ComparisonInit => ComparisonInv /\ ComparisonShape
<1> SUFFICES ASSUME ComparisonInit PROVE ComparisonInv /\ ComparisonShape  OBVIOUS
<1>1. PICK differing \in SUBSET Fields :
        results = [s \in Sides |->
            [configuration |-> [f \in Fields |-> IF s = "b" /\ f \in differing THEN 2 ELSE 1],
             trials |-> <<>>]]
  BY DEF ComparisonInit
<1>2. used = [s \in Sides |-> <<>>]  BY DEF ComparisonInit
<1>3. <<>> \in Seq(Trial) /\ <<>> \in Seq([OBSERVABLE -> {0, 1, 2}]) /\ DOMAIN <<>> = {}
  BY EmptySeq
<1>4. ASSUME NEW s \in Sides
      PROVE  /\ DOMAIN results[s] = {"configuration", "trials"}
             /\ results[s].configuration \in [Fields -> {1, 2}]
             /\ results[s].trials = <<>> /\ used[s] = <<>>
  BY <1>1, <1>2
<1> QED  BY <1>1, <1>2, <1>3, <1>4 DEF ComparisonInv, ComparisonShape

\* A run appends what it used and what it recorded of that.
LEMMA RunKeepsInv ==
  ASSUME ComparisonInv, ComparisonShape, RunTrial
  PROVE  ComparisonInv' /\ ComparisonShape'
<1>1. PICK s \in Sides, c \in CaseIdentities, transport \in {"none", "stand-in"},
           changed \in {d \in SUBSET {"model", "coordinator"} : Cardinality(d) <= 1},
           recorded \in {"all", "no-coordinator", "nothing"} :
      LET really == ReallyUsed(results[s].configuration, changed, transport)
      IN /\ Len(used[s]) < MaxTrials
         /\ s = "a" => used["b"] = <<>>
         /\ transport = "stand-in" => recorded = "all"
         /\ changed # {} => Deviations < MaxDeviations
         /\ used' = [used EXCEPT ![s] = Append(@, really)]
         /\ results' = [results EXCEPT ![s].trials =
              Append(@, [case |-> c, transport |-> transport, observed |-> RecordedOf(really, recorded)])]
  BY Zenon DEF RunTrial
<1> DEFINE planned == results[s].configuration
           really == ReallyUsed(planned, changed, transport)
           observed == RecordedOf(really, recorded)
<1>2. really \in [OBSERVABLE -> {0, 1, 2}]
  <2>1. \A f \in OBSERVABLE : planned[f] \in {1, 2}
    BY ObservableAreFields DEF ComparisonInv
  <2>2. \A f \in OBSERVABLE : 3 - planned[f] \in {1, 2}  BY <2>1
  <2> QED  BY <2>1, <2>2 DEF ReallyUsed, StandIn
<1>3. /\ used' = [used EXCEPT ![s] = Append(@, really)]
      /\ results' = [results EXCEPT ![s].trials =
           Append(@, [case |-> c, transport |-> transport, observed |-> observed])]
  BY <1>1
<1> HIDE DEF really
<1>4. /\ observed \in {Unknown} \cup Observed
      /\ observed # Unknown => \A f \in OBSERVABLE : observed[f] \in {really[f], Unknown}
  <2>1. \A f \in OBSERVABLE : really[f] \in {Unknown, 0, 1, 2}  BY <1>2
  <2> QED  BY <2>1 DEF RecordedOf, Observed
<1> HIDE DEF observed
<1> DEFINE trial == [case |-> c, transport |-> transport, observed |-> observed]
<1>5. trial \in Trial /\ trial.observed = observed  BY <1>4 DEF Trial
<1> HIDE DEF trial
<1>6. /\ DOMAIN results' = Sides /\ DOMAIN used' = Sides
      /\ \A t \in Sides \ {s} : results'[t] = results[t] /\ used'[t] = used[t]
      /\ used'[s] = Append(used[s], really)
      /\ results'[s] = [results[s] EXCEPT !.trials = Append(@, trial)]
  BY <1>3 DEF ComparisonShape, trial
<1>7. /\ DOMAIN results'[s] = {"configuration", "trials"}
      /\ results'[s].configuration = results[s].configuration
      /\ results'[s].trials = Append(results[s].trials, trial)
  BY <1>6 DEF ComparisonInv
<1>8. /\ results[s].trials \in Seq(Trial) /\ used[s] \in Seq([OBSERVABLE -> {0, 1, 2}])
      /\ Len(used[s]) = Len(results[s].trials) /\ Len(used[s]) \in Nat
  BY LenProperties DEF ComparisonInv
<1>9. /\ results'[s].trials \in Seq(Trial) /\ used'[s] \in Seq([OBSERVABLE -> {0, 1, 2}])
      /\ Len(used'[s]) = Len(results'[s].trials)
      /\ DOMAIN used'[s] = 1 .. (Len(used[s]) + 1) /\ DOMAIN used[s] = 1 .. Len(used[s])
      /\ \A i \in DOMAIN used[s] :
           used'[s][i] = used[s][i] /\ results'[s].trials[i] = results[s].trials[i]
      /\ used'[s][Len(used[s]) + 1] = really /\ results'[s].trials[Len(used[s]) + 1] = trial
  <2>1. /\ results'[s].trials \in Seq(Trial) /\ Len(results'[s].trials) = Len(used[s]) + 1
        /\ \A i \in 1 .. Len(used[s]) : results'[s].trials[i] = results[s].trials[i]
        /\ results'[s].trials[Len(used[s]) + 1] = trial
    BY <1>5, <1>7, <1>8, AppendProperties
  <2>2. /\ used'[s] \in Seq([OBSERVABLE -> {0, 1, 2}]) /\ Len(used'[s]) = Len(used[s]) + 1
        /\ \A i \in 1 .. Len(used[s]) : used'[s][i] = used[s][i]
        /\ used'[s][Len(used[s]) + 1] = really
    BY <1>2, <1>6, <1>8, AppendProperties
  <2> QED  BY <1>8, <2>1, <2>2, LenProperties
<1>10. ASSUME NEW i \in DOMAIN used'[s], NEW f \in OBSERVABLE,
             results'[s].trials[i].observed # Unknown
      PROVE  results'[s].trials[i].observed[f] \in {used'[s][i][f], Unknown}
  <2>1. CASE i \in DOMAIN used[s]
    <3>1. /\ results'[s].trials[i].observed = results[s].trials[i].observed
          /\ used'[s][i] = used[s][i]
      BY <1>9, <2>1
    <3> QED  BY <1>10, <2>1, <3>1 DEF ComparisonInv
  <2>2. CASE i = Len(used[s]) + 1
    <3>1. results'[s].trials[i] = trial /\ used'[s][i] = really  BY <1>9, <2>2
    <3>2. results'[s].trials[i].observed = observed  BY <1>5, <3>1
    <3> QED  BY <1>4, <1>10, <3>1, <3>2
  <2> QED  BY <1>8, <1>9, <1>10, <2>1, <2>2
<1>11. ComparisonShape'  BY <1>6 DEF ComparisonShape
<1>12. ASSUME NEW t \in Sides \ {s}
       PROVE  /\ DOMAIN results'[t] = {"configuration", "trials"}
              /\ results'[t].configuration \in [Fields -> {1, 2}]
              /\ results'[t].trials \in Seq(Trial) /\ used'[t] \in Seq([OBSERVABLE -> {0, 1, 2}])
              /\ Len(used'[t]) = Len(results'[t].trials)
              /\ \A i \in DOMAIN used'[t], f \in OBSERVABLE :
                   results'[t].trials[i].observed # Unknown =>
                     results'[t].trials[i].observed[f] \in {used'[t][i][f], Unknown}
  BY <1>6 DEF ComparisonInv
<1>13. results'[s].configuration \in [Fields -> {1, 2}]  BY <1>7 DEF ComparisonInv
<1>14. /\ Len(used'[s]) = Len(results'[s].trials) /\ DOMAIN results'[s] = {"configuration", "trials"}
       /\ results'[s].trials \in Seq(Trial) /\ used'[s] \in Seq([OBSERVABLE -> {0, 1, 2}])
       /\ \A i \in DOMAIN used'[s], f \in OBSERVABLE :
            results'[s].trials[i].observed # Unknown =>
              results'[s].trials[i].observed[f] \in {used'[s][i][f], Unknown}
  BY <1>7, <1>9, <1>10
<1>15. ComparisonInv'  BY <1>12, <1>13, <1>14 DEF ComparisonInv
<1> QED  BY <1>11, <1>15

\* The invariant behind attribution: what a trial recorded of a field is what it used, or nothing,
\* and the two results keep the shape in which they are compared.
THEOREM ComparisonInvariant == ComparisonSpec => [](ComparisonInv /\ ComparisonShape)
<1>1. ComparisonInv /\ ComparisonShape /\ [ComparisonNext]_comparisonVars
        => (ComparisonInv /\ ComparisonShape)'
  <2>1. CASE UNCHANGED comparisonVars
    BY <2>1 DEF comparisonVars, ComparisonInv, ComparisonShape
  <2> QED  BY <2>1, RunKeepsInv DEF ComparisonNext
<1> QED  BY <1>1, ComparisonStart, PTL DEF ComparisonSpec

\* Whatever the two plans were and whatever each run used and recorded, a comparison that
\* attributes a difference to one field has it right of every run that recorded itself: the two
\* sides differ in that field, and they and the runs of either side agree on every other.
THEOREM AttributionIsRight == ComparisonSpec => []AttributableIsTrue
<1>1. ASSUME ComparisonInv PROVE AttributableIsTrue
  <2> DEFINE a == Effective(results["a"])
             b == Effective(results["b"])
             found == CompareQualification
  <2> SUFFICES ASSUME found.attributable_to_one_field,
                      NEW f \in OBSERVABLE, NEW s \in Sides, NEW t \in Sides,
                      NEW i \in DOMAIN used[s], results[s].trials[i].observed # Unknown,
                      NEW j \in DOMAIN used[t], results[t].trials[j].observed # Unknown
               PROVE  used[s][i][f] = used[t][j][f] <=> (s = t \/ f \notin found.bundle)
    BY DEF AttributableIsTrue
  <2>1. /\ ~a.conflict /\ ~b.conflict
        /\ \A g \in Fields : a.conf[g] # Unknown /\ b.conf[g] # Unknown
        /\ found.bundle = {g \in Fields : a.conf[g] # b.conf[g]}
    BY DEF CompareQualification
  <2>2. f \in Fields  BY ObservableAreFields
  <2>3. \A u \in Sides : ~Effective(results[u]).conflict /\ Effective(results[u]).conf[f] # Unknown
    BY <2>1, <2>2 DEF Sides
  <2>4. /\ used[s][i][f] = Effective(results[s]).conf[f]
        /\ used[t][j][f] = Effective(results[t]).conf[f]
    BY <1>1, <2>3, RunsUsedWhatIsSaid
  <2>5. s # t => (a.conf[f] = b.conf[f]
                    <=> Effective(results[s]).conf[f] = Effective(results[t]).conf[f])
    BY DEF Sides
  <2> QED  BY <2>1, <2>2, <2>4, <2>5
<1> QED  BY <1>1, ComparisonInvariant, PTL

-----------------------------------------------------------------------------
(* The slice and its package.  Once finalize has run, the coordinator does nothing more; and if   *)
(* every attempt the package names had ended and every slot was classified, nobody else does, so  *)
(* that the digests are those of the run as it still is, whatever becomes of the package's files. *)

SliceRun ==
  [condition : {"control", "valid"}, consistency : BOOLEAN, contract : {"none", "placed", "replaced"},
   refused : BOOLEAN, refusal : {"none", "stated"}, bound : BOOLEAN, admission : BOOLEAN,
   accepted : BOOLEAN, slots : Seq(SliceSlot), tree : Seq(SliceAttempt),
   artifact : {"absent", "sound", "faulty"}, requirements : {"accepted", "weakened"},
   check : ArtifactCheck]

SliceTypes ==
  /\ slice \in SliceRun /\ trace \subseteq CallRow
  /\ finalized \in BOOLEAN /\ safe \in BOOLEAN /\ source \in BOOLEAN

\* A slot's directory is an attempt of the tree, and an attempt's session its own.
Anchored(slots, tree) ==
  /\ \A i \in DOMAIN slots : slots[i].dir \in {0} \cup DOMAIN tree
  /\ \A i \in DOMAIN tree : tree[i].session \in {0, i}

RunInv == Anchored(slice.slots, slice.tree) /\ \A r \in trace : r.session # 0

\* Nothing the package names still ran when it was exported, or could still start.
Quiet(p) ==
  /\ \A i \in p.own : p.digest.tree[i].ended
  /\ \A i \in DOMAIN p.digest.ledger : p.digest.ledger[i].classification # "unresolved"

PackageInv(p) ==
  /\ p \in Package /\ finalized
  /\ {"state", "ledger", "tree"} \subseteq p.listed /\ p.present \subseteq p.listed
  /\ "events" \in p.listed \cup p.omitted
  /\ p.own = {p.digest.ledger[i].dir : i \in DOMAIN p.digest.ledger} \ {0}
  /\ Anchored(p.digest.ledger, p.digest.tree) /\ \A r \in p.digest.events : r.session # 0
  /\ \A name \in {"state", "contract", "refusal"} : p.digest[name] = Contents(slice, trace)[name]
  /\ Quiet(p) => p.digest = Contents(slice, trace)
  /\ source => p.content = p.digest /\ p.present = p.listed

SliceInv ==
  /\ SliceTypes /\ RunInv
  /\ package # NoPackage => PackageInv(package)
  /\ safe \/ ~source => package # NoPackage /\ finalized

LEMMA SliceStart == SliceInit => SliceInv
<1> SUFFICES ASSUME SliceInit PROVE SliceInv  OBVIOUS
<1>1. PICK condition \in {"control", "valid"} :
       slice = [condition |-> condition, consistency |-> condition = "valid", contract |-> "none",
                refused |-> FALSE, refusal |-> "none", bound |-> FALSE, admission |-> FALSE, accepted |-> FALSE,
                slots |-> <<>>, tree |-> <<[ended |-> TRUE, session |-> 0, role |-> "spec-author"]>>,
                artifact |-> "absent", requirements |-> "accepted", check |-> [result |-> "none", bytes |-> "absent"]]
  BY DEF SliceInit
<1> DEFINE seeded == [ended |-> TRUE, session |-> 0, role |-> "spec-author"]
<1>2. /\ <<>> \in Seq(SliceSlot) /\ DOMAIN <<>> = {}
      /\ <<seeded>> \in Seq(SliceAttempt) /\ DOMAIN <<seeded>> = {1} /\ <<seeded>>[1].session = 0
  <2>1. seeded \in SliceAttempt  BY DEF SliceAttempt, Roles
  <2>2. <<>> \in Seq(SliceSlot) /\ DOMAIN <<>> = {}  BY EmptySeq
  <2> QED  BY <2>1, <2>2
<1> HIDE DEF seeded
<1>3. slice.slots = <<>> /\ slice.tree = <<seeded>>  BY <1>1 DEF seeded
<1>4. slice \in SliceRun
  <2>1. [result |-> "none", bytes |-> "absent"] \in ArtifactCheck  BY DEF ArtifactCheck
  <2> QED  BY <1>1, <1>2, <2>1 DEF SliceRun, seeded
<1>5. RunInv  BY <1>2, <1>3 DEF RunInv, Anchored, SliceInit
<1> QED  BY <1>4, <1>5 DEF SliceInit, SliceInv, SliceTypes

\* Steps that leave the slots and the tree as they are.
LEMMA FieldSteps ==
  ASSUME SliceTypes,
         \/ PlaceContract \/ AdmitContract \/ RecordRefusal \/ CheckArtifact \/ Accept
         \/ \E i : WeakenRequirements(i)
         \/ \E i : \E bytes \in {"sound", "faulty"} : Produce(i, bytes)
  PROVE  /\ slice' \in SliceRun /\ slice'.slots = slice.slots /\ slice'.tree = slice.tree
         /\ RunStep
<1> USE DEF SliceTypes, SliceRun
<1>1. CASE PlaceContract  BY <1>1 DEF PlaceContract
<1>2. CASE AdmitContract  BY <1>2 DEF AdmitContract
<1>3. CASE RecordRefusal  BY <1>3 DEF RecordRefusal
<1>4. CASE CheckArtifact
  <2>1. PICK r \in {"pass", "fail"} :
          slice' = [slice EXCEPT !.check = [bytes |-> slice.artifact, result |-> r]]
    BY <1>4 DEF CheckArtifact
  <2>2. [bytes |-> slice.artifact, result |-> r] \in ArtifactCheck  BY DEF ArtifactCheck
  <2> QED  BY <1>4, <2>1, <2>2 DEF CheckArtifact
<1>5. CASE Accept  BY <1>5 DEF Accept
<1>6. CASE \E i : WeakenRequirements(i)  BY <1>6 DEF WeakenRequirements
<1>7. CASE \E i : \E bytes \in {"sound", "faulty"} : Produce(i, bytes)
  BY <1>7 DEF Produce
<1> QED  BY <1>1, <1>2, <1>3, <1>4, <1>5, <1>6, <1>7

LEMMA ReserveSlotSteps ==
  ASSUME SliceTypes, RunInv, ReserveSlot
  PROVE  slice' \in SliceRun /\ slice'.tree = slice.tree /\ Anchored(slice'.slots, slice'.tree)
<1> DEFINE slot == [dir |-> 0, classification |-> "unresolved"]
<1>1. slot \in SliceSlot /\ slot.dir = 0  BY DEF SliceSlot
<1> HIDE DEF slot
<1>2. slice' = [slice EXCEPT !.slots = Append(@, slot)]  BY DEF ReserveSlot, slot
<1>3. slice.slots \in Seq(SliceSlot)  BY DEF SliceTypes, SliceRun
<1>4. /\ slice'.slots = Append(slice.slots, slot) /\ slice'.tree = slice.tree
  BY <1>2 DEF SliceTypes, SliceRun
<1>5. /\ slice'.slots \in Seq(SliceSlot) /\ Len(slice'.slots) = Len(slice.slots) + 1
      /\ \A i \in 1 .. Len(slice.slots) : slice'.slots[i] = slice.slots[i]
      /\ slice'.slots[Len(slice.slots) + 1] = slot
  BY <1>1, <1>3, <1>4, AppendProperties
<1>6. slice' \in SliceRun  BY <1>2, <1>4, <1>5 DEF SliceTypes, SliceRun
<1>7. /\ DOMAIN slice'.slots = 1 .. (Len(slice.slots) + 1) /\ DOMAIN slice.slots = 1 .. Len(slice.slots)
      /\ Len(slice.slots) \in Nat
  BY <1>3, <1>5, LenProperties
<1>8. ASSUME NEW i \in DOMAIN slice'.slots PROVE slice'.slots[i].dir \in {0} \cup DOMAIN slice'.tree
  <2>1. CASE i \in DOMAIN slice.slots  BY <1>4, <1>5, <1>7, <2>1 DEF RunInv, Anchored
  <2>2. CASE i = Len(slice.slots) + 1  BY <1>1, <1>5, <2>2
  <2> QED  BY <1>7, <2>1, <2>2
<1>9. \A i \in DOMAIN slice'.tree : slice'.tree[i].session \in {0, i}
  BY <1>4 DEF RunInv, Anchored
<1> QED  BY <1>4, <1>6, <1>8, <1>9 DEF Anchored

LEMMA StartWorkerSteps ==
  ASSUME SliceTypes, RunInv, NEW role \in Roles, StartWorker(role)
  PROVE  slice' \in SliceRun /\ Anchored(slice'.slots, slice'.tree)
<1> DEFINE attempt1 == [ended |-> FALSE, session |-> 0, role |-> role]
           dir == Len(slice.tree) + 1
<1>1. attempt1 \in SliceAttempt /\ attempt1.session = 0  BY DEF SliceAttempt
<1> HIDE DEF attempt1
<1>2. /\ slice.slots \in Seq(SliceSlot) /\ slice.tree \in Seq(SliceAttempt)
      /\ DOMAIN slice.slots = 1 .. Len(slice.slots) /\ Len(slice.slots) \in Nat
      /\ DOMAIN slice.tree = 1 .. Len(slice.tree) /\ Len(slice.tree) \in Nat
  BY LenProperties DEF SliceTypes, SliceRun
<1>3. /\ slice'.tree = Append(slice.tree, attempt1)
      /\ slice'.slots = [i \in DOMAIN slice.slots |->
                           IF i \in Unresolved THEN [slice.slots[i] EXCEPT !.dir = dir] ELSE slice.slots[i]]
      /\ slice' = [slice EXCEPT !.tree = slice'.tree, !.slots = slice'.slots]
  BY DEF StartWorker, SliceTypes, SliceRun, attempt1
<1>4. /\ slice'.tree \in Seq(SliceAttempt) /\ Len(slice'.tree) = dir
      /\ \A i \in 1 .. Len(slice.tree) : slice'.tree[i] = slice.tree[i]
      /\ slice'.tree[dir] = attempt1
  <2>1. PICK tree \in Seq(SliceAttempt) : tree = slice.tree  BY <1>2
  <2>2. /\ Append(tree, attempt1) \in Seq(SliceAttempt) /\ Len(Append(tree, attempt1)) = Len(tree) + 1
        /\ \A i \in 1 .. Len(tree) : Append(tree, attempt1)[i] = tree[i]
        /\ Append(tree, attempt1)[Len(tree) + 1] = attempt1
    BY <1>1, AppendProperties
  <2> QED  BY <1>3, <2>1, <2>2
<1>5. DOMAIN slice'.tree = 1 .. dir  BY <1>4, LenProperties
<1>6. \A i \in DOMAIN slice.slots :
        /\ slice'.slots[i] \in SliceSlot
        /\ slice'.slots[i].dir \in {dir, slice.slots[i].dir}
  <2> SUFFICES ASSUME NEW i \in DOMAIN slice.slots
               PROVE  slice'.slots[i] \in SliceSlot /\ slice'.slots[i].dir \in {dir, slice.slots[i].dir}
    OBVIOUS
  <2>1. slice.slots[i] \in SliceSlot  BY <1>2, ElementOfSeq
  <2>2. slice'.slots[i] \in {slice.slots[i], [slice.slots[i] EXCEPT !.dir = dir]}  BY <1>3
  <2>3. dir \in Nat  BY <1>2
  <2> HIDE DEF dir
  <2>4. CASE slice'.slots[i] = slice.slots[i]  BY <2>1, <2>4
  <2>5. CASE slice'.slots[i] = [slice.slots[i] EXCEPT !.dir = dir]
    <3>1. PICK x : x = slice.slots[i]  OBVIOUS
    <3>2. x \in SliceSlot /\ slice'.slots[i] = [x EXCEPT !.dir = dir]  BY <2>1, <2>5, <3>1
    <3> QED  BY <2>3, <3>1, <3>2 DEF SliceSlot
  <2> QED  BY <2>2, <2>4, <2>5
<1>7. slice'.slots \in Seq(SliceSlot)
  <2>1. slice'.slots = [i \in 1 .. Len(slice.slots) |-> slice'.slots[i]]  BY <1>2, <1>3
  <2>2. PICK slots, n : slots = slice'.slots /\ n = Len(slice.slots)  OBVIOUS
  <2>3. n \in Nat /\ slots = [i \in 1 .. n |-> slots[i]] /\ \A i \in 1 .. n : slots[i] \in SliceSlot
    BY <1>2, <1>6, <2>1, <2>2
  <2>4. slots \in Seq(SliceSlot)  BY <2>3, IsASeq
  <2> QED  BY <2>2, <2>4
<1>8. slice' \in SliceRun  BY <1>3, <1>4, <1>7 DEF SliceTypes, SliceRun
<1>9. ASSUME NEW i \in DOMAIN slice'.slots PROVE slice'.slots[i].dir \in {0} \cup DOMAIN slice'.tree
  <2>1. i \in DOMAIN slice.slots  BY <1>3
  <2>2. slice.slots[i].dir \in {0} \cup DOMAIN slice.tree  BY <2>1 DEF RunInv, Anchored
  <2> QED  BY <1>2, <1>5, <1>6, <2>1, <2>2
<1>10. ASSUME NEW i \in DOMAIN slice'.tree PROVE slice'.tree[i].session \in {0, i}
  <2>1. CASE i \in DOMAIN slice.tree  BY <1>2, <1>4, <2>1 DEF RunInv, Anchored
  <2>2. CASE i = dir  BY <1>1, <1>4, <2>2
  <2> QED  BY <1>2, <1>5, <2>1, <2>2
<1> QED  BY <1>8, <1>9, <1>10 DEF Anchored

LEMMA WorkerEndsSteps ==
  ASSUME SliceTypes, RunInv, NEW i, NEW session \in {0, i}, WorkerEnds(i, session)
  PROVE  slice' \in SliceRun /\ Anchored(slice'.slots, slice'.tree)
<1>1. /\ slice.tree \in Seq(SliceAttempt) /\ slice.slots \in Seq(SliceSlot)
      /\ DOMAIN slice.tree = 1 .. Len(slice.tree)
  BY LenProperties DEF SliceTypes, SliceRun
<1>2. i \in DOMAIN slice.tree
  BY DEF WorkerEnds, Running, Own, RunInv, Anchored
<1>3. PICK x : x = [slice.tree[i] EXCEPT !.ended = TRUE, !.session = session]  OBVIOUS
<1>4. slice.tree[i] \in SliceAttempt  BY <1>1, <1>2, ElementOfSeq
<1>5. session \in Nat  BY <1>1, <1>2
<1>6. x \in SliceAttempt /\ x.session = session  BY <1>3, <1>4, <1>5 DEF SliceAttempt
<1>7. slice'.tree = [slice.tree EXCEPT ![i] = x] /\ slice'.slots = slice.slots
      /\ slice' = [slice EXCEPT !.tree = slice'.tree]
  BY <1>3 DEF WorkerEnds, SliceTypes, SliceRun
<1>8. slice'.tree \in Seq(SliceAttempt)  BY <1>1, <1>2, <1>6, <1>7, ExceptSeq
<1>9. slice' \in SliceRun  BY <1>7, <1>8 DEF SliceTypes, SliceRun
<1>10. DOMAIN slice'.tree = DOMAIN slice.tree
       /\ \A j \in DOMAIN slice.tree : slice'.tree[j] = IF j = i THEN x ELSE slice.tree[j]
  BY <1>7
<1>11. \A j \in DOMAIN slice'.tree : slice'.tree[j].session \in {0, j}
  BY <1>6, <1>10 DEF RunInv, Anchored
<1> QED  BY <1>7, <1>9, <1>10, <1>11 DEF RunInv, Anchored

LEMMA ClassifySlotSteps ==
  ASSUME SliceTypes, RunInv, ClassifySlot
  PROVE  slice' \in SliceRun /\ Anchored(slice'.slots, slice'.tree)
<1>1. PICK i \in Unresolved, class \in {"pre-executor-failure", "worker"} :
        slice' = [slice EXCEPT !.slots[i].classification = class]
  BY DEF ClassifySlot
<1>2. slice.slots \in Seq(SliceSlot) /\ i \in 1 .. Len(slice.slots)
      /\ DOMAIN slice.slots = 1 .. Len(slice.slots)
  BY LenProperties DEF SliceTypes, SliceRun, Unresolved
<1>3. PICK x : x = [slice.slots[i] EXCEPT !.classification = class]  OBVIOUS
<1>4. slice.slots[i] \in SliceSlot  BY <1>2, ElementOfSeq
<1>5. x \in SliceSlot /\ x.dir = slice.slots[i].dir  BY <1>3, <1>4 DEF SliceSlot
<1>6. slice'.slots = [slice.slots EXCEPT ![i] = x] /\ slice'.tree = slice.tree
      /\ slice' = [slice EXCEPT !.slots = slice'.slots]
  BY <1>1, <1>3 DEF SliceTypes, SliceRun
<1>7. slice'.slots \in Seq(SliceSlot)  BY <1>2, <1>5, <1>6, ExceptSeq
<1>8. slice' \in SliceRun  BY <1>6, <1>7 DEF SliceTypes, SliceRun
<1>9. DOMAIN slice'.slots = DOMAIN slice.slots
      /\ \A j \in DOMAIN slice.slots : slice'.slots[j].dir = slice.slots[j].dir
  BY <1>5, <1>6
<1> QED  BY <1>6, <1>8, <1>9 DEF RunInv, Anchored

LEMMA ContentsTyped ==
  ASSUME SliceTypes
  PROVE  /\ Contents(slice, trace) \in FileContents
         /\ Contents(slice, trace).ledger = slice.slots /\ Contents(slice, trace).tree = slice.tree
         /\ Contents(slice, trace).events = trace
BY DEF Contents, FileContents, SliceTypes, SliceRun

\* A package as it is exported is one of the run as it is.
LEMMA FreshPackage ==
  ASSUME SliceTypes, RunInv, NEW p \in Package, package' = p, finalized' = TRUE,
         UNCHANGED <<slice, trace, source>>,
         p.digest = Contents(slice, trace), p.content = p.digest, p.own = Own(slice),
         p.present = p.listed, {"state", "ledger", "tree"} \subseteq p.listed,
         "events" \in p.listed \cup p.omitted
  PROVE  PackageInv(package)'
<1>1. /\ p.digest.ledger = slice.slots /\ p.digest.tree = slice.tree /\ p.digest.events = trace
  BY ContentsTyped
<1>2. PackageInv(p)  <=>
        /\ finalized
        /\ \A name \in {"state", "contract", "refusal"} : p.digest[name] = Contents(slice, trace)[name]
        /\ Quiet(p) => p.digest = Contents(slice, trace)
        /\ p.own = {p.digest.ledger[i].dir : i \in DOMAIN p.digest.ledger} \ {0}
        /\ Anchored(p.digest.ledger, p.digest.tree) /\ \A r \in p.digest.events : r.session # 0
  BY DEF PackageInv
<1>3. /\ p.own = {p.digest.ledger[i].dir : i \in DOMAIN p.digest.ledger} \ {0}
      /\ Anchored(p.digest.ledger, p.digest.tree) /\ \A r \in p.digest.events : r.session # 0
  BY <1>1 DEF Own, RunInv
<1>4. Contents(slice, trace)' = Contents(slice, trace)  BY DEF Contents
<1> QED  BY <1>3, <1>4 DEF PackageInv, Quiet

LEMMA ExportIsPackage ==
  ASSUME SliceTypes, RunInv, NEW readable \in BOOLEAN, NEW p, p = Export(slice, trace, readable)
  PROVE  /\ p \in Package
         /\ p.digest = Contents(slice, trace) /\ p.content = p.digest /\ p.own = Own(slice)
         /\ p.present = p.listed /\ {"state", "ledger", "tree"} \subseteq p.listed
         /\ "events" \in p.listed \cup p.omitted
<1>1. Contents(slice, trace) \in FileContents  BY ContentsTyped
<1>2. Collected(slice, readable) \subseteq FileNames
      /\ {"state", "ledger", "tree"} \subseteq Collected(slice, readable)
      /\ (readable => "events" \in Collected(slice, readable))
  BY DEF Collected, FileNames
<1>3. /\ slice.slots \in Seq(SliceSlot) /\ slice.tree \in Seq(SliceAttempt) /\ Len(slice.tree) \in Nat
      /\ slice.condition \in {"control", "valid"} /\ slice.check \in ArtifactCheck
  BY LenProperties DEF SliceTypes, SliceRun
<1>4. Own(slice) \subseteq Nat
  <2>1. \A i \in DOMAIN slice.slots : slice.slots[i] \in SliceSlot  BY <1>3, ElementOfSeq
  <2> QED  BY <2>1 DEF Own, SliceSlot
<1>5. trace \subseteq CallRow /\ (readable /\ Attribution(trace, slice.tree, Own(slice))) \in BOOLEAN
  BY DEF SliceTypes, Attribution
<1>6. /\ p.digest = Contents(slice, trace) /\ p.content = p.digest /\ p.own = Own(slice)
      /\ p.listed = Collected(slice, readable) /\ p.present = p.listed
      /\ p.omitted = IF readable THEN {} ELSE {"events"}
  BY DEF Export
<1>7. p \in Package
  <2>1. (IF readable THEN trace ELSE {}) \in SUBSET CallRow  BY <1>5
  <2>2. (IF readable THEN {} ELSE {"events"}) \in SUBSET FileNames  BY DEF FileNames
  <2> QED  BY <1>1, <1>2, <1>3, <1>4, <1>5, <2>1, <2>2 DEF Export, Package
<1> QED  BY <1>2, <1>6, <1>7

LEMMA FinalizeKeepsInv ==
  ASSUME SliceInv, Finalize
  PROVE  SliceInv'
<1> USE DEF SliceInv
<1>1. UNCHANGED <<slice, trace, source>> /\ finalized' = TRUE /\ source  BY DEF Finalize
<1>2. SliceTypes' /\ RunInv'
  BY <1>1 DEF SliceTypes, RunInv, Finalize, Preserve
<1>3. ASSUME NEW readable \in BOOLEAN, package' = Export(slice, trace, readable)
      PROVE  package' # NoPackage /\ PackageInv(package)'
  <2>1. PICK p : p = Export(slice, trace, readable)  OBVIOUS
  <2>2. /\ p \in Package /\ package' = p
        /\ p.digest = Contents(slice, trace) /\ p.content = p.digest /\ p.own = Own(slice)
        /\ p.present = p.listed /\ {"state", "ledger", "tree"} \subseteq p.listed
        /\ "events" \in p.listed \cup p.omitted
    BY <1>3, <2>1, ExportIsPackage
  <2> QED  BY <1>1, <2>2, FreshPackage, SliceAssumption
<1>4. ASSUME UNCHANGED package, package # NoPackage PROVE PackageInv(package)'
  <2>1. Contents(slice, trace)' = Contents(slice, trace)  BY <1>1 DEF Contents
  <2> QED  BY <1>1, <1>4, <2>1 DEF PackageInv, Quiet
<1> QED  BY <1>1, <1>2, <1>3, <1>4 DEF Finalize, Preserve

LEMMA AdaptKeepsInv ==
  ASSUME SliceInv, AdaptHandoff1
  PROVE  SliceInv'
<1> USE DEF SliceInv
<1>1. UNCHANGED <<slice, trace, source, finalized, safe>> /\ finalized = TRUE /\ source /\ ~safe
  BY DEF AdaptHandoff1, SliceTypes
<1>2. SliceTypes' /\ RunInv'  BY <1>1 DEF SliceTypes, RunInv
<1>3. PICK e : e = Export(slice, trace, FALSE)  OBVIOUS
<1>4. /\ e \in Package
      /\ e.digest = Contents(slice, trace) /\ e.content = e.digest /\ e.own = Own(slice)
      /\ e.present = e.listed /\ {"state", "ledger", "tree"} \subseteq e.listed
  BY <1>3, ExportIsPackage
<1>5. PICK p : p = [e EXCEPT !.usage = trace, !.omitted = {"events", "requirements"},
                      !.listed = @ \ {"requirements", "refusal"}, !.present = @ \ {"requirements", "refusal"}]
  OBVIOUS
<1>6. package' = p  BY <1>3, <1>5 DEF AdaptHandoff1
<1>7. /\ p \in Package
      /\ p.digest = Contents(slice, trace) /\ p.content = p.digest /\ p.own = Own(slice)
      /\ p.present = p.listed /\ {"state", "ledger", "tree"} \subseteq p.listed
      /\ "events" \in p.omitted
  BY <1>4, <1>5 DEF Package, SliceTypes, FileNames
<1>8. PackageInv(package)'  BY <1>1, <1>6, <1>7, FreshPackage
<1> QED  BY <1>1, <1>2, <1>8


\* An unfinished attempt or an unclassified slot shows in what the package names.
LEMMA QuietMeansStill ==
  ASSUME SliceInv, package # NoPackage, Quiet(package)
  PROVE  Running(slice) = {} /\ Unresolved = {}
<1>1. package.digest.ledger = slice.slots /\ package.digest.tree = slice.tree
  BY ContentsTyped DEF SliceInv, PackageInv
<1>2. package.own = Own(slice)  BY <1>1 DEF SliceInv, PackageInv, Own
<1> QED  BY <1>1, <1>2 DEF Quiet, Running, Unresolved

\* A step of the run keeps what is said of a package that names it.
LEMMA RunStepKeepsInv ==
  ASSUME SliceInv, UNCHANGED <<finalized, safe, source, package>>, SliceTypes', RunInv',
         package # NoPackage => 
           /\ \A name \in {"state", "contract", "refusal"} : Contents(slice', trace')[name] = Contents(slice, trace)[name]
           /\ Quiet(package) => Contents(slice', trace') = Contents(slice, trace)
  PROVE  SliceInv'
<1>1. Contents(slice, trace)' = Contents(slice', trace')  BY DEF Contents
<1>2. PICK p, now, before : p = package /\ now = Contents(slice', trace') /\ before = Contents(slice, trace)
  OBVIOUS
<1>3. Quiet(package)' <=> Quiet(package)  BY DEF Quiet
<1>4. ASSUME package # NoPackage PROVE PackageInv(package)'
  <2>1. PackageInv(package)  BY <1>4 DEF SliceInv
  <2>2. \A name \in {"state", "contract", "refusal"} : package.digest[name] = now[name]
    BY <1>2, <1>4, <2>1 DEF PackageInv
  <2>3. Quiet(package) => package.digest = now  BY <1>2, <1>4, <2>1 DEF PackageInv
  <2> QED  BY <1>1, <1>2, <1>3, <2>1, <2>2, <2>3 DEF PackageInv
<1> QED  BY <1>4 DEF SliceInv

\* What a worker and its classification may touch is none of what the gate is about.
LEMMA WorkersLeaveTheBinding ==
  ASSUME SliceTypes,
         \/ \E role \in Roles : StartWorker(role)
         \/ \E i : Worker(i)
         \/ ClassifySlot
  PROVE  /\ \A name \in {"state", "contract", "refusal"} : Contents(slice', trace')[name] = Contents(slice, trace)[name]
         /\ UNCHANGED <<finalized, safe, source, package>>
<1>1. /\ \A f \in {"bound", "admission", "accepted", "contract", "refusal"} : slice'[f] = slice[f]
      /\ UNCHANGED <<finalized, safe, source, package>>
  <2> USE DEF SliceTypes, SliceRun, RunStep
  <2>1. CASE \E role \in Roles : StartWorker(role)  BY <2>1 DEF StartWorker
  <2>2. CASE ClassifySlot  BY <2>2 DEF ClassifySlot
  <2>3. CASE \E i : Worker(i)
    <3>1. PICK i : Worker(i)  BY <2>3
    <3>2. CASE CallStarts(i)  BY <3>2 DEF CallStarts
    <3>3. CASE CallFinishes(i)  BY <3>3 DEF CallFinishes
    <3>4. CASE WeakenRequirements(i)  BY <3>4 DEF WeakenRequirements
    <3>5. CASE \E bytes \in {"sound", "faulty"} : Produce(i, bytes)  BY <3>5 DEF Produce
    <3>6. CASE \E session \in {0, i} : WorkerEnds(i, session)  BY <3>6 DEF WorkerEnds
    <3> QED  BY <3>1, <3>2, <3>3, <3>4, <3>5, <3>6 DEF Worker
  <2> QED  BY <2>1, <2>2, <2>3
<1> QED  BY <1>1 DEF Contents

LEMMA WorkerKeepsTypes ==
  ASSUME SliceTypes, RunInv, NEW i, Worker(i)
  PROVE  SliceTypes' /\ RunInv' /\ i \in Running(slice)
<1>1. i \in Running(slice) /\ UNCHANGED <<finalized, safe, source>>
  BY DEF Worker, CallStarts, CallFinishes, WeakenRequirements, Produce, WorkerEnds, RunStep
<1>2. i \in DOMAIN slice.tree /\ i # 0 /\ i \in Nat
  <2>1. i \in DOMAIN slice.tree /\ i # 0  BY <1>1 DEF Running, Own, RunInv, Anchored
  <2> QED  BY <2>1, LenProperties DEF SliceTypes, SliceRun
<1>3. CASE CallStarts(i) \/ CallFinishes(i)
  <2>1. PICK row \in CallRow : row.session = i /\ trace' = trace \cup {row} /\ slice' = slice
    <3>1. CASE CallStarts(i)  BY <1>2, <3>1 DEF CallStarts, CallRow
    <3>2. CASE CallFinishes(i)  BY <1>2, <3>2 DEF CallFinishes, CallRow
    <3> QED  BY <1>3, <3>1, <3>2
  <2> QED  BY <1>1, <1>2, <2>1 DEF SliceTypes, RunInv
<1>4. CASE WeakenRequirements(i) \/ \E bytes \in {"sound", "faulty"} : Produce(i, bytes)
  <2>1. slice' \in SliceRun /\ slice'.slots = slice.slots /\ slice'.tree = slice.tree /\ RunStep
    BY <1>4, FieldSteps
  <2> QED  BY <1>1, <2>1 DEF SliceTypes, RunInv, RunStep
<1>5. CASE \E session \in {0, i} : WorkerEnds(i, session)
  <2>1. PICK session \in {0, i} : WorkerEnds(i, session)  BY <1>5
  <2>2. slice' \in SliceRun /\ Anchored(slice'.slots, slice'.tree)  BY <2>1, WorkerEndsSteps
  <2> QED  BY <1>1, <2>1, <2>2 DEF SliceTypes, RunInv, RunStep, WorkerEnds
<1> QED  BY <1>1, <1>3, <1>4, <1>5 DEF Worker


LEMMA WorkerStepKeepsInv ==
  ASSUME SliceInv,
         \/ \E role \in Roles : StartWorker(role)
         \/ \E i : Worker(i)
         \/ ClassifySlot
  PROVE  SliceInv'
<1>1. SliceTypes /\ RunInv  BY DEF SliceInv
<1>2. /\ \A name \in {"state", "contract", "refusal"} : Contents(slice', trace')[name] = Contents(slice, trace)[name]
      /\ UNCHANGED <<finalized, safe, source, package>>
  BY <1>1, WorkersLeaveTheBinding
<1>3. CASE \E role \in Roles : StartWorker(role)
  <2>1. PICK role \in Roles : StartWorker(role)  BY <1>3
  <2>2. slice' \in SliceRun /\ Anchored(slice'.slots, slice'.tree)  BY <1>1, <2>1, StartWorkerSteps
  <2>3. SliceTypes' /\ RunInv'
    BY <1>1, <2>1, <2>2 DEF StartWorker, RunStep, SliceTypes, RunInv
  <2>4. Unresolved # {}  BY <2>1 DEF StartWorker
  <2>5. package # NoPackage => ~Quiet(package)  BY <2>4, QuietMeansStill
  <2> QED  BY <1>2, <2>3, <2>5, RunStepKeepsInv
<1>4. CASE \E i : Worker(i)
  <2>1. PICK i : Worker(i)  BY <1>4
  <2>2. SliceTypes' /\ RunInv' /\ i \in Running(slice)  BY <1>1, <2>1, WorkerKeepsTypes
  <2>3. package # NoPackage => ~Quiet(package)  BY <2>2, QuietMeansStill
  <2> QED  BY <1>2, <2>2, <2>3, RunStepKeepsInv
<1>5. CASE ClassifySlot
  <2>1. slice' \in SliceRun /\ Anchored(slice'.slots, slice'.tree)  BY <1>1, <1>5, ClassifySlotSteps
  <2>2. SliceTypes' /\ RunInv'
    BY <1>1, <1>5, <2>1 DEF ClassifySlot, RunStep, SliceTypes, RunInv
  <2>3. Unresolved # {}  BY <1>5 DEF ClassifySlot
  <2>4. package # NoPackage => ~Quiet(package)  BY <2>3, QuietMeansStill
  <2> QED  BY <1>2, <2>2, <2>4, RunStepKeepsInv
<1> QED  BY <1>3, <1>4, <1>5

\* The coordinator only acts before there is a package.
LEMMA CoordinatorKeepsInv ==
  ASSUME SliceInv,
         \/ PlaceContract \/ AdmitContract \/ RecordRefusal \/ CheckArtifact \/ Accept
         \/ ReserveSlot
  PROVE  SliceInv'
<1>1. SliceTypes /\ RunInv  BY DEF SliceInv
<1>2. RunStep /\ Coordinates
  BY DEF PlaceContract, AdmitContract, RecordRefusal, CheckArtifact, Accept, ReserveSlot
<1>3. package = NoPackage  BY <1>2 DEF Coordinates, SliceInv, PackageInv
<1>4. slice' \in SliceRun /\ Anchored(slice'.slots, slice'.tree)
  <2>1. CASE ReserveSlot  BY <1>1, <2>1, ReserveSlotSteps
  <2>2. CASE PlaceContract \/ AdmitContract \/ RecordRefusal \/ CheckArtifact \/ Accept
    <3>1. slice' \in SliceRun /\ slice'.slots = slice.slots /\ slice'.tree = slice.tree
      BY <1>1, <2>2, FieldSteps
    <3> QED  BY <1>1, <3>1 DEF RunInv
  <2> QED  BY <2>1, <2>2
<1>5. SliceTypes' /\ RunInv'  BY <1>1, <1>2, <1>4 DEF SliceTypes, RunInv, RunStep
<1> QED  BY <1>2, <1>3, <1>5 DEF RunStep, SliceInv

LEMMA TamperedIsPackage ==
  ASSUME NEW p \in Package, NEW name, package = p, Tamper(name)
  PROVE  /\ package' \in Package /\ package'.present \subseteq p.present
         /\ \A f \in DOMAIN p \ {"present", "content"} : package'[f] = p[f]
         /\ DOMAIN package' = DOMAIN p
<1>1. p.content \in FileContents /\ p.present \subseteq FileNames  BY DEF Package
<1>2. CASE package' = [p EXCEPT !.present = @ \ {name}]  BY <1>1, <1>2 DEF Package
<1>3. CASE \E c \in FileContents : package' = [p EXCEPT !.content = c]  BY <1>1, <1>3 DEF Package
<1>4. CASE package' = [p EXCEPT !.content.state = [bound |-> TRUE, admission |-> TRUE, accepted |-> TRUE]]
  <2>1. [p.content EXCEPT !.state = [bound |-> TRUE, admission |-> TRUE, accepted |-> TRUE]] \in FileContents
    BY <1>1 DEF FileContents
  <2> QED  BY <1>3, <1>4, <2>1
<1>5. CASE package' = [p EXCEPT !.content.tree = Forged(@)]
  <2>1. PICK tree \in Seq(SliceAttempt) : tree = p.content.tree  BY <1>1 DEF FileContents
  <2>2. PICK forged : forged = [i \in DOMAIN tree |-> [tree[i] EXCEPT !.ended = TRUE, !.session = i]]
    OBVIOUS
  <2>3. \A i \in 1 .. Len(tree) : [tree[i] EXCEPT !.ended = TRUE, !.session = i] \in SliceAttempt
    <3> TAKE i \in 1 .. Len(tree)
    <3>1. tree[i] \in SliceAttempt /\ i \in Nat  BY <2>1, ElementOfSeq, LenProperties
    <3> QED  BY <3>1 DEF SliceAttempt
  <2>4. forged \in Seq(SliceAttempt)
    <3>1. DOMAIN tree = 1 .. Len(tree) /\ Len(tree) \in Nat  BY LenProperties
    <3>2. \A i \in 1 .. Len(tree) : forged[i] \in SliceAttempt  BY <2>2, <2>3, <3>1
    <3>3. forged = [i \in 1 .. Len(tree) |-> forged[i]]  BY <2>2, <3>1
    <3> QED  BY <3>1, <3>2, <3>3, IsASeq
  <2>5. package' = [p EXCEPT !.content = [p.content EXCEPT !.tree = forged]]
    BY <1>5, <2>1, <2>2 DEF Forged
  <2>6. [p.content EXCEPT !.tree = forged] \in FileContents  BY <1>1, <2>4 DEF FileContents
  <2> QED  BY <1>3, <2>5, <2>6
<1>6. CASE \E r \in p.content.events : package' = [p EXCEPT !.content.events = @ \ {r}]
  <2>1. PICK r : package' = [p EXCEPT !.content = [p.content EXCEPT !.events = @ \ {r}]]  BY <1>6
  <2>2. [p.content EXCEPT !.events = @ \ {r}] \in FileContents  BY <1>1 DEF FileContents
  <2> QED  BY <1>3, <2>1, <2>2
<1>7. CASE package' \in {[p EXCEPT !.content.artifact = "sound"], [p EXCEPT !.content.requirements = "weakened"],
                         [p EXCEPT !.content.refusal = "unstated"]}
  <2>1. /\ [p.content EXCEPT !.artifact = "sound"] \in FileContents
        /\ [p.content EXCEPT !.requirements = "weakened"] \in FileContents
        /\ [p.content EXCEPT !.refusal = "unstated"] \in FileContents
    BY <1>1 DEF FileContents
  <2>2. CASE package' = [p EXCEPT !.content.artifact = "sound"]  BY <1>3, <2>1, <2>2
  <2>3. CASE package' = [p EXCEPT !.content.requirements = "weakened"]  BY <1>3, <2>1, <2>3
  <2>4. CASE package' = [p EXCEPT !.content.refusal = "unstated"]  BY <1>3, <2>1, <2>4
  <2> QED  BY <1>7, <2>2, <2>3, <2>4
<1>8. \/ package' = [p EXCEPT !.present = @ \ {name}]
      \/ package' = [p EXCEPT !.content.state = [bound |-> TRUE, admission |-> TRUE, accepted |-> TRUE]]
      \/ package' = [p EXCEPT !.content.tree = Forged(@)]
      \/ \E r \in p.content.events : package' = [p EXCEPT !.content.events = @ \ {r}]
      \/ package' \in {[p EXCEPT !.content.artifact = "sound"], [p EXCEPT !.content.requirements = "weakened"],
                       [p EXCEPT !.content.refusal = "unstated"]}
  <2>1. CASE package' = [p EXCEPT !.present = @ \ {name}]  BY <2>1
  <2>2. CASE package' # [p EXCEPT !.present = @ \ {name}]
    <3>1. CASE name = "state"  BY <2>2, <3>1 DEF Tamper
    <3>2. CASE name = "tree"  BY <2>2, <3>2 DEF Tamper
    <3>3. CASE name = "events"  BY <2>2, <3>3 DEF Tamper
    <3>4. CASE name = "artifact"  BY <2>2, <3>4 DEF Tamper
    <3>5. CASE name = "requirements"  BY <2>2, <3>5 DEF Tamper
    <3>6. CASE name = "refusal"  BY <2>2, <3>6 DEF Tamper
    <3>7. name \in {"state", "tree", "events", "artifact", "requirements", "refusal"}  BY <2>2 DEF Tamper
    <3> QED  BY <3>1, <3>2, <3>3, <3>4, <3>5, <3>6, <3>7
  <2> QED  BY <2>1, <2>2
<1> QED  BY <1>2, <1>4, <1>5, <1>6, <1>7, <1>8


\* What happens to its files afterwards is none of what the digests say.
LEMMA TamperKeepsInv ==
  ASSUME SliceInv, NEW name, Tamper(name)
  PROVE  SliceInv'
<1>1. package # NoPackage /\ ~source /\ UNCHANGED <<slice, trace, finalized, safe, source>>
  BY DEF Tamper, SliceInv
<1>2. PackageInv(package)  BY <1>1 DEF SliceInv
<1>3. PICK p \in Package : p = package  BY <1>2 DEF PackageInv
<1>4. PICK q : q = package'  OBVIOUS
<1>5. /\ q \in Package /\ q.present \subseteq p.present /\ DOMAIN q = DOMAIN p
      /\ \A f \in DOMAIN p \ {"present", "content"} : q[f] = p[f]
  BY <1>3, <1>4, TamperedIsPackage
<1>6. q.listed = p.listed /\ q.omitted = p.omitted /\ q.own = p.own /\ q.digest = p.digest
  BY <1>5 DEF Package
<1>7. Contents(slice, trace)' = Contents(slice, trace)  BY <1>1 DEF Contents
<1>8. PackageInv(package)'
  BY <1>1, <1>2, <1>3, <1>4, <1>5, <1>6, <1>7 DEF PackageInv, Quiet
<1>9. SliceTypes' /\ RunInv'  BY <1>1 DEF SliceInv, SliceTypes, RunInv
<1> QED  BY <1>1, <1>4, <1>5, <1>8, <1>9, SliceAssumption DEF SliceInv

LEMMA CleanUpKeepsInv ==
  ASSUME SliceInv, CleanUp
  PROVE  SliceInv'
<1>1. UNCHANGED <<slice, trace, finalized, safe, package>> /\ source /\ source' = FALSE /\ safe /\ finalized
  BY DEF CleanUp
<1>2. package # NoPackage /\ PackageInv(package)  BY <1>1 DEF SliceInv
<1>3. Contents(slice, trace)' = Contents(slice, trace)  BY <1>1 DEF Contents
<1>4. PackageInv(package)'  BY <1>1, <1>2, <1>3 DEF PackageInv, Quiet
<1>5. SliceTypes' /\ RunInv'  BY <1>1 DEF SliceInv, SliceTypes, RunInv
<1> QED  BY <1>1, <1>2, <1>4, <1>5 DEF SliceInv

LEMMA SliceStep == SliceInv /\ [SliceNext]_sliceVars => SliceInv'
<1> SUFFICES ASSUME SliceInv, [SliceNext]_sliceVars PROVE SliceInv'  OBVIOUS
<1>1. CASE \/ PlaceContract \/ AdmitContract \/ RecordRefusal \/ CheckArtifact \/ Accept
           \/ ReserveSlot
  BY <1>1, CoordinatorKeepsInv
<1>2. CASE \/ \E role \in Roles : StartWorker(role)
           \/ \E i : Worker(i)
           \/ ClassifySlot
  BY <1>2, WorkerStepKeepsInv
<1>3. CASE Finalize  BY <1>3, FinalizeKeepsInv
<1>4. CASE AdaptHandoff1  BY <1>4, AdaptKeepsInv
<1>5. CASE CleanUp  BY <1>5, CleanUpKeepsInv
<1>6. CASE \E name : Tamper(name)  BY <1>6, TamperKeepsInv
<1>7. CASE UNCHANGED sliceVars
  BY <1>7 DEF sliceVars, SliceInv, SliceTypes, RunInv, PackageInv, Quiet, Contents
<1> QED  BY <1>1, <1>2, <1>3, <1>4, <1>5, <1>6, <1>7 DEF SliceNext

\* Whatever was lost, altered or deleted, a package's digests stay those of the run it was exported
\* from: of the gate's files always, and of all of them once nothing it names still runs.
THEOREM SliceInvariant == SliceSpec => []SliceInv
<1>1. SliceInit => SliceInv  BY SliceStart
<1>2. SliceInv /\ [SliceNext]_sliceVars => SliceInv'  BY SliceStep
<1> QED  BY <1>1, <1>2, PTL DEF SliceSpec

\* What the required checks say of the bytes that are there.
LEMMA QualifiedMeans ==
  ASSUME NEW p, p.condition = "valid", Qualified(p)
  PROVE  /\ \A name \in p.listed : name \in p.present /\ p.content[name] = p.digest[name]
         /\ Cardinality(p.own) >= 2
         /\ LaunchLifecycle(p) = "ok" /\ LedgerAgreement(p) = "ok" /\ UsageCompleteness(p) = "ok"
         /\ AuthorityAdmission(p) = "ok" /\ ArtifactRecheck(p) = "ok"
<1>1. \A c \in {"files", "ledger", "lifecycle", "completeness", "admission", "recheck"} : Checks(p)[c] = "ok"
  BY DEF Qualified, Required
<1>2. /\ Checks(p).files = CheckFiles(p) /\ Checks(p).ledger = LedgerAgreement(p)
      /\ Checks(p).lifecycle = LaunchLifecycle(p) /\ Checks(p).completeness = UsageCompleteness(p)
      /\ Checks(p).admission = AuthorityAdmission(p) /\ Checks(p).recheck = ArtifactRecheck(p)
  BY DEF Checks
<1>3. \A name \in p.listed : ~Altered(p, name)  BY <1>1, <1>2 DEF CheckFiles
<1>4. Cardinality(p.own) >= 2  BY DEF Qualified, OutcomeReached
<1> QED  BY <1>1, <1>2, <1>3, <1>4 DEF Altered

LEMMA QualifiedIsDelivered == SliceInv => QualifiedWasDelivered
<1> SUFFICES ASSUME SliceInv, package # NoPackage, package.condition = "valid", Qualified(package)
             PROVE  /\ slice.admission /\ Cardinality(Own(slice)) >= 2 /\ Running(slice) = {} /\ Settled(trace)
                    /\ Works(slice.artifact, slice.requirements)
  BY DEF QualifiedWasDelivered
<1>1. PICK p \in Package : p = package /\ PackageInv(p)
  BY DEF SliceInv, PackageInv
<1>2. /\ \A name \in p.listed : name \in p.present /\ p.content[name] = p.digest[name]
      /\ Cardinality(p.own) >= 2
      /\ LaunchLifecycle(p) = "ok" /\ LedgerAgreement(p) = "ok" /\ UsageCompleteness(p) = "ok"
      /\ AuthorityAdmission(p) = "ok" /\ ArtifactRecheck(p) = "ok"
  BY <1>1, QualifiedMeans
<1>3. /\ p.content["state"] = p.digest["state"] /\ p.content["ledger"] = p.digest["ledger"]
      /\ p.content["tree"] = p.digest["tree"]
  BY <1>1, <1>2 DEF PackageInv
<1>4. \A i \in p.own : p.digest.tree[i].ended  BY <1>2, <1>3 DEF LaunchLifecycle
<1>5. \A i \in DOMAIN p.digest.ledger : p.digest.ledger[i].classification # "unresolved"
  BY <1>2, <1>3 DEF LedgerAgreement
<1>6. Quiet(p)  BY <1>4, <1>5 DEF Quiet
<1>7. p.digest = Contents(slice, trace)  BY <1>1, <1>6 DEF PackageInv
<1>8. p.own = Own(slice)  BY <1>1, <1>7, ContentsTyped DEF PackageInv, SliceInv, Own
<1>9. Running(slice) = {}  BY <1>1, <1>6, QuietMeansStill
<1>10. slice.admission
  BY <1>2, <1>3, <1>7 DEF AuthorityAdmission, Contents
<1>11. Settled(trace)
  <2>1. "events" \in p.present /\ Settled(p.content.events)  BY <1>2 DEF UsageCompleteness
  <2>2. p.content["events"] = p.digest["events"]  BY <1>1, <1>2, <2>1 DEF PackageInv
  <2>3. p.digest.events = trace  BY <1>7 DEF Contents
  <2> QED  BY <2>1, <2>2, <2>3
<1>12. Works(slice.artifact, slice.requirements)
  <2>1. /\ ArtifactRetained(p) = "ok" /\ ~Altered(p, "requirements")
        /\ Works(p.content.artifact, p.content.requirements)
    BY <1>2 DEF ArtifactRecheck
  <2>2. ~Altered(p, "artifact")  BY <2>1 DEF ArtifactRetained
  <2>3. p.content["artifact"] = p.digest["artifact"] /\ p.content["requirements"] = p.digest["requirements"]
    BY <2>1, <2>2 DEF Altered
  <2>4. p.digest.artifact = slice.artifact /\ p.digest.requirements = slice.requirements
    BY <1>7 DEF Contents
  <2> QED  BY <2>1, <2>3, <2>4
<1> QED  BY <1>2, <1>8, <1>9, <1>10, <1>11, <1>12

\* A valid package that qualifies comes from a run that was admitted, whose two or more own workers
\* had all ended with no call in flight, and whose delivered bytes satisfy its requirements, however
\* often it was exported before and whatever was done to its files since (_package.py, qualify).
THEOREM QualifiedPackagesWereDelivered == SliceSpec => []QualifiedWasDelivered
BY SliceInvariant, QualifiedIsDelivered, PTL

LEMMA AttributedIsNamed == SliceInv => AttributedIsTrue
<1> SUFFICES ASSUME SliceInv, package # NoPackage, UsageAttribution(package) = "ok", CheckFiles(package) = "ok"
             PROVE  /\ \A i \in package.own : package.digest.tree[i].session = i
                    /\ {r.session : r \in package.digest.events} = package.own
  BY DEF AttributedIsTrue
<1>1. PackageInv(package)  BY DEF SliceInv
<1>2. /\ "events" \in package.present /\ "tree" \in package.present
      /\ Attribution(package.content.events, package.content.tree, package.own)
  BY DEF UsageAttribution
<1>3. package.content["events"] = package.digest["events"] /\ package.content["tree"] = package.digest["tree"]
  BY <1>1, <1>2 DEF PackageInv, CheckFiles, Altered
<1>4. PICK events, tree, own : events = package.digest.events /\ tree = package.digest.tree /\ own = package.own
  OBVIOUS
<1>5. PICK sessions : sessions = {r.session : r \in events}  OBVIOUS
<1>6. Attribution(events, tree, own)  BY <1>2, <1>3, <1>4
<1>7. \A i \in own : tree[i].session \in sessions  BY <1>5, <1>6 DEF Attribution
<1>8. sessions \subseteq {tree[i].session : i \in own}  BY <1>5, <1>6 DEF Attribution
<1>9. \A i \in own : tree[i].session \in {0, i}  BY <1>1, <1>4 DEF PackageInv, Anchored
<1>10. 0 \notin sessions  BY <1>1, <1>4, <1>5 DEF PackageInv
<1>11. \A i \in own : tree[i].session = i  BY <1>7, <1>9, <1>10
<1>12. own \subseteq sessions  BY <1>7, <1>11
<1>13. sessions \subseteq own  BY <1>8, <1>11
<1>14. sessions = own  BY <1>12, <1>13
<1> QED  BY <1>4, <1>5, <1>11, <1>14

\* When every listed file still has its digest, usage is attributed only if each of the run's own
\* attempts names its own session and the rows are of those sessions alone (_package.py,
\* _recompute_attribution).
THEOREM AttributedUsageIsNamed == SliceSpec => []AttributedIsTrue
BY SliceInvariant, AttributedIsNamed, PTL

\* The run's data is only deleted under a package that has all of it, or that says what it lacks:
\* the session database, an attempt that had not ended, a slot that was not classified
\* (_live.py, finalize).
THEOREM NothingIsLostSilently == SliceSpec => CleanupLosesNothingSilently
<1>1. ASSUME SliceInv, [SliceNext]_sliceVars, source, ~source'
      PROVE  /\ package # NoPackage
             /\ \/ "events" \in package.omitted
                \/ LaunchLifecycle(package) = "unavailable" \/ LedgerAgreement(package) = "mismatch"
                \/ package.content = Contents(slice, trace)
  <2>1. CleanUp
    <3>1. CASE UNCHANGED sliceVars  BY <1>1, <3>1 DEF sliceVars
    <3>2. CASE \/ PlaceContract \/ AdmitContract \/ RecordRefusal \/ CheckArtifact \/ Accept
               \/ ReserveSlot \/ ClassifySlot
               \/ \E role \in Roles : StartWorker(role)
      BY <1>1, <3>2 DEF PlaceContract, AdmitContract, RecordRefusal, CheckArtifact, Accept, ReserveSlot,
           ClassifySlot, StartWorker, RunStep
    <3>3. CASE \E i : Worker(i)
      BY <1>1, <3>3 DEF Worker, CallStarts, CallFinishes, WeakenRequirements, Produce, WorkerEnds, RunStep
    <3>4. CASE Finalize \/ AdaptHandoff1 \/ \E name : Tamper(name)
      BY <1>1, <3>4 DEF Finalize, AdaptHandoff1, Tamper
    <3> QED  BY <1>1, <3>1, <3>2, <3>3, <3>4 DEF SliceNext
  <2>2. package # NoPackage  BY <1>1, <2>1 DEF CleanUp, SliceInv
  <2>3. PackageInv(package)  BY <1>1, <2>2 DEF SliceInv
  <2>4. package.content = package.digest /\ {"ledger", "tree"} \subseteq package.present
    BY <1>1, <2>3 DEF PackageInv
  <2>5. ASSUME LaunchLifecycle(package) # "unavailable", LedgerAgreement(package) # "mismatch"
        PROVE  Quiet(package)
    <3>1. \A i \in package.own : package.digest.tree[i].ended  BY <2>4, <2>5 DEF LaunchLifecycle
    <3>2. \A i \in DOMAIN package.digest.ledger : package.digest.ledger[i].classification # "unresolved"
      BY <2>4, <2>5 DEF LedgerAgreement
    <3> QED  BY <3>1, <3>2 DEF Quiet
  <2> QED  BY <2>2, <2>3, <2>4, <2>5 DEF PackageInv
<1>2. SliceInv /\ [SliceNext]_sliceVars =>
        [source /\ ~source' =>
           /\ package # NoPackage
           /\ \/ "events" \in package.omitted
              \/ LaunchLifecycle(package) = "unavailable" \/ LedgerAgreement(package) = "mismatch"
              \/ package.content = Contents(slice, trace)]_sliceVars
  BY <1>1
<1> QED  BY <1>2, SliceInvariant, PTL DEF SliceSpec, CleanupLosesNothingSilently
=============================================================================
