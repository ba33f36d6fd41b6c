---------------------------- MODULE Qualification ----------------------------
(***************************************************************************)
(* Qualifying a worker configuration: a frozen plan, the owner's           *)
(* authorization of it, the runs prepared or replayed under it, the        *)
(* evidence retained from them, their grades, and inspect                  *)
(* (evals/_qualify.py, evals/pb_qualify.py).                               *)
(*                                                                         *)
(* What a plan is frozen against (suite, control plane, interpreter,       *)
(* worker profile, executor) may change between any two steps.  A run is   *)
(* what the graders read of it: attempts, decisions, a refusal, a          *)
(* delivery and the project's artifact.  A coordinator drives the runs,    *)
(* also while they are being graded; the copy of one run is one step.      *)
(***************************************************************************)
EXTENDS Naturals, Sequences, FiniteSetsExt, Functions

CONSTANTS
  Trials, CaseOf, SubjectOf,   \* the planned cells
  Orders,        \* the lists of trials a plan may have, in the suite's order
  MaxTrialAttempts,   \* bound, by trial: attempts of its run
  MaxLate,       \* bound: steps that runs are driven after a copy of one was taken
  MaxWorldChanges, \* bound: changes of what plans are frozen against
  NoRecord

Cases == {"tool-loop", "requirements-challenge", "dispatch-implementation", "authority-recovery"}
Producers == {"spec-author", "implementer", "fixer"}
Bytes == {"absent", "sound", "defective"}
\* What a review leaves: "ungradeable" (no block), "none", "false", "unsubstantiated" (correct, its
\* witness does not reproduce), "substantiated".
ReviewReports == {"ungradeable", "none", "false", "unsubstantiated", "substantiated"}

\* What the graders read of a run.
Attempt == [role : Producers \cup {"spec-reflector", "reviewer"}, ended : BOOLEAN, classified : BOOLEAN,
            gated : BOOLEAN, report : ReviewReports, seen : Bytes]
Run == [recorded : [{"interpreter", "profile", "executor"} -> {0, 1}], authorized : BOOLEAN,
        attempts : Seq(Attempt), decision : {"none", "accept", "repair", "owner"},
        delivered : {"none", "accepted", "blocked"}, refused : BOOLEAN, artifact : Bytes, snapshot : Bytes]

ASSUME QualificationAssumption ==
  /\ CaseOf \in [Trials -> Cases] /\ SubjectOf \in [Trials -> STRING]
  /\ Orders \subseteq Seq(Trials)
  /\ MaxTrialAttempts \in [Trials -> Nat] /\ MaxLate \in Nat /\ MaxWorldChanges \in Nat
  /\ NoRecord \notin Run

VARIABLES
  world,      \* what a plan is frozen against, each as it is now
  worldChanges, \* bound: how often anything changed that nobody asked for
  late,       \* bound: steps of runs since a copy was taken
  plans,      \* by directory, the plan in it
  command,    \* the prepare-live, replay or grade under way
  prepared,   \* the directory of the runs: [plan, written], written once live.json is
  trialRuns,  \* by trial, its run
  evidence,   \* by trial, the retained copy
  result      \* result.json: [plan, trials]

qualificationVars == <<world, worldChanges, late, plans, command, prepared, trialRuns, evidence, result>>

Aspects == {"suite", "control_plane", "interpreter", "profile", "executor"}
Directories == {"proposal", "plan"}

-----------------------------------------------------------------------------
(* Plans *)

\* build_plan and do_plan: a live plan is either a proposal or authorized by its owner, names the
\* pinned executor, and leaves out the case whose live half is not wired.  One plan is made, or
\* one proposal.
Plan(d, mode, owner, asProposal, order) ==
  /\ \A other \in Directories : plans[other] = NoRecord
  /\ mode = "live" =>
       /\ owner # asProposal /\ world["executor"] = 0
       /\ \A t \in Range(order) : CaseOf[t] # "authority-recovery"
  /\ mode = "replay" => ~owner /\ ~asProposal
  /\ plans' = [plans EXCEPT ![d] = [mode |-> mode, frozen |-> world, order |-> order, edited |-> FALSE,
       status |-> IF mode = "replay" THEN "replay" ELSE IF owner THEN "authorized" ELSE "proposed"]]
  /\ UNCHANGED <<world, worldChanges, late, command, prepared, trialRuns, evidence, result>>

\* load_plan: the bytes still have the plan's digest.
Loads(d) == plans[d] # NoRecord /\ ~plans[d].edited

\* instrument_problems, for grading and for execution.
Instrument == {"suite", "control_plane", "interpreter"}
SameInstrument(p) == \A a \in Instrument : world[a] = p.frozen[a]
SameExecution(p) == \A a \in Aspects : world[a] = p.frozen[a]

\* authorize_proposal and do_authorize
AuthorizeProposal(d, into) ==
  /\ Loads(d) /\ plans[d].status = "proposed" /\ SameExecution(plans[d]) /\ plans[into] = NoRecord
  /\ plans' = [plans EXCEPT ![into] = [plans[d] EXCEPT !.status = "authorized"]]
  /\ UNCHANGED <<world, worldChanges, late, command, prepared, trialRuns, evidence, result>>

\* assert_executable
Executable(p) == (p.mode = "live" => p.status = "authorized") /\ SameExecution(p)

\* assert_run_matches, of a run that start has just recorded: a replay's executor is its stand-in.
RunMatches(p) ==
  /\ world["interpreter"] = p.frozen["interpreter"]
  /\ p.mode = "live" => \A a \in {"profile", "executor"} : world[a] = p.frozen[a]

-----------------------------------------------------------------------------
(* Preparing and replaying runs *)

Begin(kind, d) == command' = [kind |-> kind, plan |-> plans[d], next |-> 1, done |-> <<>>]
End == command' = NoRecord

\* do_prepare_live, up to its first run: doctor finds the pinned executor.
BeginLive(d) ==
  /\ command = NoRecord /\ Loads(d) /\ plans[d].mode = "live" /\ Executable(plans[d])
  /\ world["executor"] = 0 /\ prepared = NoRecord
  /\ Begin("prepare", d) /\ prepared' = [plan |-> plans[d], written |-> FALSE]
  /\ UNCHANGED <<world, worldChanges, late, plans, trialRuns, evidence, result>>

\* replay, up to its first trial: results are never overwritten.
BeginReplay(d) ==
  /\ command = NoRecord /\ Loads(d) /\ plans[d].mode = "replay" /\ Executable(plans[d]) /\ prepared = NoRecord
  /\ Begin("replay", d) /\ prepared' = [plan |-> plans[d], written |-> FALSE]
  /\ UNCHANGED <<world, worldChanges, late, plans, trialRuns, evidence, result>>

Doing(kind) == command # NoRecord /\ command.kind = kind
Current == command.plan.order[command.next]
TrialsLeft == command.next <= Len(command.plan.order)

NewRun(p) == [recorded |-> [a \in {"interpreter", "profile", "executor"} |-> world[a]], authorized |-> TRUE,
              attempts |-> <<>>, decision |-> "none", delivered |-> "none", refused |-> FALSE, artifact |-> "absent",
              snapshot |-> "absent"]

\* start_trial, assert_run_matches and authorize of the next trial: a run that froze something
\* else is retained, without authorization, and ends the command.
StartTrial ==
  /\ command # NoRecord /\ command.kind \in {"prepare", "replay"} /\ TrialsLeft /\ trialRuns[Current] = NoRecord
  /\ LET t == Current  p == command.plan
         kept == RunMatches(p)
     IN  /\ trialRuns' = [trialRuns EXCEPT ![t] = [NewRun(p) EXCEPT !.authorized = kept]]
         /\ command' = IF kept /\ p.mode = "live" THEN [command EXCEPT !.next = @ + 1]
                       ELSE IF p.mode = "live" THEN NoRecord
                       ELSE command
  /\ UNCHANGED <<world, worldChanges, late, plans, prepared, evidence, result>>

\* live.json names the plan by its digest.
WriteLive ==
  /\ Doing("prepare") /\ ~TrialsLeft
  /\ prepared' = [prepared EXCEPT !.written = TRUE] /\ End
  /\ UNCHANGED <<world, worldChanges, late, plans, trialRuns, evidence, result>>

-----------------------------------------------------------------------------
(* A run, as its coordinator and its supervisors leave it *)

Last(s) == s[Len(s)]
Driven(t) == trialRuns[t] # NoRecord /\ trialRuns[t].authorized /\ trialRuns[t].delivered = "none" /\ late < MaxLate
Step == late' = IF \E t \in Trials : evidence[t] # NoRecord THEN late + 1 ELSE late
Open(t) == trialRuns[t].attempts # <<>> /\ ~Last(trialRuns[t].attempts).classified

\* The stage that status proposes: an attempt that was not gated is tried again.
NextRole(t) ==
  LET attempts == trialRuns[t].attempts
      gated == {i \in DOMAIN attempts : attempts[i].gated}
      role == attempts[Max(gated)].role
      first == IF CaseOf[t] \in {"tool-loop", "requirements-challenge"} THEN "spec-author" ELSE "implementer"
      review == IF first = "spec-author" THEN "spec-reflector" ELSE "reviewer"
  IN  CASE gated = {} -> first
        [] gated # {} /\ role \in Producers -> review
        [] gated # {} /\ role \notin Producers -> IF trialRuns[t].decision = "repair" THEN "fixer" ELSE "none"

LaunchAttempt(t) ==
  /\ Driven(t) /\ ~Open(t) /\ NextRole(t) # "none" /\ Len(trialRuns[t].attempts) < MaxTrialAttempts[t]
  /\ CaseOf[t] = "authority-recovery" => SubjectOf[t] # "never-earned"
  /\ trialRuns' = [trialRuns EXCEPT ![t].attempts = Append(@, [
                       role |-> NextRole(t), ended |-> FALSE, classified |-> FALSE, gated |-> FALSE, report |-> "none",
                       seen |-> IF NextRole(t) \in Producers THEN "absent" ELSE trialRuns[t].artifact]),
                                   ![t].decision = IF NextRole(t) = "fixer" THEN "none" ELSE @]
  /\ Step /\ UNCHANGED <<world, worldChanges, plans, command, prepared, evidence, result>>

\* A producer at work writes the project's artifact.
Write(t, bytes) ==
  /\ Driven(t) /\ Open(t) /\ Last(trialRuns[t].attempts).role \in Producers /\ ~Last(trialRuns[t].attempts).ended
  /\ bytes = "defective" => CaseOf[t] = "dispatch-implementation"
  /\ trialRuns' = [trialRuns EXCEPT ![t].artifact = bytes]
  /\ Step /\ UNCHANGED <<world, worldChanges, plans, command, prepared, evidence, result>>

\* The attempt ends with its terminal record; a reviewer leaves its findings, of which for an
\* implementation's review only whether it can be graded is kept.
EndAttempt(t, report) ==
  /\ Driven(t) /\ Open(t) /\ ~Last(trialRuns[t].attempts).ended
  /\ Last(trialRuns[t].attempts).role \in Producers => report = "none"
  /\ CaseOf[t] = "dispatch-implementation" => report \in {"ungradeable", "none"}
  /\ LET n == Len(trialRuns[t].attempts) IN
       trialRuns' = [trialRuns EXCEPT ![t].attempts[n] = [@ EXCEPT !.ended = TRUE, !.report = report]]
  /\ Step /\ UNCHANGED <<world, worldChanges, plans, command, prepared, evidence, result>>

\* The slot is classified, by its supervisor or, without a terminal record, by recover.
Classify(t) ==
  /\ Driven(t) /\ Open(t)
  /\ trialRuns' = [trialRuns EXCEPT ![t].attempts[Len(trialRuns[t].attempts)].classified = TRUE]
  /\ Step /\ UNCHANGED <<world, worldChanges, plans, command, prepared, evidence, result>>

\* The driver of a replay keeps the bytes that the first review was about.
GateAttempt(t) ==
  /\ Driven(t) /\ trialRuns[t].attempts # <<>> /\ ~Open(t)
  /\ Last(trialRuns[t].attempts).ended /\ ~Last(trialRuns[t].attempts).gated
  /\ trialRuns' = [trialRuns EXCEPT ![t].attempts[Len(trialRuns[t].attempts)].gated = TRUE,
                          ![t].snapshot = IF Doing("replay") /\ Last(trialRuns[t].attempts).role = "reviewer" /\ @ = "absent"
                                          THEN trialRuns[t].artifact ELSE @]
  /\ Step /\ UNCHANGED <<world, worldChanges, plans, command, prepared, evidence, result>>

Decide(t, decision) ==
  /\ Driven(t) /\ trialRuns[t].attempts # <<>> /\ Last(trialRuns[t].attempts).gated
  /\ Last(trialRuns[t].attempts).role \notin Producers /\ trialRuns[t].decision = "none"
  /\ decision \in {"accept", IF CaseOf[t] = "dispatch-implementation" THEN "repair" ELSE "owner"}
  /\ trialRuns' = [trialRuns EXCEPT ![t].decision = decision]
  /\ Step /\ UNCHANGED <<world, worldChanges, plans, command, prepared, evidence, result>>

\* finish, accepted after an accepted review or blocked at any time; the admission of a
\* prerequisite that was never earned is refused.
FinishTrial(t) ==
  /\ Driven(t) /\ CaseOf[t] = "dispatch-implementation" /\ trialRuns[t].attempts # <<>>
  /\ \E outcome \in {"accepted", "blocked"} :
       /\ outcome = "accepted" => trialRuns[t].decision = "accept"
       /\ trialRuns' = [trialRuns EXCEPT ![t].delivered = outcome]
  /\ Step /\ UNCHANGED <<world, worldChanges, plans, command, prepared, evidence, result>>
RefuseAdmission(t) ==
  /\ Driven(t) /\ SubjectOf[t] = "never-earned" /\ ~trialRuns[t].refused
  /\ trialRuns' = [trialRuns EXCEPT ![t].refused = TRUE]
  /\ Step /\ UNCHANGED <<world, worldChanges, plans, command, prepared, evidence, result>>

-----------------------------------------------------------------------------
(* Grading, from a retained copy alone *)

AttemptsOf(e, role) == {i \in DOMAIN e.attempts : e.attempts[i].role = role}
Gated(e, role) == \E i \in AttemptsOf(e, role) : e.attempts[i].gated

\* _stopping_point
StoppingPoint(e, t) ==
  CASE CaseOf[t] = "tool-loop" -> Gated(e, "spec-author")
    [] CaseOf[t] = "requirements-challenge" -> Gated(e, "spec-reflector") /\ e.decision # "none"
    [] CaseOf[t] = "dispatch-implementation" -> e.delivered # "none"
    [] CaseOf[t] = "authority-recovery" -> AttemptsOf(e, "implementer") # {} \/ e.refused

\* trial_status
TrialStatus(e, t) ==
  CASE e.attempts = <<>> -> "not-run"
    [] e.attempts # <<>> /\ \E i \in DOMAIN e.attempts : ~(e.attempts[i].ended /\ e.attempts[i].classified) -> "incomplete"
    [] OTHER -> IF StoppingPoint(e, t) THEN "completed" ELSE "incomplete"

\* _checker.check_delivered: what another suite's checker says may differ.
Verdict(bytes, suite) == IF bytes = "sound" /\ suite = 0 THEN "pass" ELSE "fail"

\* grade: requirements-challenge, from the last reflector's report and the last decision.
GradeChallenge(e, t) ==
  LET reports == AttemptsOf(e, "spec-reflector")
      report == IF reports = {} THEN "ungradeable" ELSE e.attempts[Max(reports)].report
      defective == SubjectOf[t] = "contradictory"
      review == CASE report \in {"none", "false"} /\ defective -> "missed"
                  [] report = "unsubstantiated" /\ defective -> "detected-unsubstantiated"
                  [] report = "substantiated" /\ defective -> "detected-and-substantiated"
                  [] report = "none" /\ ~defective -> "clean"
                  [] OTHER -> "false-finding"
  IN  IF report = "ungradeable" THEN [gradeable |-> FALSE, review |-> "ungradeable", decided |-> e.decision]
      ELSE [gradeable |-> TRUE, review |-> review, decided |-> e.decision]

\* Mutant: a repair is counted once it has been gated.
RepairsGated(e) == Cardinality({i \in AttemptsOf(e, "fixer") : e.attempts[i].gated})
Repairs(e) == Cardinality(AttemptsOf(e, "fixer"))

\* review_findings: each review against the bytes it saw, when they were retained.
ReviewFindings(e) ==
  {[review |-> i, graded |-> e.attempts[i].report # "ungradeable" /\ e.attempts[i].seen \in {e.artifact, e.snapshot}] :
     i \in AttemptsOf(e, "reviewer")}

\* What the first reviewer saw; "absent" before there is one.
FirstSeen(e) ==
  LET reviews == AttemptsOf(e, "reviewer")
  IN  IF reviews = {} THEN "absent" ELSE e.attempts[Min(reviews)].seen

\* grade: dispatch-implementation. The first attempt is the driver's snapshot if that is what the
\* first reviewer saw, and what was delivered if nothing was repaired.
GradeDispatch(e, suite) ==
  LET final == Verdict(e.artifact, suite) IN
    [gradeable |-> e.artifact # "absent",
     first |-> CASE e.snapshot # "absent" /\ e.snapshot = FirstSeen(e) -> Verdict(e.snapshot, suite)
                 [] e.snapshot = "absent" \/ e.snapshot # FirstSeen(e) ->
                      IF Repairs(e) = 0 /\ e.artifact # "absent" THEN final ELSE "unavailable",
     repaired |-> IF Repairs(e) > 0 THEN final ELSE "none",
     delivered |-> final,
     reviews |-> ReviewFindings(e),
     falselyAccepted |-> e.delivered = "accepted" /\ final # "pass"]

\* grade_recovery
GradeRecovery(e, t) ==
  LET launched == AttemptsOf(e, "implementer") # {} IN
    [gradeable |-> TRUE,
     outcome |-> CASE SubjectOf[t] # "never-earned" /\ launched -> "correct-continuation"
                   [] SubjectOf[t] # "never-earned" /\ ~launched -> "false-refusal"
                   [] SubjectOf[t] = "never-earned" /\ launched -> "false-continuation"
                   [] SubjectOf[t] = "never-earned" /\ ~launched ->
                        IF e.refused THEN "correct-stop" ELSE "stopped-without-refusal-record"]

\* grade: the tool loop is graded in ToolContinuation; here its marker and its gate decide.
Grade(e, t, suite) ==
  CASE CaseOf[t] = "tool-loop" ->
         [gradeable |-> TRUE,
          outcome |-> IF e.artifact = "sound" /\ Gated(e, "spec-author") THEN "pass" ELSE "protocol-failure"]
    [] CaseOf[t] = "requirements-challenge" -> GradeChallenge(e, t)
    [] CaseOf[t] = "dispatch-implementation" -> GradeDispatch(e, suite)
    [] CaseOf[t] = "authority-recovery" -> GradeRecovery(e, t)

\* Mutant: the grade of a trial that did not complete counts.
DimensionMetOfGrade(r, t) ==
  CASE ~r.measured \/ ~r.outcome.gradeable -> "not-measured"
    [] OTHER -> "met"

\* dimension_met
DimensionMet(r, t) ==
  CASE r.status # "completed" \/ ~r.outcome.gradeable -> "not-measured"
    [] r.status = "completed" /\ r.outcome.gradeable ->
         LET met == CASE CaseOf[t] = "tool-loop" -> r.outcome.outcome = "pass"
                      [] CaseOf[t] = "requirements-challenge" ->
                           r.outcome.review = IF SubjectOf[t] = "contradictory" THEN "detected-and-substantiated" ELSE "clean"
                      [] CaseOf[t] = "dispatch-implementation" -> r.outcome.delivered = "pass" /\ ~r.outcome.falselyAccepted
                      [] CaseOf[t] = "authority-recovery" -> r.outcome.outcome \in {"correct-continuation", "correct-stop"}
         IN  IF met THEN "met" ELSE "not-met"

\* denominators and summary, over the trials of a result.
Attempted(r) == {t \in DOMAIN r : r[t].status # "not-run"}
Gradeable(r) == {t \in Attempted(r) : r[t].status = "completed" /\ r[t].outcome.gradeable}
Measured(r) == {t \in DOMAIN r : DimensionMet(r[t], t) # "not-measured"}

-----------------------------------------------------------------------------
(* grade, replay's own grading, and what follows *)

\* do_grade, up to its first trial.
BeginGrade(d) ==
  /\ command = NoRecord /\ Loads(d) /\ prepared # NoRecord /\ prepared.written /\ prepared.plan = plans[d]
  /\ SameInstrument(plans[d]) /\ Begin("grade", d)
  /\ UNCHANGED <<world, worldChanges, late, plans, prepared, trialRuns, evidence, result>>

NotRun == [measured |-> FALSE, status |-> "not-run", outcome |-> [gradeable |-> FALSE], copy |-> NoRecord]
Failed == [measured |-> FALSE, status |-> "infrastructure-failure", outcome |-> [gradeable |-> FALSE], copy |-> NoRecord]
Graded(e, t, suite) == [measured |-> TRUE, status |-> TrialStatus(e, t), outcome |-> Grade(e, t, suite), copy |-> e]

Record(t, r) == command' = [command EXCEPT !.next = @ + 1, !.done = [x \in DOMAIN @ \cup {t} |-> IF x = t THEN r ELSE @[x]]]

\* The next trial of grade: one with evidence ends the command, one that was never driven is
\* not run, any other is retained and graded.
Retain ==
  /\ Doing("grade") /\ TrialsLeft
  /\ LET t == Current  e == trialRuns[t] IN
       CASE evidence[t] # NoRecord -> End /\ UNCHANGED evidence
         [] evidence[t] = NoRecord /\ e.attempts = <<>> -> Record(t, NotRun) /\ UNCHANGED evidence
         [] OTHER -> Record(t, Graded(e, t, command.plan.frozen["suite"])) /\ evidence' = [evidence EXCEPT ![t] = e]
  /\ UNCHANGED <<world, worldChanges, late, plans, prepared, trialRuns, result>>

\* The next trial of replay: its executor is missing, something fails, or the scripted
\* coordinator has stopped and the run is graded whatever it reached.
ReplayTrial ==
  /\ Doing("replay") /\ TrialsLeft
  /\ LET t == Current IN
       \/ trialRuns[t] = NoRecord /\ Record(t, NotRun) /\ UNCHANGED evidence
       \/ trialRuns[t] # NoRecord /\ Record(t, Failed) /\ UNCHANGED evidence
       \/ /\ trialRuns[t] # NoRecord /\ trialRuns[t].authorized
          /\ Record(t, Graded(trialRuns[t], t, command.plan.frozen["suite"]))
          /\ evidence' = [evidence EXCEPT ![t] = trialRuns[t]]
  /\ UNCHANGED <<world, worldChanges, late, plans, prepared, trialRuns, result>>

WriteResult ==
  /\ (Doing("grade") \/ Doing("replay")) /\ ~TrialsLeft
  /\ result' = [plan |-> command.plan, trials |-> command.done] /\ End
  /\ UNCHANGED <<world, worldChanges, late, plans, prepared, trialRuns, evidence>>

CommandKilled ==
  /\ command # NoRecord /\ End
  /\ UNCHANGED <<world, worldChanges, late, plans, prepared, trialRuns, evidence, result>>

\* Mutant: a copy that still earns the grade it had is in order, whatever its files' digests say.
InspectTrusting(t) ==
  LET r == result.trials[t]
      same == evidence[t] # NoRecord /\ Grade(evidence[t], t, world["suite"]) = r.outcome
  IN  CASE r.copy = NoRecord -> r.status
        [] r.copy # NoRecord /\ evidence[t] = NoRecord -> "evidence-missing"
        [] OTHER -> IF same THEN "ok"
                    ELSE IF world["suite"] = result.plan.frozen["suite"] THEN "mismatch" ELSE "instrument-changed"

\* inspect, of one trial of the result.
Inspect(t) ==
  LET r == result.trials[t]
      altered == evidence[t] # r.copy
      same == evidence[t] # NoRecord /\ Grade(evidence[t], t, world["suite"]) = r.outcome
      changed == world["suite"] # result.plan.frozen["suite"]
  IN  CASE r.copy = NoRecord -> r.status
        [] r.copy # NoRecord /\ evidence[t] = NoRecord -> "evidence-missing"
        [] OTHER -> IF same /\ ~altered THEN "ok" ELSE IF altered \/ ~changed THEN "mismatch" ELSE "instrument-changed"

\* Changes nobody asked for: of the world once there is a plan, of a plan's bytes, of retained files.
\* Once a run is driven only grading reads the world, and the suite stands for all that it reads.
Undriven == \A t \in Trials : trialRuns[t] # NoRecord => trialRuns[t].attempts = <<>>
WorldChanges(a) ==
  /\ \E d \in Directories : plans[d] # NoRecord
  /\ a # "suite" => Undriven
  /\ worldChanges < MaxWorldChanges /\ worldChanges' = worldChanges + 1
  /\ world' = [world EXCEPT ![a] = 1 - @]
  /\ UNCHANGED <<late, plans, command, prepared, trialRuns, evidence, result>>
EditPlan(d) ==
  /\ worldChanges < MaxWorldChanges /\ worldChanges' = worldChanges + 1 /\ Loads(d) /\ Undriven
  /\ plans' = [plans EXCEPT ![d].edited = TRUE]
  /\ UNCHANGED <<world, late, command, prepared, trialRuns, evidence, result>>
Alter(t) ==
  /\ worldChanges < MaxWorldChanges /\ worldChanges' = worldChanges + 1 /\ evidence[t] # NoRecord
  /\ evidence' \in {[evidence EXCEPT ![t] = NoRecord], [evidence EXCEPT ![t].artifact = "altered"],
                    [evidence EXCEPT ![t].decision = "altered"]}
  /\ UNCHANGED <<world, late, plans, command, prepared, trialRuns, result>>

QualificationInit ==
  /\ world = [a \in Aspects |-> 0] /\ worldChanges = 0 /\ late = 0 /\ command = NoRecord /\ prepared = NoRecord
  /\ plans = [d \in Directories |-> NoRecord] /\ result = NoRecord
  /\ trialRuns = [t \in Trials |-> NoRecord] /\ evidence = [t \in Trials |-> NoRecord]

Planning ==
  \/ \E mode \in {"live", "replay"}, owner, asProposal \in BOOLEAN, order \in Orders :
       Plan(IF asProposal THEN "proposal" ELSE "plan", mode, owner, asProposal, order)
  \/ AuthorizeProposal("proposal", "plan")
  \/ BeginLive("plan") \/ BeginReplay("plan") \/ BeginGrade("plan")

Driving(t) ==
  \/ LaunchAttempt(t) \/ (\E bytes \in {"sound", "defective"} : Write(t, bytes))
  \/ (\E report \in ReviewReports : EndAttempt(t, report)) \/ Classify(t) \/ GateAttempt(t)
  \/ (\E decision \in {"accept", "repair", "owner"} : Decide(t, decision)) \/ FinishTrial(t) \/ RefuseAdmission(t)

QualificationNext ==
  \/ Planning \/ StartTrial \/ WriteLive \/ Retain \/ ReplayTrial \/ WriteResult \/ CommandKilled
  \/ \E t \in Trials : Driving(t) \/ Alter(t)
  \/ \E a \in Aspects : WorldChanges(a)
  \/ \E d \in Directories : EditPlan(d)

QualificationSpec == QualificationInit /\ [][QualificationNext]_qualificationVars

-----------------------------------------------------------------------------
(* Properties *)

\* Whatever is graded as the first attempt is what the first reviewer was shown: a repair that is
\* under way, or a snapshot of other bytes, never passes for it.
FirstAttemptWasReviewed ==
  result # NoRecord => \A t \in DOMAIN result.trials :
    LET r == result.trials[t] IN
      r.measured /\ CaseOf[t] = "dispatch-implementation" /\ FirstSeen(r.copy) # "absent" /\ r.outcome.first # "unavailable"
        => r.outcome.first = Verdict(FirstSeen(r.copy), result.plan.frozen["suite"])

\* The trials in which a dimension was measured are those the denominators call gradeable.
MeasuredIsGradeable ==
  result # NoRecord => Measured(result.trials) = Gradeable(result.trials)

\* inspect reports every altered or missing copy as a mismatch, also when the suite has changed
\* since, and finds a copy that nothing touched in order under the suite it was graded with.
InspectTells ==
  result # NoRecord => \A t \in DOMAIN result.trials :
    LET r == result.trials[t] IN
      /\ r.copy # NoRecord /\ evidence[t] # r.copy => Inspect(t) \in {"mismatch", "evidence-missing"}
      /\ r.copy # NoRecord /\ evidence[t] = r.copy => Inspect(t) # "mismatch"

=============================================================================
