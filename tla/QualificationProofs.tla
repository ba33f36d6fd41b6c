------------------------ MODULE QualificationProofs ------------------------
(***************************************************************************)
(* Proofs about qualification, for any plan and runs of any length.  When  *)
(* a tool loop passes, it ran, whatever rows are missing from what is      *)
(* retained: what is retained was recorded (RetainedInv), since nothing is *)
(* recorded after it, and the rows a decision is made on are of one        *)
(* session.  What a result says of a trial is the grade of a copy of a run *)
(* that was really driven (QualificationInv), which is what inspect, the   *)
(* first attempt of a dispatch and the denominators rest on.               *)
(***************************************************************************)
EXTENDS Qualification, ToolContinuation, FiniteSetTheorems, SequenceTheorems, WellFoundedInduction, TLAPS

RetainedInv == ~retained.open => retained.rows \subseteq Recorded

LEMMA RetainedStart == ContinuationInit => RetainedInv
BY DEF ContinuationInit, NotRetained, RetainedInv

LEMMA RetainedStep == RetainedInv /\ [ContinuationNext]_continuationVars => RetainedInv'
<1> SUFFICES ASSUME RetainedInv, [ContinuationNext]_continuationVars PROVE RetainedInv'  OBVIOUS
<1>1. CASE StartCall \/ ToolEnds \/ FinishCall
  BY <1>1 DEF StartCall, ToolEnds, FinishCall, RetainedInv
<1>2. CASE RetainRows
  <2>1. retained'.rows \subseteq Recorded /\ UNCHANGED calls  BY <1>2 DEF RetainRows
  <2>2. UNCHANGED Recorded  BY <2>1 DEF Recorded, Rows
  <2> QED  BY <2>1, <2>2 DEF RetainedInv
<1>3. CASE UNCHANGED continuationVars
  BY <1>3 DEF continuationVars, RetainedInv, Recorded, Rows
<1> QED  BY <1>1, <1>2, <1>3 DEF ContinuationNext

\* A decision that the loop continued rests on a call and a later one, of one session.
LEMMA DecidedOnCalls ==
  ASSUME Continuation # Undecided, Continuation
  PROVE  \E i, j \in DOMAIN calls :
           /\ i < j /\ calls[i].session = calls[j].session
           /\ retained.named => calls[i].session = "attempt"
           /\ calls[i].tool = "completed" /\ calls[i].reason = "tool-calls"
           /\ <<j, "step-finish">> \in retained.rows
<1> DEFINE sessions == {calls[r[1]].session : r \in retained.rows}
           session == IF retained.named THEN "attempt" ELSE CHOOSE s \in sessions : TRUE
           own == Own(retained.rows, session)
<1>1. \E i \in DOMAIN calls : ContinuedCall(own, i)
  BY DEF Continuation
<1>2. PICK i \in DOMAIN calls : ContinuedCall(own, i)  BY <1>1
<1>3. PICK j \in DOMAIN calls : j > i /\ Complete(own, j)  BY <1>2 DEF ContinuedCall
<1>4. /\ <<i, "tool">> \in own /\ <<j, "step-finish">> \in own
      /\ calls[i].tool = "completed" /\ calls[i].reason = "tool-calls"
  BY <1>2, <1>3 DEF ContinuedCall, Complete
<1>5. calls[i].session = session /\ calls[j].session = session /\ <<j, "step-finish">> \in retained.rows
  <2> HIDE DEF session
  <2> QED  BY <1>4 DEF Own
<1> QED  BY <1>3, <1>4, <1>5

\* A tool loop passes only if one really ran: a call whose tool completed ended in order to run
\* tools, and another whole call of the same session followed.
THEOREM PassedLoopsContinued == ContinuationSpec => []PassedMeansContinued
<1>1. RetainedInv => PassedMeansContinued
  <2> SUFFICES ASSUME RetainedInv, ~retained.open, Outcome = "pass"
               PROVE  \E i, j \in DOMAIN calls :
                        /\ i < j /\ calls[i].session = calls[j].session
                        /\ retained.named => calls[i].session = "attempt"
                        /\ calls[i].tool = "completed" /\ calls[i].reason = "tool-calls"
                        /\ calls[j].reason # NoReason
    BY DEF PassedMeansContinued
  <2>1. Continuation # Undecided /\ Continuation  BY DEF Outcome
  <2>2. PICK i, j \in DOMAIN calls :
           /\ i < j /\ calls[i].session = calls[j].session
           /\ retained.named => calls[i].session = "attempt"
           /\ calls[i].tool = "completed" /\ calls[i].reason = "tool-calls"
           /\ <<j, "step-finish">> \in retained.rows
    BY <2>1, DecidedOnCalls
  <2>3. calls[j].reason # NoReason  BY <2>2 DEF RetainedInv, Recorded
  <2> QED  BY <2>2, <2>3
<1> QED  BY <1>1, RetainedStart, RetainedStep, PTL DEF ContinuationSpec


-----------------------------------------------------------------------------
(* From a plan to its result.  What a measured trial was graded on is a run whose first review    *)
(* came after a gate, so that no implementer follows it and only a fixer writes again; and every  *)
(* trial of a written live.json was started, so that what is retained is such a run.              *)

PlanRecord == [mode : {"live", "replay"}, frozen : [Aspects -> {0, 1}], order : Orders,
               edited : BOOLEAN, status : {"replay", "authorized", "proposed"}]

\* After a review come reviewers and fixers; without a fixer nothing was written since the first.
Reviewed(e, t) ==
  LET s == e.attempts IN
  CaseOf[t] = "dispatch-implementation" =>
    /\ \A i \in DOMAIN s : s[i].role \in {"implementer", "reviewer", "fixer"}
    /\ \A i \in DOMAIN s : s[i].role = "reviewer" =>
         /\ \E j \in DOMAIN s : s[j].gated
         /\ \A j \in DOMAIN s : j > i => s[j].role # "implementer"
         /\ AttemptsOf(e, "fixer") = {} => e.artifact = FirstSeen(e)

\* A result that was measured is the grade of its copy, which is such a run.
Measures(r, t, p) ==
  /\ r.measured => r.copy \in Run /\ Reviewed(r.copy, t) /\ r.outcome = Grade(r.copy, t, p.frozen["suite"])
  /\ r.copy # NoRecord => r.measured

Started(t) == trialRuns[t] # NoRecord

PlansInv == world \in [Aspects -> {0, 1}] /\ plans \in [Directories -> {NoRecord} \cup PlanRecord]
RunsInv ==
  /\ trialRuns \in [Trials -> {NoRecord} \cup Run]
  /\ \A t \in Trials : Started(t) => Reviewed(trialRuns[t], t)
CommandInv ==
  /\ prepared # NoRecord =>
       prepared = [plan |-> prepared.plan, written |-> prepared.written] /\ prepared.plan \in PlanRecord
  /\ prepared # NoRecord /\ prepared.written => \A t \in Range(prepared.plan.order) : Started(t)
  /\ command # NoRecord =>
       /\ command = [kind |-> command.kind, plan |-> command.plan, next |-> command.next, done |-> command.done]
       /\ command.plan \in PlanRecord /\ command.next \in Nat \ {0}
       /\ \A t \in DOMAIN command.done : Measures(command.done[t], t, command.plan)
  /\ Doing("prepare") =>
       /\ prepared = [plan |-> command.plan, written |-> FALSE]
       /\ \A k \in DOMAIN command.plan.order : k < command.next => Started(command.plan.order[k])
  /\ Doing("grade") => \A t \in Range(command.plan.order) : Started(t)
ResultInv == result # NoRecord => \A t \in DOMAIN result.trials : Measures(result.trials[t], t, result.plan)

QualificationInv == PlansInv /\ RunsInv /\ CommandInv /\ ResultInv

LEMMA QualificationStart == QualificationInit => QualificationInv
BY DEF QualificationInit, QualificationInv, PlansInv, RunsInv, Started, CommandInv, Doing, ResultInv

LEMMA Smallest ==
  ASSUME NEW S, S \subseteq Nat, S # {}
  PROVE  \E i \in S : \A j \in S : i <= j
<1>1. PICK i \in S : \A j \in S : <<j, i>> \notin OpToRel(<, Nat)
  <2>1. PICK R : R = OpToRel(<, Nat)  OBVIOUS
  <2>2. IsWellFoundedOn(R, Nat)  BY <2>1, NatLessThanWellFounded
  <2>3. \E i \in S : \A j \in S : <<j, i>> \notin R  BY <2>2, WFMin
  <2> QED  BY <2>1, <2>3
<1>2. \A j \in S : ~(j < i)  BY <1>1 DEF OpToRel
<1> QED  BY <1>2

\* What happens to an attempt after its launch leaves its role and what it saw.
LEMMA TouchedAttempt ==
  ASSUME NEW t \in Trials, NEW e \in Run, Reviewed(e, t), NEW n \in DOMAIN e.attempts, NEW x \in Attempt,
         x.role = e.attempts[n].role, x.seen = e.attempts[n].seen, e.attempts[n].gated => x.gated,
         NEW f \in Run, f.attempts = [e.attempts EXCEPT ![n] = x], f.artifact = e.artifact
  PROVE  Reviewed(f, t)
<1>1. DOMAIN f.attempts = DOMAIN e.attempts
      /\ \A i \in DOMAIN e.attempts : /\ f.attempts[i].role = e.attempts[i].role
                                      /\ f.attempts[i].seen = e.attempts[i].seen
                                      /\ e.attempts[i].gated => f.attempts[i].gated
  OBVIOUS
<1>2. AttemptsOf(f, "fixer") = AttemptsOf(e, "fixer") /\ AttemptsOf(f, "reviewer") = AttemptsOf(e, "reviewer")
  BY <1>1 DEF AttemptsOf
<1>3. ASSUME AttemptsOf(e, "reviewer") # {} PROVE FirstSeen(f) = FirstSeen(e)
  <2> DEFINE i == Min(AttemptsOf(e, "reviewer"))
  <2>1. FirstSeen(f) = f.attempts[i].seen /\ FirstSeen(e) = e.attempts[i].seen
    BY <1>2, <1>3 DEF FirstSeen
  <2>2. CASE i \in DOMAIN e.attempts  BY <1>1, <2>1, <2>2
  <2>3. i \in DOMAIN e.attempts
    <3>1. AttemptsOf(e, "reviewer") \subseteq DOMAIN e.attempts  BY DEF AttemptsOf
    <3>2. AttemptsOf(e, "reviewer") \subseteq Nat
      BY <3>1, LenProperties DEF Run
    <3>3. \E k \in AttemptsOf(e, "reviewer") : \A j \in AttemptsOf(e, "reviewer") : k <= j
      BY <1>3, <3>2, Smallest
    <3> QED  BY <3>1, <3>3 DEF Min
  <2> QED  BY <2>2, <2>3
<1>4. \A i : i \in DOMAIN e.attempts /\ e.attempts[i].role = "reviewer" => AttemptsOf(e, "reviewer") # {}
  BY DEF AttemptsOf
<1> QED  BY <1>1, <1>2, <1>3, <1>4 DEF Reviewed


\* A step of one run: what follows of it for all of them.
DrivenTo(t, f) ==
  /\ f \in Run /\ Reviewed(f, t) /\ trialRuns' = [trialRuns EXCEPT ![t] = f]
  /\ UNCHANGED <<world, plans, command, prepared, result>>

LEMMA RunAsDriven ==
  ASSUME RunsInv, NEW t \in Trials, Driven(t)
  PROVE  /\ trialRuns[t] \in Run /\ Reviewed(trialRuns[t], t)
         /\ trialRuns[t].attempts \in Seq(Attempt) /\ Len(trialRuns[t].attempts) \in Nat
         /\ DOMAIN trialRuns[t].attempts = 1 .. Len(trialRuns[t].attempts)
         /\ trialRuns[t].attempts # <<>> => Len(trialRuns[t].attempts) \in DOMAIN trialRuns[t].attempts
<1>1. trialRuns[t] \in Run /\ Reviewed(trialRuns[t], t)  BY DEF RunsInv, Driven, Started
<1>2. PICK s \in Seq(Attempt) : s = trialRuns[t].attempts  BY <1>1 DEF Run
<1>3. Len(s) \in Nat /\ DOMAIN s = 1 .. Len(s) /\ (s # <<>> => Len(s) # 0)
  BY LenProperties, EmptySeq
<1> QED  BY <1>1, <1>2, <1>3

\* Steps of the last attempt.
LEMMA EndAttemptDrives ==
  ASSUME RunsInv, NEW t \in Trials, NEW report \in ReviewReports, EndAttempt(t, report)
  PROVE  \E f : DrivenTo(t, f)
<1>1. PICK e, n : e = trialRuns[t] /\ n = Len(e.attempts)  OBVIOUS
<1>2. e \in Run /\ Reviewed(e, t) /\ e.attempts \in Seq(Attempt) /\ n \in DOMAIN e.attempts /\ DOMAIN e.attempts = 1 .. Len(e.attempts)
  BY <1>1, RunAsDriven DEF EndAttempt, Open
<1>3. PICK x : x = [e.attempts[n] EXCEPT !.ended = TRUE, !.report = report]  OBVIOUS
<1>4. e.attempts[n] \in Attempt  BY <1>2, ElementOfSeq
<1>5. x \in Attempt /\ x.role = e.attempts[n].role /\ x.seen = e.attempts[n].seen /\ x.gated = e.attempts[n].gated
  BY <1>3, <1>4 DEF Attempt
<1>6. PICK f : f = [e EXCEPT !.attempts = [e.attempts EXCEPT ![n] = x]]  OBVIOUS
<1>7. [e.attempts EXCEPT ![n] = x] \in Seq(Attempt)  BY <1>2, <1>5, ExceptSeq
<1>8. f \in Run /\ f.attempts = [e.attempts EXCEPT ![n] = x] /\ f.artifact = e.artifact
  BY <1>2, <1>6, <1>7 DEF Run
<1>9. Reviewed(f, t)  BY <1>2, <1>5, <1>8, TouchedAttempt
<1>10. trialRuns' = [trialRuns EXCEPT ![t] = f]
  <2>1. t \in DOMAIN trialRuns /\ "attempts" \in DOMAIN e /\ DOMAIN e.attempts[n] = DOMAIN x
    BY <1>2, <1>4, <1>5 DEF RunsInv, Run, Attempt
  <2>2. trialRuns' = [trialRuns EXCEPT ![t].attempts[n] = [@ EXCEPT !.ended = TRUE, !.report = report]]
    BY <1>1 DEF EndAttempt
  <2>3. PICK trial, as : trial = trialRuns[t] /\ as = [trial.attempts EXCEPT ![n] = x]  OBVIOUS
  <2>4. trialRuns' = [trialRuns EXCEPT ![t] = [trial EXCEPT !.attempts = as]]
    <3>1. x = [trial.attempts[n] EXCEPT !.ended = TRUE, !.report = report]  BY <1>1, <1>3, <2>3
    <3>2. t \in DOMAIN trialRuns /\ "attempts" \in DOMAIN trial /\ n \in DOMAIN trial.attempts
      BY <1>1, <1>2, <2>1, <2>3
    <3>3. trialRuns' = [trialRuns EXCEPT ![t].attempts[n] = x]  BY <2>2, <2>3, <3>1, <3>2
    <3> QED  BY <2>3, <3>2, <3>3
  <2> QED  BY <1>1, <1>6, <2>3, <2>4
<1> QED  BY <1>8, <1>9, <1>10 DEF DrivenTo, EndAttempt

LEMMA ClassifyDrives ==
  ASSUME RunsInv, NEW t \in Trials, Classify(t)
  PROVE  \E f : DrivenTo(t, f)
<1>1. PICK e, n : e = trialRuns[t] /\ n = Len(e.attempts)  OBVIOUS
<1>2. e \in Run /\ Reviewed(e, t) /\ e.attempts \in Seq(Attempt) /\ n \in DOMAIN e.attempts /\ DOMAIN e.attempts = 1 .. Len(e.attempts)
  BY <1>1, RunAsDriven DEF Classify, Open
<1>3. PICK x : x = [e.attempts[n] EXCEPT !.classified = TRUE]  OBVIOUS
<1>4. e.attempts[n] \in Attempt  BY <1>2, ElementOfSeq
<1>5. x \in Attempt /\ x.role = e.attempts[n].role /\ x.seen = e.attempts[n].seen /\ x.gated = e.attempts[n].gated
  BY <1>3, <1>4 DEF Attempt
<1>6. PICK f : f = [e EXCEPT !.attempts = [e.attempts EXCEPT ![n] = x]]  OBVIOUS
<1>7. [e.attempts EXCEPT ![n] = x] \in Seq(Attempt)  BY <1>2, <1>5, ExceptSeq
<1>8. f \in Run /\ f.attempts = [e.attempts EXCEPT ![n] = x] /\ f.artifact = e.artifact
  BY <1>2, <1>6, <1>7 DEF Run
<1>9. Reviewed(f, t)  BY <1>2, <1>5, <1>8, TouchedAttempt
<1>10. trialRuns' = [trialRuns EXCEPT ![t] = f]  BY <1>1, <1>3, <1>6 DEF Classify
<1> QED  BY <1>8, <1>9, <1>10 DEF DrivenTo, Classify

LEMMA GateAttemptDrives ==
  ASSUME RunsInv, NEW t \in Trials, GateAttempt(t)
  PROVE  \E f : DrivenTo(t, f)
<1>1. PICK e, n : e = trialRuns[t] /\ n = Len(e.attempts)  OBVIOUS
<1>2. e \in Run /\ Reviewed(e, t) /\ e.attempts \in Seq(Attempt) /\ n \in DOMAIN e.attempts /\ DOMAIN e.attempts = 1 .. Len(e.attempts)
  BY <1>1, RunAsDriven DEF GateAttempt
<1>3. PICK x : x = [e.attempts[n] EXCEPT !.gated = TRUE]  OBVIOUS
<1>4. e.attempts[n] \in Attempt  BY <1>2, ElementOfSeq
<1>5. x \in Attempt /\ x.role = e.attempts[n].role /\ x.seen = e.attempts[n].seen /\ x.gated
  BY <1>3, <1>4 DEF Attempt
<1>6. PICK kept \in {e.snapshot, e.artifact} :
        trialRuns' = [trialRuns EXCEPT ![t].attempts[n].gated = TRUE, ![t].snapshot = kept]
  BY <1>1 DEF GateAttempt
<1>7. PICK f : f = [e EXCEPT !.attempts = [e.attempts EXCEPT ![n] = x], !.snapshot = kept]  OBVIOUS
<1>8. [e.attempts EXCEPT ![n] = x] \in Seq(Attempt)  BY <1>2, <1>5, ExceptSeq
<1>9. f \in Run /\ f.attempts = [e.attempts EXCEPT ![n] = x] /\ f.artifact = e.artifact
  BY <1>2, <1>7, <1>8 DEF Run
<1>10. Reviewed(f, t)  BY <1>2, <1>5, <1>9, TouchedAttempt
<1>11. trialRuns' = [trialRuns EXCEPT ![t] = f]  BY <1>1, <1>3, <1>6, <1>7
<1> QED  BY <1>9, <1>10, <1>11 DEF DrivenTo, GateAttempt

\* What the first reviewer saw depends on the attempts alone.
LEMMA SameAttemptsSameReview ==
  ASSUME NEW e, NEW f, f.attempts = e.attempts
  PROVE  FirstSeen(f) = FirstSeen(e)
<1>1. AttemptsOf(f, "reviewer") = AttemptsOf(e, "reviewer")  BY DEF AttemptsOf
<1> QED  BY <1>1 DEF FirstSeen

\* Steps of the run that leave its attempts.
LEMMA DecisionsDrive ==
  ASSUME RunsInv, NEW t \in Trials,
         \/ \E decision \in {"accept", "repair", "owner"} : Decide(t, decision)
         \/ FinishTrial(t) \/ RefuseAdmission(t)
  PROVE  \E f : DrivenTo(t, f)
<1>1. PICK e : e = trialRuns[t]  OBVIOUS
<1>2. e \in Run /\ Reviewed(e, t)
  BY <1>1, RunAsDriven DEF Decide, FinishTrial, RefuseAdmission
<1>3. PICK f : /\ \/ \E decision \in {"accept", "repair", "owner"} : f = [e EXCEPT !.decision = decision]
                  \/ \E outcome \in {"accepted", "blocked"} : f = [e EXCEPT !.delivered = outcome]
                  \/ f = [e EXCEPT !.refused = TRUE]
               /\ trialRuns' = [trialRuns EXCEPT ![t] = f]
  <2>1. CASE \E decision \in {"accept", "repair", "owner"} : Decide(t, decision)
    <3>1. PICK decision \in {"accept", "repair", "owner"} : Decide(t, decision)  BY <2>1
    <3>2. trialRuns' = [trialRuns EXCEPT ![t] = [e EXCEPT !.decision = decision]]
      BY <1>1, <3>1 DEF Decide
    <3> QED  BY <3>2
  <2>2. CASE FinishTrial(t)
    <3>1. PICK outcome \in {"accepted", "blocked"} : trialRuns' = [trialRuns EXCEPT ![t].delivered = outcome]
      BY <2>2 DEF FinishTrial
    <3>2. trialRuns' = [trialRuns EXCEPT ![t] = [e EXCEPT !.delivered = outcome]]  BY <1>1, <3>1
    <3> QED  BY <3>2
  <2>3. CASE RefuseAdmission(t)
    <3>1. trialRuns' = [trialRuns EXCEPT ![t] = [e EXCEPT !.refused = TRUE]]
      BY <1>1, <2>3 DEF RefuseAdmission
    <3> QED  BY <3>1
  <2> QED  BY <2>1, <2>2, <2>3
<1>4. f \in Run /\ f.attempts = e.attempts /\ f.artifact = e.artifact
  BY <1>2, <1>3 DEF Run
<1>5. Reviewed(f, t)
  <2>1. \A role : AttemptsOf(f, role) = AttemptsOf(e, role)  BY <1>4 DEF AttemptsOf
  <2>2. FirstSeen(f) = FirstSeen(e)  BY <1>4, SameAttemptsSameReview
  <2> QED  BY <1>2, <1>4, <2>1, <2>2 DEF Reviewed
<1>6. UNCHANGED <<world, plans, command, prepared, result>>
  BY DEF Decide, FinishTrial, RefuseAdmission
<1> QED  BY <1>3, <1>4, <1>5, <1>6 DEF DrivenTo


LEMMA FirstSeenIs ==
  ASSUME NEW e, AttemptsOf(e, "reviewer") \subseteq Nat, NEW i \in AttemptsOf(e, "reviewer"),
         \A j \in AttemptsOf(e, "reviewer") : i <= j
  PROVE  FirstSeen(e) = e.attempts[i].seen
<1> DEFINE first == Min(AttemptsOf(e, "reviewer"))
<1>1. first \in AttemptsOf(e, "reviewer") /\ \A j \in AttemptsOf(e, "reviewer") : first <= j
  BY DEF Min
<1>2. FirstSeen(e) = e.attempts[first].seen  BY DEF FirstSeen
<1> HIDE DEF first
<1>3. first = i  BY <1>1
<1> QED  BY <1>2, <1>3

\* A producer at work after a review is a fixer.
LEMMA WriteDrives ==
  ASSUME RunsInv, NEW t \in Trials, NEW bytes \in {"sound", "defective"}, Write(t, bytes)
  PROVE  \E f : DrivenTo(t, f)
<1>1. PICK e, n : e = trialRuns[t] /\ n = Len(e.attempts)  OBVIOUS
<1>2. /\ e \in Run /\ Reviewed(e, t) /\ n \in DOMAIN e.attempts /\ DOMAIN e.attempts = 1 .. n /\ n \in Nat
  BY <1>1, RunAsDriven DEF Write, Open
<1>3. e.attempts[n].role \in Producers  BY <1>1 DEF Write, Last
<1>4. PICK f : f = [e EXCEPT !.artifact = bytes]  OBVIOUS
<1>5. f \in Run /\ f.attempts = e.attempts  BY <1>2, <1>4 DEF Run, Bytes
<1>6. ASSUME CaseOf[t] = "dispatch-implementation", NEW i \in DOMAIN e.attempts, e.attempts[i].role = "reviewer"
      PROVE  AttemptsOf(e, "fixer") # {}
  <2>1. e.attempts[n].role \in {"implementer", "reviewer", "fixer"} \cap Producers
    BY <1>2, <1>3, <1>6 DEF Reviewed
  <2>2. i < n  BY <1>2, <1>6, <2>1 DEF Producers
  <2>3. e.attempts[n].role = "fixer"  BY <1>2, <1>6, <2>1, <2>2 DEF Reviewed, Producers
  <2> QED  BY <1>2, <2>3 DEF AttemptsOf
<1>7. AttemptsOf(f, "fixer") = AttemptsOf(e, "fixer")  BY <1>5 DEF AttemptsOf
<1>8. Reviewed(f, t)  BY <1>2, <1>5, <1>6, <1>7 DEF Reviewed
<1>9. trialRuns' = [trialRuns EXCEPT ![t] = f]  BY <1>1, <1>4 DEF Write
<1> QED  BY <1>5, <1>8, <1>9 DEF DrivenTo, Write

LEMMA NextRoleIs ==
  ASSUME NEW t \in Trials
  PROVE  /\ NextRole(t) \in Producers \cup {"spec-reflector", "reviewer", "none"}
         /\ CaseOf[t] = "dispatch-implementation" =>
              IF \E i \in DOMAIN trialRuns[t].attempts : trialRuns[t].attempts[i].gated
              THEN NextRole(t) # "implementer" /\ NextRole(t) \in {"reviewer", "fixer", "none"}
              ELSE NextRole(t) = "implementer"
<1> DEFINE gated == {i \in DOMAIN trialRuns[t].attempts : trialRuns[t].attempts[i].gated}
           role == trialRuns[t].attempts[Max(gated)].role
           first == IF CaseOf[t] \in {"tool-loop", "requirements-challenge"} THEN "spec-author" ELSE "implementer"
           review == IF first = "spec-author" THEN "spec-reflector" ELSE "reviewer"
<1>1. NextRole(t) = CASE gated = {} -> first
        [] gated # {} /\ role \in Producers -> review
        [] gated # {} /\ role \notin Producers -> IF trialRuns[t].decision = "repair" THEN "fixer" ELSE "none"
  BY DEF NextRole
<1>2. gated # {} <=> \E i \in DOMAIN trialRuns[t].attempts : trialRuns[t].attempts[i].gated  OBVIOUS
<1> HIDE DEF gated, role
<1> QED  BY <1>1, <1>2 DEF Producers

\* A review is launched after a gate, of the artifact as it is.
LEMMA LaunchDrives ==
  ASSUME RunsInv, NEW t \in Trials, LaunchAttempt(t)
  PROVE  \E f : DrivenTo(t, f)
<1>1. PICK e, n : e = trialRuns[t] /\ n = Len(e.attempts)  OBVIOUS
<1>2. /\ e \in Run /\ Reviewed(e, t) /\ e.attempts \in Seq(Attempt) /\ n \in Nat /\ DOMAIN e.attempts = 1 .. n
  BY <1>1, RunAsDriven DEF LaunchAttempt
<1>3. PICK role : role = NextRole(t)  OBVIOUS
<1>4. /\ role \in Producers \cup {"spec-reflector", "reviewer"}
      /\ CaseOf[t] = "dispatch-implementation" =>
           IF \E i \in DOMAIN e.attempts : e.attempts[i].gated THEN role \in {"reviewer", "fixer"}
           ELSE role = "implementer"
  BY <1>1, <1>3, NextRoleIs DEF LaunchAttempt
<1>5. PICK x : x = [role |-> role, ended |-> FALSE, classified |-> FALSE, gated |-> FALSE, report |-> "none",
                    seen |-> IF role \in Producers THEN "absent" ELSE e.artifact]
  OBVIOUS
<1>6. x \in Attempt /\ x.role = role /\ (role \notin Producers => x.seen = e.artifact)
  BY <1>2, <1>4, <1>5 DEF Attempt, Run, Bytes, ReviewReports
<1>7. PICK decision \in {e.decision, "none"} :
        trialRuns' = [trialRuns EXCEPT ![t].attempts = Append(@, x), ![t].decision = decision]
  BY <1>1, <1>3, <1>5 DEF LaunchAttempt
<1>8. PICK s : s = Append(e.attempts, x)  OBVIOUS
<1>9. /\ s \in Seq(Attempt) /\ Len(s) = n + 1 /\ DOMAIN s = 1 .. (n + 1)
      /\ \A i \in 1 .. n : s[i] = e.attempts[i]
      /\ s[n + 1] = x
  <2>1. PICK r \in Seq(Attempt) : r = e.attempts  BY <1>2
  <2>2. /\ Append(r, x) \in Seq(Attempt) /\ Len(Append(r, x)) = Len(r) + 1
        /\ \A i \in 1 .. Len(r) : Append(r, x)[i] = r[i]
        /\ Append(r, x)[Len(r) + 1] = x
    BY <1>6, AppendProperties
  <2>3. s \in Seq(Attempt) /\ Len(s) = n + 1  BY <1>1, <1>8, <2>1, <2>2
  <2> QED  BY <1>1, <1>8, <2>1, <2>2, <2>3, LenProperties
<1>10. PICK f : f = [e EXCEPT !.attempts = s, !.decision = decision]  OBVIOUS
<1>11. f \in Run /\ f.attempts = s /\ f.artifact = e.artifact
  BY <1>2, <1>7, <1>9, <1>10 DEF Run
<1>12. trialRuns' = [trialRuns EXCEPT ![t] = f]
  BY <1>1, <1>2, <1>7, <1>8, <1>10 DEF RunsInv, Run
<1>13. \A r : AttemptsOf(e, r) \subseteq AttemptsOf(f, r) /\ AttemptsOf(f, r) \subseteq AttemptsOf(e, r) \cup {n + 1}
  BY <1>2, <1>9, <1>11 DEF AttemptsOf
<1>14. AttemptsOf(f, "reviewer") \subseteq 1 .. (n + 1) /\ AttemptsOf(e, "reviewer") \subseteq 1 .. n
  BY <1>2, <1>9, <1>11 DEF AttemptsOf
<1>15. ASSUME AttemptsOf(e, "reviewer") # {} PROVE FirstSeen(f) = FirstSeen(e)
  <2>1. PICK i \in AttemptsOf(e, "reviewer") : \A j \in AttemptsOf(e, "reviewer") : i <= j
    BY <1>2, <1>14, <1>15, Smallest
  <2>2. FirstSeen(e) = e.attempts[i].seen  BY <1>2, <1>14, <2>1, FirstSeenIs
  <2>3. i \in AttemptsOf(f, "reviewer") /\ \A j \in AttemptsOf(f, "reviewer") : i <= j
    BY <1>2, <1>13, <1>14, <2>1
  <2>4. FirstSeen(f) = f.attempts[i].seen  BY <1>2, <1>14, <2>3, FirstSeenIs
  <2> QED  BY <1>9, <1>11, <1>14, <2>1, <2>2, <2>4
<1>16. ASSUME AttemptsOf(e, "reviewer") = {}, role = "reviewer" PROVE FirstSeen(f) = e.artifact
  <2>1. AttemptsOf(f, "reviewer") = {n + 1}
    BY <1>2, <1>6, <1>9, <1>11, <1>13, <1>16 DEF AttemptsOf
  <2>2. FirstSeen(f) = f.attempts[n + 1].seen  BY <1>2, <2>1, FirstSeenIs
  <2> QED  BY <1>6, <1>9, <1>11, <1>16, <2>2 DEF Producers
<1>17. ASSUME CaseOf[t] = "dispatch-implementation" PROVE Reviewed(f, t)
  <2>1. \A i \in DOMAIN s : s[i].role \in {"implementer", "reviewer", "fixer"}
    BY <1>2, <1>4, <1>6, <1>9, <1>17 DEF Reviewed
  <2>2. ASSUME NEW i \in DOMAIN s, s[i].role = "reviewer"
        PROVE  \E j \in DOMAIN e.attempts : e.attempts[j].gated
    <3>1. CASE i \in DOMAIN e.attempts  BY <1>2, <1>9, <1>17, <2>2, <3>1 DEF Reviewed
    <3>2. CASE i = n + 1  BY <1>4, <1>6, <1>9, <1>17, <2>2, <3>2
    <3> QED  BY <1>2, <1>9, <3>1, <3>2
  <2>3. ASSUME NEW i \in DOMAIN s, s[i].role = "reviewer", NEW j \in DOMAIN s, j > i
        PROVE  s[j].role # "implementer"
    <3>1. CASE j = n + 1  BY <1>4, <1>6, <1>9, <1>17, <2>2, <2>3, <3>1
    <3>2. CASE j \in 1 .. n  BY <1>2, <1>9, <1>17, <2>3, <3>2 DEF Reviewed
    <3> QED  BY <1>2, <1>9, <3>1, <3>2
  <2>4. ASSUME NEW i \in DOMAIN s, s[i].role = "reviewer", AttemptsOf(f, "fixer") = {}
        PROVE  f.artifact = FirstSeen(f)
    <3>1. CASE AttemptsOf(e, "reviewer") # {}
      <4>1. AttemptsOf(e, "fixer") = {}  BY <1>13, <2>4
      <4>2. e.artifact = FirstSeen(e)  BY <1>2, <1>17, <3>1, <4>1 DEF Reviewed, AttemptsOf
      <4> QED  BY <1>11, <1>15, <3>1, <4>2
    <3>2. CASE AttemptsOf(e, "reviewer") = {}
      <4>1. i = n + 1  BY <1>2, <1>9, <2>4, <3>2 DEF AttemptsOf
      <4> QED  BY <1>6, <1>9, <1>11, <1>16, <2>4, <3>2, <4>1
    <3> QED  BY <3>1, <3>2
  <2>5. \A i \in DOMAIN s : s[i].role = "reviewer" => \E j \in DOMAIN s : s[j].gated
    BY <1>2, <1>9, <2>2
  <2> QED  BY <1>11, <2>1, <2>3, <2>4, <2>5 DEF Reviewed
<1>18. Reviewed(f, t)
  <2>1. CASE CaseOf[t] # "dispatch-implementation"  BY <2>1 DEF Reviewed
  <2> QED  BY <1>17, <2>1
<1> QED  BY <1>11, <1>12, <1>18 DEF DrivenTo, LaunchAttempt


LEMMA DrivingDrives ==
  ASSUME RunsInv, NEW t \in Trials, Driving(t)
  PROVE  \E f : DrivenTo(t, f)
<1>1. CASE LaunchAttempt(t)  BY <1>1, LaunchDrives
<1>2. CASE \E bytes \in {"sound", "defective"} : Write(t, bytes)  BY <1>2, WriteDrives
<1>3. CASE \E report \in ReviewReports : EndAttempt(t, report)  BY <1>3, EndAttemptDrives
<1>4. CASE Classify(t)  BY <1>4, ClassifyDrives
<1>5. CASE GateAttempt(t)  BY <1>5, GateAttemptDrives
<1>6. CASE \/ \E decision \in {"accept", "repair", "owner"} : Decide(t, decision)
           \/ FinishTrial(t) \/ RefuseAdmission(t)
  BY <1>6, DecisionsDrive
<1> QED  BY <1>1, <1>2, <1>3, <1>4, <1>5, <1>6 DEF Driving

LEMMA PlannedTrials ==
  ASSUME NEW p \in PlanRecord
  PROVE  /\ p.order \in Seq(Trials) /\ DOMAIN p.order = 1 .. Len(p.order) /\ Len(p.order) \in Nat
         /\ Range(p.order) \subseteq Trials /\ \A k \in DOMAIN p.order : p.order[k] \in Range(p.order)
<1>1. PICK order \in Seq(Trials) : order = p.order  BY QualificationAssumption DEF PlanRecord
<1>2. DOMAIN order = 1 .. Len(order) /\ Len(order) \in Nat /\ \A k \in 1 .. Len(order) : order[k] \in Trials
  BY LenProperties, ElementOfSeq
<1> QED  BY <1>1, <1>2 DEF Range

\* A run that is started or driven: no run stops being one.
LEMMA RunStepKeepsRuns ==
  ASSUME RunsInv, NEW t \in Trials, NEW f \in Run, Reviewed(f, t), trialRuns' = [trialRuns EXCEPT ![t] = f]
  PROVE  RunsInv' /\ Started(t)' /\ \A s \in Trials : Started(s) => Started(s)'
<1>1. f # NoRecord  BY QualificationAssumption
<1>2. trialRuns' \in [Trials -> {NoRecord} \cup Run]  BY DEF RunsInv
<1>3. \A s \in Trials : trialRuns'[s] = IF s = t THEN f ELSE trialRuns[s]  BY DEF RunsInv
<1>4. \A s \in Trials : (trialRuns'[s] # NoRecord => Reviewed(trialRuns'[s], s))
  BY <1>3 DEF RunsInv, Started
<1> QED  BY <1>1, <1>2, <1>3, <1>4 DEF RunsInv, Started

LEMMA RunStepKeepsCommand ==
  ASSUME CommandInv, \A s \in Trials : Started(s) => Started(s)', UNCHANGED <<command, prepared>>
  PROVE  CommandInv'
<1>1. ASSUME prepared # NoRecord, prepared.written PROVE \A t \in Range(prepared.plan.order) : Started(t)'
  BY <1>1, PlannedTrials DEF CommandInv
<1>2. ASSUME Doing("prepare")
      PROVE  \A k \in DOMAIN command.plan.order : k < command.next => Started(command.plan.order[k])'
  BY <1>2, PlannedTrials DEF CommandInv, Doing
<1>3. ASSUME Doing("grade") PROVE \A t \in Range(command.plan.order) : Started(t)'
  BY <1>3, PlannedTrials DEF CommandInv, Doing
<1>4. ASSUME command # NoRecord PROVE \A t \in DOMAIN command.done : Measures(command.done[t], t, command.plan)
  BY <1>4 DEF CommandInv
<1>5. prepared # NoRecord =>
       prepared = [plan |-> prepared.plan, written |-> prepared.written] /\ prepared.plan \in PlanRecord
  BY DEF CommandInv
<1>6. command # NoRecord =>
       /\ command = [kind |-> command.kind, plan |-> command.plan, next |-> command.next, done |-> command.done]
       /\ command.plan \in PlanRecord /\ command.next \in Nat \ {0}
  BY DEF CommandInv
<1>7. Doing("prepare") => prepared = [plan |-> command.plan, written |-> FALSE]
  BY DEF CommandInv
<1>8. command' = command /\ prepared' = prepared  OBVIOUS
<1> QED  BY <1>1, <1>2, <1>3, <1>4, <1>5, <1>6, <1>7, <1>8 DEF CommandInv, Doing, Started

LEMMA DrivingKeepsInv ==
  ASSUME QualificationInv, NEW t \in Trials, Driving(t)
  PROVE  QualificationInv'
<1>1. PICK f : DrivenTo(t, f)  BY DrivingDrives DEF QualificationInv
<1>2. RunsInv' /\ \A s \in Trials : Started(s) => Started(s)'
  BY <1>1, RunStepKeepsRuns DEF QualificationInv, DrivenTo
<1>3. CommandInv'  BY <1>1, <1>2, RunStepKeepsCommand DEF QualificationInv, DrivenTo
<1>4. PlansInv' /\ ResultInv'  BY <1>1 DEF QualificationInv, DrivenTo, PlansInv, ResultInv
<1> QED  BY <1>2, <1>3, <1>4 DEF QualificationInv


\* Plans, and changes that nobody asked for, are of none of the runs.
LEMMA PlanningKeepsInv ==
  ASSUME QualificationInv,
         \/ \E d \in Directories, mode \in {"live", "replay"}, owner, asProposal \in BOOLEAN, order \in Orders :
              Plan(d, mode, owner, asProposal, order)
         \/ AuthorizeProposal("proposal", "plan")
         \/ \E a \in Aspects : WorldChanges(a)
         \/ \E d \in Directories : EditPlan(d)
         \/ \E t \in Trials : Alter(t)
  PROVE  QualificationInv'
<1>1. UNCHANGED <<command, prepared, trialRuns, result>>
  BY DEF Plan, AuthorizeProposal, WorldChanges, EditPlan, Alter
<1>2. RunsInv' /\ \A s \in Trials : Started(s) => Started(s)'
  BY <1>1 DEF QualificationInv, RunsInv, Started
<1>3. CommandInv' /\ ResultInv'  BY <1>1, <1>2, RunStepKeepsCommand DEF QualificationInv, ResultInv
<1>4. PlansInv'
  <2> USE DEF QualificationInv, PlansInv
  <2>1. CASE \E d \in Directories, mode \in {"live", "replay"}, owner, asProposal \in BOOLEAN, order \in Orders :
               Plan(d, mode, owner, asProposal, order)
    <3>1. PICK d \in Directories, mode \in {"live", "replay"}, owner \in BOOLEAN, asProposal \in BOOLEAN, order \in Orders :
            Plan(d, mode, owner, asProposal, order)
      BY <2>1
    <3>2. PICK p : p = [mode |-> mode, frozen |-> world, order |-> order, edited |-> FALSE,
                        status |-> IF mode = "replay" THEN "replay" ELSE IF owner THEN "authorized" ELSE "proposed"]
      OBVIOUS
    <3>3. p \in PlanRecord  BY <3>2 DEF PlanRecord
    <3>4. plans' = [plans EXCEPT ![d] = p] /\ world' = world  BY <3>1, <3>2 DEF Plan
    <3> QED  BY <3>3, <3>4
  <2>2. CASE AuthorizeProposal("proposal", "plan")
    <3>1. plans["proposal"] \in PlanRecord  BY <2>2 DEF AuthorizeProposal, Loads, Directories
    <3>2. [plans["proposal"] EXCEPT !.status = "authorized"] \in PlanRecord  BY <3>1 DEF PlanRecord
    <3> QED  BY <2>2, <3>2 DEF AuthorizeProposal
  <2>3. CASE \E a \in Aspects : WorldChanges(a)  BY <2>3 DEF WorldChanges
  <2>4. CASE \E d \in Directories : EditPlan(d)
    <3>1. PICK d \in Directories : EditPlan(d)  BY <2>4
    <3>2. plans[d] \in PlanRecord  BY <3>1 DEF EditPlan, Loads
    <3>3. [plans[d] EXCEPT !.edited = TRUE] \in PlanRecord  BY <3>2 DEF PlanRecord
    <3>4. plans' = [plans EXCEPT ![d] = [plans[d] EXCEPT !.edited = TRUE]] /\ world' = world
      BY <3>1 DEF EditPlan
    <3> QED  BY <3>3, <3>4
  <2>5. CASE \E t \in Trials : Alter(t)  BY <2>5 DEF Alter
  <2> QED  BY <2>1, <2>2, <2>3, <2>4, <2>5
<1> QED  BY <1>2, <1>3, <1>4 DEF QualificationInv

LEMMA BeginKeepsInv ==
  ASSUME QualificationInv, BeginLive("plan") \/ BeginReplay("plan") \/ BeginGrade("plan")
  PROVE  QualificationInv'
<1>1. UNCHANGED <<world, plans, trialRuns, result>>  BY DEF BeginLive, BeginReplay, BeginGrade
<1>2. PlansInv' /\ RunsInv' /\ ResultInv'
  BY <1>1 DEF QualificationInv, PlansInv, RunsInv, ResultInv, Started
<1>3. PICK p : p = plans["plan"]  OBVIOUS
<1>4. p \in PlanRecord
  BY <1>3 DEF QualificationInv, PlansInv, BeginLive, BeginReplay, BeginGrade, Loads, Directories
<1>5. PICK kind \in {"prepare", "replay", "grade"} : command' = [kind |-> kind, plan |-> p, next |-> 1, done |-> <<>>]
  BY <1>3 DEF BeginLive, BeginReplay, BeginGrade, Begin
<1>6. \/ kind \in {"prepare", "replay"} /\ prepared' = [plan |-> p, written |-> FALSE]
      \/ kind = "grade" /\ prepared' = prepared /\ prepared # NoRecord /\ prepared.written /\ prepared.plan = p
  BY <1>3, <1>5 DEF BeginLive, BeginReplay, BeginGrade, Begin
<1>7. command'.kind = kind /\ command'.plan = p /\ command'.next = 1 /\ command'.done = <<>>  BY <1>5
<1>8. \A k \in DOMAIN p.order : ~(k < 1)  BY <1>4, PlannedTrials
<1>9. DOMAIN <<>> = {}  BY EmptySeq
<1>10. ASSUME kind = "grade" PROVE CommandInv'
  <2>1. \A t \in Range(p.order) : Started(t)  BY <1>6, <1>10 DEF QualificationInv, CommandInv
  <2> QED  BY <1>1, <1>4, <1>5, <1>6, <1>7, <1>9, <1>10, <2>1
           DEF QualificationInv, CommandInv, Doing, Started
<1>11. ASSUME kind \in {"prepare", "replay"} PROVE CommandInv'
  BY <1>1, <1>4, <1>5, <1>6, <1>7, <1>8, <1>9, <1>11 DEF CommandInv, Doing
<1> QED  BY <1>2, <1>5, <1>10, <1>11 DEF QualificationInv

LEMMA StartTrialKeepsInv ==
  ASSUME QualificationInv, StartTrial
  PROVE  QualificationInv'
<1>1. UNCHANGED <<world, plans, prepared, result>>  BY DEF StartTrial
<1>2. PICK t, p : t = Current /\ p = command.plan  OBVIOUS
<1>3. /\ command # NoRecord /\ command.kind \in {"prepare", "replay"} /\ TrialsLeft
      /\ p \in PlanRecord /\ command.next \in Nat \ {0}
  BY <1>2 DEF StartTrial, QualificationInv, CommandInv
<1>4. command.next \in DOMAIN p.order /\ t = p.order[command.next] /\ t \in Trials
  BY <1>2, <1>3, PlannedTrials DEF TrialsLeft, Current
<1>5. PICK kept \in BOOLEAN :
        /\ trialRuns' = [trialRuns EXCEPT ![t] = [NewRun(p) EXCEPT !.authorized = kept]]
        /\ command' \in {NoRecord, command, [command EXCEPT !.next = @ + 1]}
  <2>1. RunMatches(p) \in BOOLEAN  BY DEF RunMatches
  <2> QED  BY <1>2, <2>1 DEF StartTrial
<1>6. PICK f : f = [NewRun(p) EXCEPT !.authorized = kept]  OBVIOUS
<1>7. f \in Run /\ f.attempts = <<>>
  <2>1. [a \in {"interpreter", "profile", "executor"} |-> world[a]] \in [{"interpreter", "profile", "executor"} -> {0, 1}]
    BY DEF QualificationInv, PlansInv, Aspects
  <2>2. <<>> \in Seq(Attempt)  BY EmptySeq
  <2> QED  BY <1>6, <2>1, <2>2 DEF NewRun, Run, Bytes
<1>8. Reviewed(f, t)
  <2>1. DOMAIN f.attempts = {}  BY <1>7, EmptySeq
  <2> QED  BY <2>1 DEF Reviewed
<1>9. RunsInv' /\ Started(t)' /\ \A s \in Trials : Started(s) => Started(s)'
  BY <1>4, <1>5, <1>6, <1>7, <1>8, RunStepKeepsRuns DEF QualificationInv
<1>10. CommandInv'
  <2>1. CASE command' = command  BY <1>1, <1>9, <2>1, RunStepKeepsCommand DEF QualificationInv
  <2>2. ASSUME prepared # NoRecord
        PROVE  /\ prepared = [plan |-> prepared.plan, written |-> prepared.written] /\ prepared.plan \in PlanRecord
               /\ prepared.written => \A s \in Range(prepared.plan.order) : Started(s)'
    BY <1>9, <2>2, PlannedTrials DEF QualificationInv, CommandInv
  <2>3. CASE command' = NoRecord  BY <1>1, <2>2, <2>3 DEF CommandInv, Doing, Started
  <2>4. CASE command' = [command EXCEPT !.next = @ + 1]
    <3>1. command = [kind |-> command.kind, plan |-> command.plan, next |-> command.next, done |-> command.done]
      BY <1>3 DEF QualificationInv, CommandInv
    <3>2. /\ command' = [kind |-> command.kind, plan |-> command.plan, next |-> command.next + 1, done |-> command.done]
      BY <2>4, <3>1
    <3>3. /\ command'.kind = command.kind /\ command'.plan = p /\ command'.next = command.next + 1
          /\ command'.done = command.done
      BY <1>2, <3>2
    <3>4. ASSUME Doing("prepare"), NEW k \in DOMAIN p.order, k < command.next + 1
          PROVE  Started(p.order[k])'
      <4>1. CASE k = command.next  BY <1>4, <1>9, <4>1
      <4>2. CASE k < command.next
        <5>1. Started(p.order[k])  BY <1>2, <3>4, <4>2 DEF QualificationInv, CommandInv
        <5>2. p.order[k] \in Trials  BY <1>3, PlannedTrials
        <5> QED  BY <1>9, <5>1, <5>2
      <4>3. k \in Nat  BY <1>3, PlannedTrials
      <4> QED  BY <1>3, <3>4, <4>1, <4>2, <4>3
    <3>5. Doing("prepare") => prepared = [plan |-> p, written |-> FALSE]
      BY <1>2 DEF QualificationInv, CommandInv
    <3>6. \A s \in DOMAIN command.done : Measures(command.done[s], s, p)
      BY <1>2, <1>3 DEF QualificationInv, CommandInv
    <3>7. Doing("prepare") <=> command.kind = "prepare"  BY <1>3 DEF Doing
    <3> QED  BY <1>1, <1>3, <2>2, <3>2, <3>3, <3>4, <3>5, <3>6, <3>7 DEF CommandInv, Doing, Started
  <2> QED  BY <1>5, <2>1, <2>3, <2>4
<1> QED  BY <1>1, <1>9, <1>10 DEF QualificationInv, PlansInv, ResultInv


\* A command ends, with or without what it writes last.
LEMMA EndKeepsInv ==
  ASSUME QualificationInv, WriteLive \/ WriteResult \/ CommandKilled
  PROVE  QualificationInv'
<1>1. UNCHANGED <<world, plans, trialRuns>> /\ command' = NoRecord /\ command # NoRecord
  BY DEF WriteLive, WriteResult, CommandKilled, End, Doing
<1>2. PlansInv' /\ RunsInv'  BY <1>1 DEF QualificationInv, PlansInv, RunsInv, Started
<1>3. ResultInv'
  <2>1. CASE WriteResult
    <3>1. PICK p, done : p = command.plan /\ done = command.done  OBVIOUS
    <3>2. \A t \in DOMAIN done : Measures(done[t], t, p)
      BY <1>1, <3>1 DEF QualificationInv, CommandInv
    <3>3. result' = [plan |-> p, trials |-> done]  BY <2>1, <3>1 DEF WriteResult
    <3> QED  BY <3>2, <3>3 DEF ResultInv
  <2>2. CASE UNCHANGED result  BY <2>2 DEF QualificationInv, ResultInv
  <2> QED  BY <2>1, <2>2 DEF WriteLive, CommandKilled
<1>4. CommandInv'
  <2>1. CASE WriteLive
    <3>1. /\ command.kind = "prepare" /\ ~(command.next <= Len(command.plan.order))
          /\ prepared' = [prepared EXCEPT !.written = TRUE]
      BY <2>1 DEF WriteLive, Doing, TrialsLeft
    <3>2. PICK p : p = command.plan  OBVIOUS
    <3>3. /\ p \in PlanRecord /\ command.next \in Nat /\ prepared = [plan |-> p, written |-> FALSE]
          /\ \A k \in DOMAIN p.order : k < command.next => Started(p.order[k])
      BY <1>1, <3>1, <3>2 DEF QualificationInv, CommandInv, Doing
    <3>4. prepared' = [plan |-> p, written |-> TRUE] /\ prepared'.plan = p  BY <3>1, <3>3
    <3>5. \A k \in DOMAIN p.order : k < command.next  BY <3>1, <3>2, <3>3, PlannedTrials
    <3>6. \A t \in Range(p.order) : Started(t)  BY <3>3, <3>5 DEF Range
    <3> QED  BY <1>1, <3>3, <3>4, <3>6 DEF CommandInv, Doing, Started
  <2>2. CASE UNCHANGED prepared
    BY <1>1, <2>2 DEF QualificationInv, CommandInv, Doing, Started
  <2> QED  BY <2>1, <2>2 DEF WriteResult, CommandKilled
<1> QED  BY <1>2, <1>3, <1>4 DEF QualificationInv

\* What a trial of a command is recorded as.
LEMMA RecordKeepsCommand ==
  ASSUME CommandInv, command # NoRecord, NEW t, NEW r, Measures(r, t, command.plan), Record(t, r),
         UNCHANGED <<prepared, trialRuns>>, ~Doing("prepare")
  PROVE  CommandInv'
<1>1. /\ command = [kind |-> command.kind, plan |-> command.plan, next |-> command.next, done |-> command.done]
      /\ command.plan \in PlanRecord /\ command.next \in Nat \ {0}
      /\ \A s \in DOMAIN command.done : Measures(command.done[s], s, command.plan)
  BY DEF CommandInv
<1>2. PICK done : done = [x \in DOMAIN command.done \cup {t} |-> IF x = t THEN r ELSE command.done[x]]  OBVIOUS
<1>3. command' = [kind |-> command.kind, plan |-> command.plan, next |-> command.next + 1, done |-> done]
  BY <1>1, <1>2 DEF Record
<1>4. \A s \in DOMAIN done : Measures(done[s], s, command.plan)
  <2> SUFFICES ASSUME NEW s \in DOMAIN done PROVE Measures(done[s], s, command.plan)  OBVIOUS
  <2>1. CASE s = t  BY <1>2, <2>1
  <2>2. CASE s # t /\ s \in DOMAIN command.done
    <3>1. done[s] = command.done[s]  BY <1>2, <2>2
    <3> QED  BY <1>1, <2>2, <3>1
  <2> QED  BY <1>2, <2>1, <2>2
<1>5. /\ command'.kind = command.kind /\ command'.plan = command.plan /\ command'.next = command.next + 1
      /\ command'.done = done
  BY <1>3
<1>6. prepared # NoRecord =>
        /\ prepared = [plan |-> prepared.plan, written |-> prepared.written] /\ prepared.plan \in PlanRecord
        /\ prepared.written => \A s \in Range(prepared.plan.order) : Started(s)'
  BY DEF CommandInv, Started
<1>7. command.kind = "grade" => \A s \in Range(command.plan.order) : Started(s)'
  BY DEF CommandInv, Doing, Started
<1>8. command.kind # "prepare"  BY DEF Doing
<1>9. command'.plan \in PlanRecord /\ command'.next \in Nat \ {0}  BY <1>1, <1>5
<1>10. ~Doing("prepare")'  BY <1>5, <1>8 DEF Doing
<1>11. Doing("grade")' => \A s \in Range(command'.plan.order) : Started(s)'
  BY <1>5, <1>7 DEF Doing
<1>12. \A s \in DOMAIN command'.done : Measures(command'.done[s], s, command'.plan)
  BY <1>4, <1>5
<1> QED  BY <1>3, <1>5, <1>6, <1>9, <1>10, <1>11, <1>12 DEF CommandInv

LEMMA GradedMeasures ==
  ASSUME RunsInv, NEW t \in Trials, Started(t), NEW p
  PROVE  Measures(Graded(trialRuns[t], t, p.frozen["suite"]), t, p)
BY DEF RunsInv, Started, Measures, Graded

LEMMA UngradedMeasures ==
  ASSUME NEW t, NEW p
  PROVE  Measures(NotRun, t, p) /\ Measures(Failed, t, p)
BY DEF Measures, NotRun, Failed

LEMMA GradingKeepsInv ==
  ASSUME QualificationInv, Retain \/ ReplayTrial
  PROVE  QualificationInv'
<1>1. /\ UNCHANGED <<world, plans, prepared, trialRuns, result>> /\ command # NoRecord /\ TrialsLeft
      /\ ~Doing("prepare")
  BY DEF Retain, ReplayTrial, Doing
<1>2. PlansInv' /\ RunsInv' /\ ResultInv'
  BY <1>1 DEF QualificationInv, PlansInv, RunsInv, ResultInv, Started
<1>3. PICK t, p : t = Current /\ p = command.plan  OBVIOUS
<1>4. p \in PlanRecord /\ command.next \in Nat \ {0}
  BY <1>1, <1>3 DEF QualificationInv, CommandInv
<1>5. t \in Range(p.order) /\ t \in Trials
  <2>1. command.next \in DOMAIN p.order  BY <1>1, <1>3, <1>4, PlannedTrials DEF TrialsLeft
  <2>2. t = p.order[command.next]  BY <1>3 DEF Current
  <2> QED  BY <1>4, <2>1, <2>2, PlannedTrials
<1>6. ASSUME End PROVE CommandInv'
  BY <1>1, <1>6 DEF End, QualificationInv, CommandInv, Doing, Started
<1>7. ASSUME \/ Record(t, NotRun) \/ Record(t, Failed)
             \/ Started(t) /\ Record(t, Graded(trialRuns[t], t, p.frozen["suite"]))
      PROVE  CommandInv'
  <2>1. PICK r : Record(t, r) /\ Measures(r, t, p)
    BY <1>5, <1>7, GradedMeasures, UngradedMeasures DEF QualificationInv
  <2> QED  BY <1>1, <1>3, <2>1, RecordKeepsCommand DEF QualificationInv
<1>8. \/ End
      \/ Record(t, NotRun) \/ Record(t, Failed)
      \/ Started(t) /\ Record(t, Graded(trialRuns[t], t, p.frozen["suite"]))
  <2>1. CASE Retain
    <3>1. Started(t)  BY <1>3, <1>5, <2>1 DEF Retain, QualificationInv, CommandInv
    <3> QED  BY <1>3, <2>1, <3>1 DEF Retain
  <2>2. CASE ReplayTrial  BY <1>3, <2>2 DEF ReplayTrial, Started
  <2> QED  BY <2>1, <2>2
<1> QED  BY <1>2, <1>6, <1>7, <1>8 DEF QualificationInv

LEMMA QualificationStep ==
  QualificationInv /\ [QualificationNext]_qualificationVars => QualificationInv'
<1> SUFFICES ASSUME QualificationInv, [QualificationNext]_qualificationVars PROVE QualificationInv'
  OBVIOUS
<1>1. CASE Planning
  <2>1. CASE \/ \E mode \in {"live", "replay"}, owner, asProposal \in BOOLEAN, order \in Orders :
                  Plan(IF asProposal THEN "proposal" ELSE "plan", mode, owner, asProposal, order)
             \/ AuthorizeProposal("proposal", "plan")
    BY <2>1, PlanningKeepsInv DEF Directories
  <2>2. CASE BeginLive("plan") \/ BeginReplay("plan") \/ BeginGrade("plan")  BY <2>2, BeginKeepsInv
  <2> QED  BY <1>1, <2>1, <2>2 DEF Planning
<1>2. CASE StartTrial  BY <1>2, StartTrialKeepsInv
<1>3. CASE WriteLive \/ WriteResult \/ CommandKilled  BY <1>3, EndKeepsInv
<1>4. CASE Retain \/ ReplayTrial  BY <1>4, GradingKeepsInv
<1>5. CASE \E t \in Trials : Driving(t)  BY <1>5, DrivingKeepsInv
<1>6. CASE \/ \E a \in Aspects : WorldChanges(a)
           \/ \E d \in Directories : EditPlan(d)
           \/ \E t \in Trials : Alter(t)
  BY <1>6, PlanningKeepsInv
<1>7. CASE UNCHANGED qualificationVars
  BY <1>7, RunStepKeepsCommand DEF qualificationVars, QualificationInv, PlansInv, RunsInv, ResultInv, Started
<1> QED  BY <1>1, <1>2, <1>3, <1>4, <1>5, <1>6, <1>7 DEF QualificationNext

\* The invariant behind the three theorems below: what a reviewer was shown is kept with its run, a
\* command handles runs that were started, and each measured trial of a result says what was seen.
THEOREM QualificationInvariant == QualificationSpec => []QualificationInv
<1>1. QualificationInit => QualificationInv  BY QualificationStart
<1>2. QualificationInv /\ [QualificationNext]_qualificationVars => QualificationInv'
  BY QualificationStep
<1> QED  BY <1>1, <1>2, PTL DEF QualificationSpec

\* What the grade of a dispatch calls the first attempt.
LEMMA FirstOfAReviewedRun ==
  ASSUME NEW e \in Run, NEW t, Reviewed(e, t), CaseOf[t] = "dispatch-implementation", NEW suite,
         FirstSeen(e) # "absent", GradeDispatch(e, suite).first # "unavailable"
  PROVE  GradeDispatch(e, suite).first = Verdict(FirstSeen(e), suite)
<1>1. GradeDispatch(e, suite).first =
        CASE e.snapshot # "absent" /\ e.snapshot = FirstSeen(e) -> Verdict(e.snapshot, suite)
          [] e.snapshot = "absent" \/ e.snapshot # FirstSeen(e) ->
               IF Repairs(e) = 0 /\ e.artifact # "absent" THEN Verdict(e.artifact, suite) ELSE "unavailable"
  BY DEF GradeDispatch
<1>2. CASE e.snapshot # "absent" /\ e.snapshot = FirstSeen(e)  BY <1>1, <1>2
<1>3. CASE e.snapshot = "absent" \/ e.snapshot # FirstSeen(e)
  <2>1. Repairs(e) = 0 /\ GradeDispatch(e, suite).first = Verdict(e.artifact, suite)  BY <1>1, <1>3
  <2>2. AttemptsOf(e, "fixer") = {}
    <3>1. PICK s \in Seq(Attempt) : s = e.attempts  BY DEF Run
    <3>2. DOMAIN s = 1 .. Len(s) /\ Len(s) \in Nat  BY LenProperties
    <3>3. IsFiniteSet(1 .. Len(s))  BY <3>2, FS_Interval
    <3>4. AttemptsOf(e, "fixer") \subseteq 1 .. Len(s)  BY <3>1, <3>2 DEF AttemptsOf
    <3>5. IsFiniteSet(AttemptsOf(e, "fixer"))  BY <3>3, <3>4, FS_Subset
    <3> QED  BY <2>1, <3>5, FS_EmptySet DEF Repairs
  <2>3. PICK i \in AttemptsOf(e, "reviewer") : TRUE  BY DEF FirstSeen
  <2>4. e.artifact = FirstSeen(e)  BY <2>2, <2>3 DEF Reviewed, AttemptsOf
  <2> QED  BY <2>1, <2>4
<1> QED  BY <1>2, <1>3

\* Whatever a result says of the first attempt of a dispatch, it says of what the first reviewer was
\* shown, for runs of any length and graded at any moment of a repair (_qualify.py, grade).
THEOREM FirstAttemptsWereReviewed == QualificationSpec => []FirstAttemptWasReviewed
<1>1. QualificationInv => FirstAttemptWasReviewed
  <2> SUFFICES ASSUME QualificationInv, result # NoRecord, NEW t \in DOMAIN result.trials,
                      result.trials[t].measured, CaseOf[t] = "dispatch-implementation",
                      FirstSeen(result.trials[t].copy) # "absent",
                      result.trials[t].outcome.first # "unavailable"
               PROVE  result.trials[t].outcome.first =
                        Verdict(FirstSeen(result.trials[t].copy), result.plan.frozen["suite"])
    BY DEF FirstAttemptWasReviewed
  <2>1. PICK r, suite : r = result.trials[t] /\ suite = result.plan.frozen["suite"]  OBVIOUS
  <2>2. r.copy \in Run /\ Reviewed(r.copy, t) /\ r.outcome = Grade(r.copy, t, suite)
    BY <2>1 DEF QualificationInv, ResultInv, Measures
  <2>3. Grade(r.copy, t, suite) = GradeDispatch(r.copy, suite)  BY DEF Grade
  <2>4. FirstSeen(r.copy) # "absent" /\ GradeDispatch(r.copy, suite).first # "unavailable"
    BY <2>1, <2>2, <2>3
  <2>5. GradeDispatch(r.copy, suite).first = Verdict(FirstSeen(r.copy), suite)
    BY <2>2, <2>4, FirstOfAReviewedRun
  <2> QED  BY <2>1, <2>2, <2>3, <2>5
<1> QED  BY <1>1, QualificationInvariant, PTL

\* inspect reports an altered or a missing copy, whatever became of the suite since, and has nothing
\* against a copy that nothing touched (_qualify.py, inspect).
THEOREM InspectionTells == QualificationSpec => []InspectTells
<1>1. QualificationInv => InspectTells
  <2> SUFFICES ASSUME QualificationInv, result # NoRecord, NEW t \in DOMAIN result.trials,
                      result.trials[t].copy # NoRecord
               PROVE  /\ evidence[t] # result.trials[t].copy => Inspect(t) \in {"mismatch", "evidence-missing"}
                      /\ evidence[t] = result.trials[t].copy => Inspect(t) # "mismatch"
    BY DEF InspectTells
  <2>1. PICK r, suite : r = result.trials[t] /\ suite = result.plan.frozen["suite"]  OBVIOUS
  <2>2. r.outcome = Grade(r.copy, t, suite)  BY <2>1 DEF QualificationInv, ResultInv, Measures
  <2> DEFINE same == evidence[t] # NoRecord /\ Grade(evidence[t], t, world["suite"]) = r.outcome
             altered == evidence[t] # r.copy
             changed == world["suite"] # suite
  <2>3. Inspect(t) = IF evidence[t] = NoRecord THEN "evidence-missing"
                     ELSE IF same /\ ~altered THEN "ok"
                     ELSE IF altered \/ ~changed THEN "mismatch" ELSE "instrument-changed"
    BY <2>1 DEF Inspect
  <2>4. ~altered /\ ~changed => same  BY <2>1, <2>2
  <2> HIDE DEF same, changed
  <2> QED  BY <2>1, <2>3, <2>4
<1> QED  BY <1>1, QualificationInvariant, PTL

\* dimension_met and the denominators call the same trials measured, whatever a result holds of them
\* (_qualify.py).
THEOREM MeasuredAreGradeable == QualificationSpec => []MeasuredIsGradeable
<1>1. \A r : Measured(r) = Gradeable(r)
  <2> TAKE r
  <2>1. \A t \in DOMAIN r :
          DimensionMet(r[t], t) # "not-measured" <=> r[t].status = "completed" /\ r[t].outcome.gradeable
    <3> TAKE t \in DOMAIN r
    <3>1. CASE r[t].status # "completed" \/ ~r[t].outcome.gradeable  BY <3>1 DEF DimensionMet
    <3>2. CASE r[t].status = "completed" /\ r[t].outcome.gradeable
      <4>1. DimensionMet(r[t], t) \in {"met", "not-met"}  BY <3>2 DEF DimensionMet
      <4> QED  BY <3>2, <4>1
    <3> QED  BY <3>1, <3>2
  <2> QED  BY <2>1 DEF Measured, Gradeable, Attempted
<1>2. MeasuredIsGradeable  BY <1>1 DEF MeasuredIsGradeable
<1> QED  BY <1>2, PTL
=============================================================================
