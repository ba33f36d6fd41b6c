-------------------------- MODULE MCQualifications -------------------------
(* A qualification from plan to result, and the reading of one of its sessions that decides      *)
(* whether the tool loop continued. Small instances; the two share no variable, and a behaviour  *)
(* is one of either.                                                                             *)
EXTENDS Qualification, ToolContinuation, TLC

VARIABLE component

\* One plan: of the dispatch trial, a challenge, two trials, or a recovery.
MCCaseOf == "tool" :> "tool-loop" @@ "contradictory" :> "requirements-challenge" @@ "coherent" :> "requirements-challenge" @@
            "dispatch" :> "dispatch-implementation" @@ "never" :> "authority-recovery"
MCTrials == DOMAIN MCCaseOf
MCSubjectOf == "tool" :> "marker" @@ "contradictory" :> "contradictory" @@ "coherent" :> "coherent" @@
               "dispatch" :> "coherent" @@ "never" :> "never-earned"
MCOrders == {<<"dispatch">>, <<"contradictory">>, <<"tool", "coherent">>, <<"never">>}
MCMaxTrialAttempts == "tool" :> 1 @@ "contradictory" :> 2 @@ "coherent" :> 1 @@ "dispatch" :> 3 @@ "never" :> 1

QualificationsInit ==
  /\ QualificationInit /\ ContinuationInit
  /\ component \in {"qualification", "continuation"}

QualificationsNext ==
  \/ component = "qualification" /\ QualificationNext /\ UNCHANGED <<component, continuationVars>>
  \/ component = "continuation" /\ ContinuationNext /\ UNCHANGED <<component, qualificationVars>>

QualificationsSpec ==
  QualificationsInit /\ [][QualificationsNext]_<<component, qualificationVars, continuationVars>>
=============================================================================
