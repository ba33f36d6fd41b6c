---------------------------- MODULE MCSessions -----------------------------
(* What the program reads off the sessions of a run, on small instances: the spend its launches  *)
(* are admitted against, the checkpoints a session resumes from, and the origin of what reached  *)
(* a worker. The three share no variable: a behaviour is one of one of them.                     *)
EXTENDS LaunchSpend, ContextCheckpoint, ContextAttribution, TLC

CONSTANTS r1, r2, s1, s2, h1

VARIABLE component

MCPolicies == {[limit |-> 3, reserve |-> 1, ceiling |-> 2], [limit |-> 0, reserve |-> 0, ceiling |-> 2]}

MCHarnessOf == [s \in {s1, s2} |-> h1]
MCRecordsOf == r1 :> s1 @@ r2 :> s2
MCMaxSequence == r1 :> 2 @@ r2 :> 0
MCOwnerOf == r1 :> h1 @@ r2 :> h1

SessionsInit ==
  /\ Init /\ CheckpointInit /\ ContextInit
  /\ component \in {"spend", "checkpoint", "context"}
  /\ component # "spend" => billing = [basis |-> "priced", allowance |-> None]
  /\ component # "context" => fixture = [arm |-> "full", scratch |-> "workspace"]

SessionsNext ==
  \/ component = "spend" /\ Next /\ UNCHANGED <<component, checkpointVars, contextVars>>
  \/ component = "checkpoint" /\ CheckpointNext /\ UNCHANGED <<component, vars, contextVars>>
  \/ component = "context" /\ ContextNext /\ UNCHANGED <<component, vars, checkpointVars>>

SessionsSpec ==
  SessionsInit /\ [][SessionsNext]_<<component, vars, checkpointVars, contextVars>>
=============================================================================
