------------------------- MODULE ContextCheckpoint -------------------------
(***************************************************************************)
(* Checkpoints of a run's governing texts, taken before a harness compacts *)
(* its conversation and verified after it (scripts/context_checkpoint.py), *)
(* and what scripts/check_state.py makes of them.                          *)
(*                                                                         *)
(* Runs of one project belong to harnesses and record the session that     *)
(* drives them.  The hooks of a session choose a run among those that are  *)
(* active, and may be killed between any two of their writes.  A session   *)
(* waits for its own hook, not for another session's; prepare writes the   *)
(* whole of state.json back as it was read, whether the run goes on        *)
(* included.  Every manifest holds one version of plan, authority index    *)
(* and configuration: their digests are taken and compared together.       *)
(***************************************************************************)
EXTENDS Naturals, FiniteSets, Sequences

CONSTANTS
  Runs, Sessions, Harnesses,
  HarnessOf,     \* the harness a session belongs to
  RecordsOf,     \* the session each run records, or NoOne
  OwnerOf,       \* the harness each run records, or NoOne
  MaxSequence,   \* bound, by run: its checkpoint directories
  MaxEdits,      \* bound: changes of a run's governing texts
  Absent, Empty,  \* a directory that is not there, and one without a manifest
  NoOne

ASSUME CheckpointAssumption ==
  /\ HarnessOf \in [Sessions -> Harnesses]
  /\ RecordsOf \in [Runs -> Sessions \cup {NoOne}] /\ OwnerOf \in [Runs -> Harnesses \cup {NoOne}]
  /\ MaxSequence \in [Runs -> Nat] /\ MaxEdits \in Nat
  /\ {Absent, Empty} \cap Nat = {} /\ Absent # Empty
  /\ NoOne \notin Runs \cup Sessions \cup Harnesses

VARIABLES
  state,        \* state.json: [status, sequence, named, verified, active]; named: the directory its paths name
  compactions,  \* by run, the directories: Absent, Empty, or the texts a manifest recorded
  latest,       \* by run, what LATEST names; 0 when there is none
  authority,    \* by run, the version of plan, authority index and configuration
  prepare       \* by session, a prepare under way: NoOne or [at, run, sequence, read, hook]

checkpointVars == <<state, compactions, latest, authority, prepare>>

Sequences(r) == 1 .. MaxSequence[r]
Statuses == {"none", "prepared", "compacting", "rehydration-required", "resumed"}

-----------------------------------------------------------------------------
(* Choosing a run *)

\* active_state_paths
ActiveRuns == {r \in Runs : state[r].active}

Only(S) == CHOOSE r \in S : TRUE

Pending(r) == state[r].status \in {"prepared", "compacting", "rehydration-required"}

\* choose_run without an explicit run: the one run of the session, of the harness if there are
\* several, the one with a checkpoint under way if asked, the one there is; else NoOne, for
\* NoActiveRun and AmbiguousRun alike.
ChooseRun(session, harness, preferCheckpoint) ==
  LET several == Cardinality(ActiveRuns) > 1
      ofSession == {r \in ActiveRuns : session # NoOne /\ RecordsOf[r] = session}
      ofHarness == {r \in ActiveRuns : several /\ harness # NoOne /\ OwnerOf[r] = harness}
      ofCheckpoint == {r \in ActiveRuns : several /\ preferCheckpoint /\ Pending(r)}
  IN  CASE Cardinality(ofSession) = 1 -> Only(ofSession)
        [] Cardinality(ofSession) # 1 /\ Cardinality(ofHarness) = 1 -> Only(ofHarness)
        [] Cardinality(ofSession) # 1 /\ Cardinality(ofHarness) # 1 /\ Cardinality(ofCheckpoint) = 1
             -> Only(ofCheckpoint)
        [] OTHER -> IF Cardinality(ActiveRuns) = 1 THEN Only(ActiveRuns) ELSE NoOne

\* latest_sequence: the highest directory, whole or not.
LatestSequence(r) ==
  LET made == {n \in Sequences(r) : compactions[r][n] # Absent}
  IN  IF made = {} THEN 0 ELSE CHOOSE n \in made : \A m \in made : m <= n

\* latest_checkpoint: what LATEST names, else the highest directory; 0 where the code raises.
LatestCheckpoint(r) == IF latest[r] # 0 THEN latest[r] ELSE LatestSequence(r)

IsManifest(x) == x \notin {Absent, Empty}

-----------------------------------------------------------------------------
(* prepare *)

\* Mutant: the directory after the one LATEST names is used, whether or not it exists.
PrepareOver(s, r, hook) ==
  LET next == latest[r] + 1
      reused == /\ state[r].status \in {"prepared", "compacting"} /\ state[r].named # 0
                /\ IsManifest(compactions[r][state[r].named])
  IN  /\ prepare[s] = NoOne /\ r # NoOne /\ (hook => r = ChooseRun(s, HarnessOf[s], FALSE))
      /\ \/ /\ reused
            /\ prepare' = [prepare EXCEPT ![s] = IF hook THEN [at |-> "compacting", run |-> r,
                             sequence |-> state[r].sequence, read |-> state[r], hook |-> TRUE] ELSE NoOne]
            /\ UNCHANGED compactions
         \/ /\ ~reused /\ next \in Sequences(r)
            /\ compactions' = [compactions EXCEPT ![r][next] = Empty]
            /\ prepare' = [prepare EXCEPT ![s] = [at |-> "manifest", run |-> r, sequence |-> next,
                                                  read |-> state[r], hook |-> hook]]
      /\ UNCHANGED <<state, latest, authority>>

\* prepare, by the hook for the run it chooses or by command for the run it is given: a checkpoint
\* that is prepared or compacting and still there is reused; otherwise the next directory is made,
\* which must not exist.
Prepare(s, r, hook) ==
  LET next == LatestSequence(r) + 1
      reused == /\ state[r].status \in {"prepared", "compacting"} /\ state[r].named # 0
                /\ IsManifest(compactions[r][state[r].named])
  IN  /\ prepare[s] = NoOne /\ r # NoOne /\ (hook => r = ChooseRun(s, HarnessOf[s], FALSE))
      /\ \/ /\ reused
            /\ prepare' = [prepare EXCEPT ![s] = IF hook THEN [at |-> "compacting", run |-> r,
                             sequence |-> state[r].sequence, read |-> state[r], hook |-> TRUE] ELSE NoOne]
            /\ UNCHANGED compactions
         \/ /\ ~reused /\ next \in Sequences(r) /\ compactions[r][next] = Absent
            /\ compactions' = [compactions EXCEPT ![r][next] = Empty]
            /\ prepare' = [prepare EXCEPT ![s] = [at |-> "manifest", run |-> r, sequence |-> next,
                                                  read |-> state[r], hook |-> hook]]
      /\ UNCHANGED <<state, latest, authority>>

\* The manifest takes the digests of the texts as they are now; CHECKPOINT.md follows it.
WriteManifest(s) ==
  /\ prepare[s] # NoOne /\ prepare[s].at = "manifest"
  /\ LET p == prepare[s] IN
       /\ compactions' = [compactions EXCEPT ![p.run][p.sequence] = authority[p.run]]
       /\ prepare' = [prepare EXCEPT ![s].at = "latest"]
  /\ UNCHANGED <<state, latest, authority>>

WriteLatest(s) ==
  /\ prepare[s] # NoOne /\ prepare[s].at = "latest"
  /\ latest' = [latest EXCEPT ![prepare[s].run] = prepare[s].sequence]
  /\ prepare' = [prepare EXCEPT ![s].at = "state"]
  /\ UNCHANGED <<state, compactions, authority>>

\* The state is written as it was read when the run was chosen, with the checkpoint in it.
WriteState(s) ==
  /\ prepare[s] # NoOne /\ prepare[s].at = "state"
  /\ LET p == prepare[s] IN
       /\ state' = [state EXCEPT ![p.run] = [p.read EXCEPT !.status = "prepared", !.verified = FALSE,
                                               !.sequence = p.sequence, !.named = p.sequence]]
       /\ prepare' = [prepare EXCEPT ![s] = IF p.hook THEN [p EXCEPT !.at = "compacting"] ELSE NoOne]
  /\ UNCHANGED <<compactions, latest, authority>>

\* set_checkpoint_status, which reads the state again.
MarkCompacting(s) ==
  /\ prepare[s] # NoOne /\ prepare[s].at = "compacting"
  /\ state' = [state EXCEPT ![prepare[s].run].status = "compacting"]
  /\ prepare' = [prepare EXCEPT ![s] = NoOne]
  /\ UNCHANGED <<compactions, latest, authority>>

Killed(s) ==
  /\ prepare[s] # NoOne
  /\ prepare' = [prepare EXCEPT ![s] = NoOne]
  /\ UNCHANGED <<state, compactions, latest, authority>>

-----------------------------------------------------------------------------
(* After compaction *)

\* hook postcompact
PostCompact(s) ==
  LET r == ChooseRun(s, HarnessOf[s], FALSE)
  IN  /\ prepare[s] = NoOne /\ r # NoOne /\ LatestCheckpoint(r) # 0
      /\ state' = [state EXCEPT ![r].status = "rehydration-required",
                                ![r].sequence = LatestCheckpoint(r)]
      /\ UNCHANGED <<compactions, latest, authority, prepare>>

\* hook sessionstart of a resumed or compacted conversation, and the rehydrate command.
Rehydrate(s) ==
  LET r == ChooseRun(s, HarnessOf[s], TRUE)
  IN  /\ prepare[s] = NoOne /\ r # NoOne /\ LatestCheckpoint(r) # 0
      /\ state' = [state EXCEPT ![r].status = "rehydration-required"]
      /\ UNCHANGED <<compactions, latest, authority, prepare>>

Recorded(r) == compactions[r][LatestCheckpoint(r)]

\* Mutant: the checkpoint that was verified is not named in the state.
VerifyUnnamed(r) ==
  /\ LatestCheckpoint(r) # 0 /\ IsManifest(Recorded(r))
  /\ LET same == Recorded(r) = authority[r] IN
       state' = [state EXCEPT ![r].status = IF same THEN "resumed" ELSE "rehydration-required",
                              ![r].verified = same]
  /\ UNCHANGED <<compactions, latest, authority, prepare>>

\* verify-resume: the texts are compared with those of the latest manifest; an unreadable one
\* changes nothing.
Verify(r) ==
  /\ LatestCheckpoint(r) # 0 /\ IsManifest(Recorded(r))
  /\ LET same == Recorded(r) = authority[r] IN
       state' = [state EXCEPT ![r].status = IF same THEN "resumed" ELSE "rehydration-required",
                              ![r].sequence = LatestCheckpoint(r), ![r].named = LatestCheckpoint(r),
                              ![r].verified = same]
  /\ UNCHANGED <<compactions, latest, authority, prepare>>

-----------------------------------------------------------------------------
(* The rest of the project *)

\* The run ends: completed, blocked, paused or abandoned.
Finish(r) ==
  /\ state[r].active /\ \A s \in Sessions : prepare[s] # NoOne => RecordsOf[r] # s
  /\ state' = [state EXCEPT ![r].active = FALSE]
  /\ UNCHANGED <<compactions, latest, authority, prepare>>

Edit(r) ==
  /\ authority[r] < MaxEdits
  /\ authority' = [authority EXCEPT ![r] = @ + 1]
  /\ UNCHANGED <<state, compactions, latest, prepare>>

CheckpointInit ==
  /\ state = [r \in Runs |-> [status |-> "none", sequence |-> 0, named |-> 0, verified |-> FALSE, active |-> TRUE]]
  /\ compactions = [r \in Runs |-> [n \in Sequences(r) |-> Absent]]
  /\ latest = [r \in Runs |-> 0] /\ authority = [r \in Runs |-> 0]
  /\ prepare = [s \in Sessions |-> NoOne]

CheckpointNext ==
  \/ \E s \in Sessions :
       \/ \E r \in Runs, hook \in BOOLEAN : Prepare(s, r, hook)
       \/ WriteManifest(s) \/ WriteLatest(s) \/ WriteState(s) \/ MarkCompacting(s) \/ Killed(s)
       \/ PostCompact(s) \/ Rehydrate(s)
  \/ \E r \in Runs : Verify(r) \/ Finish(r) \/ Edit(r)

CheckpointSpec == CheckpointInit /\ [][CheckpointNext]_checkpointVars

-----------------------------------------------------------------------------
(* Properties *)

\* check_state: a checkpoint state names exists, and a resumed one was verified.
ValidCheckpoint(r) ==
  /\ state[r].status # "none" =>
       state[r].sequence # 0 /\ state[r].named # 0 /\ IsManifest(compactions[r][state[r].named])
  /\ state[r].status = "resumed" => state[r].verified

StateRecords(r) ==
  [status : Statuses, sequence : 0 .. MaxSequence[r], named : 0 .. MaxSequence[r],
   verified : BOOLEAN, active : BOOLEAN]

PrepareRecords(r) ==
  [at : {"manifest", "latest", "state", "compacting"}, run : {r}, sequence : 0 .. MaxSequence[r],
   read : StateRecords(r), hook : BOOLEAN]

StateTypes == DOMAIN state = Runs /\ \A r \in Runs : state[r] \in StateRecords(r)
DirectoryTypes ==
  /\ DOMAIN compactions = Runs
  /\ \A r \in Runs : compactions[r] \in [Sequences(r) -> {Absent, Empty} \cup 0 .. MaxEdits]
TextTypes ==
  /\ DOMAIN latest = Runs /\ \A r \in Runs : latest[r] \in 0 .. MaxSequence[r]
  /\ authority \in [Runs -> 0 .. MaxEdits]
PrepareTypes ==
  /\ DOMAIN prepare = Sessions
  /\ \A s \in Sessions : prepare[s] = NoOne \/ \E r \in Runs : prepare[s] \in PrepareRecords(r)

TypeOK == StateTypes /\ DirectoryTypes /\ TextTypes /\ PrepareTypes

\* Wherever a prepare is killed, and however those of two sessions overlap, LATEST names a
\* directory with a manifest: prepare writes the manifest before it writes LATEST.
LatestIsWhole == \A r \in Runs : latest[r] # 0 => IsManifest(compactions[r][latest[r]])

\* A run that state calls resumed passes check_state, although a prepare may have been killed
\* before it recorded itself, and hooks of any session write the status without the paths.
ResumedIsValid == \A r \in Runs : state[r].status = "resumed" => ValidCheckpoint(r)

\* A manifest that was written stays what it was: no later prepare, of whatever session and
\* after whatever failure, writes into its directory.
CheckpointsKept ==
  [][\A r \in Runs : \A n \in Sequences(r) :
       IsManifest(compactions[r][n]) => compactions'[r][n] = compactions[r][n]]_checkpointVars

=============================================================================
