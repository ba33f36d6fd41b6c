--------------------------- MODULE SessionProofs ---------------------------
(***************************************************************************)
(* What holds of checkpoints for any number of runs and sessions, however  *)
(* their hooks overlap and wherever they are killed, of what a session is  *)
(* charged with, for any parts in any order, and of what a run's sessions  *)
(* are said to have cost, for any number of calls of any price.            *)
(*                                                                         *)
(* Checkpoints.  The directory a prepare has made and not yet filled is    *)
(* empty and its alone (DirectoryInv), because making one that exists      *)
(* fails; and directories are made one after the other, so that the        *)
(* highest one is one of them (PrefixInv).                                 *)
(*                                                                         *)
(* Attribution.  What is remembered of a session, by artifact, component   *)
(* and line, never calls source what nothing reached (CleanInv), and calls *)
(* source what was only ever charged as source (HistoryInv).               *)
(*                                                                         *)
(* Spend.  A call has a start, at most one finish with its cost, and a     *)
(* session (CallsInv): where starts and finishes agree by message and no   *)
(* usage is missing, the finishes name every call once, so that the two    *)
(* sums have the same terms (SumsAgree).                                   *)
(***************************************************************************)
EXTENDS LaunchSpend, ContextCheckpoint, ContextAttribution, FiniteSetTheorems, SequenceTheorems,
        WellFoundedInduction, TLAPS

Filling(s) == prepare[s] # NoOne /\ prepare[s].at = "manifest"
Filled(s) == prepare[s] # NoOne /\ prepare[s].at \in {"latest", "state"}
Directory(s) == compactions[prepare[s].run][prepare[s].sequence]

\* A prepare fills a directory nobody else fills, and names one that is whole.
DirectoryInv ==
  /\ \A s \in Sessions : Filling(s) =>
       prepare[s].sequence \in Sequences(prepare[s].run) /\ Directory(s) = Empty
  /\ \A s \in Sessions : Filled(s) =>
       prepare[s].sequence \in Sequences(prepare[s].run) /\ IsManifest(Directory(s))
  /\ \A s, t \in Sessions : Filling(s) /\ Filling(t) /\ s # t =>
       prepare[s].run # prepare[t].run \/ prepare[s].sequence # prepare[t].sequence

Made(r, k) == \A n \in Sequences(r) : compactions[r][n] # Absent <=> n <= k

\* The directories of a run are the first ones.
PrefixInv == \A r \in Runs : \E k \in 0 .. MaxSequence[r] : Made(r, k)

\* What state names is whole, also in the copy a prepare has read.
NamedInv ==
  /\ \A r \in Runs : state[r].named # 0 => IsManifest(compactions[r][state[r].named])
  /\ \A s \in Sessions : prepare[s] # NoOne /\ prepare[s].read.named # 0 =>
       IsManifest(compactions[prepare[s].run][prepare[s].read.named])

CheckpointInv ==
  TypeOK /\ DirectoryInv /\ PrefixInv /\ LatestIsWhole /\ NamedInv /\ ResumedIsValid

-----------------------------------------------------------------------------
(* Choosing a directory *)

LEMMA LatestSequenceIsPrefix ==
  ASSUME TypeOK, PrefixInv, NEW r \in Runs
  PROVE  LatestSequence(r) \in 0 .. MaxSequence[r] /\ Made(r, LatestSequence(r))
<1>1. PICK k \in 0 .. MaxSequence[r] : Made(r, k)  BY DEF PrefixInv
<1>2. MaxSequence[r] \in Nat  BY CheckpointAssumption
<1> DEFINE made == {n \in Sequences(r) : compactions[r][n] # Absent}
<1>3. made = 1 .. k  BY <1>1, <1>2 DEF Made, Sequences
<1>4. CASE k = 0
  <2>1. LatestSequence(r) = 0  BY <1>3, <1>4 DEF LatestSequence
  <2> QED  BY <2>1, <1>1, <1>2, <1>4
<1>5. CASE k # 0
  <2>1. LatestSequence(r) = CHOOSE n \in made : \A m \in made : m <= n
    BY <1>2, <1>3, <1>5 DEF LatestSequence
  <2>2. k \in made /\ \A m \in made : m <= k  BY <1>2, <1>3, <1>5
  <2>3. LatestSequence(r) \in made /\ \A m \in made : m <= LatestSequence(r)
    BY <2>1, <2>2
  <2>4. LatestSequence(r) = k  BY <2>2, <2>3, <1>2, <1>3
  <2> QED  BY <2>4, <1>1
<1> QED  BY <1>4, <1>5

LEMMA LatestCheckpointInRange ==
  ASSUME TypeOK, PrefixInv, NEW r \in Runs
  PROVE  LatestCheckpoint(r) \in 0 .. MaxSequence[r]
BY LatestSequenceIsPrefix DEF LatestCheckpoint, TypeOK, TextTypes

LEMMA OnlyIsMember ==
  ASSUME NEW S, Cardinality(S) = 1
  PROVE  Only(S) \in S
BY FS_EmptySet DEF Only

LEMMA ChosenRun ==
  ASSUME NEW session, NEW harness, NEW prefer, ChooseRun(session, harness, prefer) # NoOne
  PROVE  ChooseRun(session, harness, prefer) \in Runs
<1> DEFINE several == Cardinality(ActiveRuns) > 1
           ofSession == {r \in ActiveRuns : session # NoOne /\ RecordsOf[r] = session}
           ofHarness == {r \in ActiveRuns : several /\ harness # NoOne /\ OwnerOf[r] = harness}
           ofCheckpoint == {r \in ActiveRuns : several /\ prefer /\ Pending(r)}
<1>1. /\ Cardinality(ofSession) = 1 => Only(ofSession) \in Runs
      /\ Cardinality(ofHarness) = 1 => Only(ofHarness) \in Runs
      /\ Cardinality(ofCheckpoint) = 1 => Only(ofCheckpoint) \in Runs
      /\ Cardinality(ActiveRuns) = 1 => Only(ActiveRuns) \in Runs
  <2> HIDE DEF several
  <2> QED  BY OnlyIsMember DEF ActiveRuns
<1> QED  BY <1>1, Zenon DEF ChooseRun

-----------------------------------------------------------------------------
(* What the steps do to the directories *)

\* A step leaves the manifests of every run as they were.
ManifestsKept ==
  \A r \in Runs : \A n \in Sequences(r) :
    IsManifest(compactions[r][n]) => compactions'[r][n] = compactions[r][n]

LEMMA PrepareMakes ==
  ASSUME TypeOK, PrefixInv, NEW s \in Sessions, NEW r \in Runs, NEW hook, Prepare(s, r, hook)
  PROVE  \/ /\ UNCHANGED compactions
            /\ \E x : /\ x = NoOne \/ x = [at |-> "compacting", run |-> r,
                          sequence |-> state[r].sequence, read |-> state[r], hook |-> TRUE]
                      /\ prepare' = [prepare EXCEPT ![s] = x]
         \/ \E next \in Sequences(r) :
              /\ next = LatestSequence(r) + 1 /\ compactions[r][next] = Absent
              /\ compactions' = [compactions EXCEPT ![r][next] = Empty]
              /\ prepare' = [prepare EXCEPT ![s] = [at |-> "manifest", run |-> r,
                               sequence |-> next, read |-> state[r], hook |-> hook]]
BY DEF Prepare

\* Which steps touch the directories, and which the prepares.
LEMMA DirectorySteps ==
  ASSUME CheckpointNext
  PROVE  \/ \E s \in Sessions, r \in Runs, hook \in BOOLEAN : Prepare(s, r, hook)
         \/ \E s \in Sessions : WriteManifest(s)
         \/ UNCHANGED compactions
BY DEF CheckpointNext, WriteLatest, WriteState, MarkCompacting, Killed, PostCompact, Rehydrate,
   Verify, Finish, Edit

LEMMA PrepareSteps ==
  ASSUME CheckpointNext
  PROVE  \/ \E s \in Sessions, r \in Runs, hook \in BOOLEAN : Prepare(s, r, hook)
         \/ \E s \in Sessions :
              WriteManifest(s) \/ WriteLatest(s) \/ WriteState(s) \/ MarkCompacting(s) \/ Killed(s)
         \/ UNCHANGED <<prepare, compactions>>
BY DEF CheckpointNext, PostCompact, Rehydrate, Verify, Finish, Edit

LEMMA StepKeepsManifests ==
  ASSUME CheckpointInv, CheckpointNext
  PROVE  ManifestsKept
<1>1. ASSUME NEW s \in Sessions, NEW r \in Runs, NEW hook \in BOOLEAN, Prepare(s, r, hook)
      PROVE  ManifestsKept
  <2>1. CASE UNCHANGED compactions  BY <2>1 DEF ManifestsKept
  <2>2. ASSUME NEW next \in Sequences(r), compactions[r][next] = Absent,
               compactions' = [compactions EXCEPT ![r][next] = Empty]
        PROVE  ManifestsKept
    BY <2>2 DEF ManifestsKept, IsManifest, CheckpointInv, TypeOK, DirectoryTypes
  <2> QED  BY <1>1, <2>1, <2>2, PrepareMakes DEF CheckpointInv
<1>2. ASSUME NEW s \in Sessions, WriteManifest(s)
      PROVE  ManifestsKept
  <2>1. Directory(s) = Empty /\ prepare[s].sequence \in Sequences(prepare[s].run)
    BY <1>2 DEF WriteManifest, CheckpointInv, DirectoryInv, Filling
  <2> QED  BY <1>2, <2>1 DEF WriteManifest, ManifestsKept, IsManifest, Directory, CheckpointInv, TypeOK,
       DirectoryTypes
<1>3. CASE UNCHANGED compactions  BY <1>3 DEF ManifestsKept
<1> QED
  BY <1>1, <1>2, <1>3, DirectorySteps

-----------------------------------------------------------------------------
(* The invariant *)

LEMMA CheckpointStart == CheckpointInit => CheckpointInv
<1> SUFFICES ASSUME CheckpointInit PROVE CheckpointInv  OBVIOUS
<1> USE CheckpointAssumption DEF CheckpointInit
<1>1. TypeOK  BY DEF TypeOK, StateTypes, DirectoryTypes, TextTypes, PrepareTypes, StateRecords, Statuses
<1>2. DirectoryInv  BY DEF DirectoryInv, Filling, Filled
<1>3. PrefixInv
  <2>1. \A r \in Runs : 0 \in 0 .. MaxSequence[r] /\ Made(r, 0)  BY DEF Made, Sequences
  <2> QED  BY <2>1 DEF PrefixInv
<1>4. LatestIsWhole /\ NamedInv /\ ResumedIsValid  BY DEF LatestIsWhole, NamedInv, ResumedIsValid
<1> QED  BY <1>1, <1>2, <1>3, <1>4 DEF CheckpointInv

LEMMA StateUpdate ==
  ASSUME StateTypes, NEW r \in Runs, NEW x \in StateRecords(r), state' = [state EXCEPT ![r] = x]
  PROVE  StateTypes'
BY DEF StateTypes, StateRecords

LEMMA PrepareUpdate ==
  ASSUME PrepareTypes, NEW s \in Sessions, NEW x, x = NoOne \/ \E r \in Runs : x \in PrepareRecords(r),
         prepare' = [prepare EXCEPT ![s] = x]
  PROVE  PrepareTypes'
BY DEF PrepareTypes, PrepareRecords, StateRecords

LEMMA StepKeepsStates ==
  ASSUME CheckpointInv, CheckpointNext
  PROVE  StateTypes'
<1> USE DEF CheckpointInv, TypeOK
<1>1. ASSUME NEW s \in Sessions, WriteState(s) PROVE StateTypes'
  <2>1. PICK r \in Runs : prepare[s] \in PrepareRecords(r)  BY <1>1 DEF WriteState, PrepareTypes
  <2> DEFINE x == [prepare[s].read EXCEPT !.status = "prepared", !.verified = FALSE,
                     !.sequence = prepare[s].sequence, !.named = prepare[s].sequence]
  <2>2. x \in StateRecords(r)  BY <2>1 DEF PrepareRecords, StateRecords, Statuses
  <2>3. state' = [state EXCEPT ![r] = x]  BY <1>1, <2>1 DEF WriteState, PrepareRecords
  <2> HIDE DEF x
  <2> QED  BY <2>2, <2>3, StateUpdate
<1>2. ASSUME NEW s \in Sessions, MarkCompacting(s) PROVE StateTypes'
  <2>1. PICK r \in Runs : prepare[s] \in PrepareRecords(r)  BY <1>2 DEF MarkCompacting, PrepareTypes
  <2>2. prepare[s].run = r  BY <2>1 DEF PrepareRecords
  <2> QED  BY <1>2, <2>2 DEF MarkCompacting, StateTypes, StateRecords, Statuses
<1>3. ASSUME NEW s \in Sessions, PostCompact(s) PROVE StateTypes'
  <2> DEFINE r == ChooseRun(s, HarnessOf[s], FALSE)
  <2>1. r \in Runs  BY <1>3, ChosenRun DEF PostCompact
  <2>2. LatestCheckpoint(r) \in 0 .. MaxSequence[r]  BY <2>1, LatestCheckpointInRange
  <2>3. state' = [state EXCEPT ![r].status = "rehydration-required",
                               ![r].sequence = LatestCheckpoint(r)]
    BY <1>3 DEF PostCompact
  <2> HIDE DEF r
  <2> QED  BY <2>1, <2>2, <2>3 DEF StateTypes, StateRecords, Statuses
<1>4. ASSUME NEW s \in Sessions, Rehydrate(s) PROVE StateTypes'
  <2> DEFINE r == ChooseRun(s, HarnessOf[s], TRUE)
  <2>1. r \in Runs  BY <1>4, ChosenRun DEF Rehydrate
  <2>2. state' = [state EXCEPT ![r].status = "rehydration-required"]  BY <1>4 DEF Rehydrate
  <2> HIDE DEF r
  <2>3. PICK x : x = [state[r] EXCEPT !.status = "rehydration-required"]  OBVIOUS
  <2>4. x \in StateRecords(r)  BY <2>1, <2>3 DEF StateTypes, StateRecords, Statuses
  <2>5. state' = [state EXCEPT ![r] = x]  BY <2>2, <2>3
  <2> QED  BY <2>1, <2>4, <2>5, StateUpdate
<1>5. ASSUME NEW r \in Runs, Verify(r) PROVE StateTypes'
  <2>1. LatestCheckpoint(r) \in 0 .. MaxSequence[r]  BY LatestCheckpointInRange
  <2> DEFINE same == Recorded(r) = authority[r]
  <2>2. /\ same \in BOOLEAN
        /\ state' = [state EXCEPT ![r].status = IF same THEN "resumed" ELSE "rehydration-required",
                                  ![r].sequence = LatestCheckpoint(r), ![r].named = LatestCheckpoint(r),
                                  ![r].verified = same]
    BY <1>5 DEF Verify
  <2> HIDE DEF same
  <2>3. PICK n, status : n = LatestCheckpoint(r) /\ status = (IF same THEN "resumed" ELSE "rehydration-required")
    OBVIOUS
  <2>4. PICK x : x = [state[r] EXCEPT !.status = status, !.sequence = n, !.named = n, !.verified = same]  OBVIOUS
  <2>5. status \in Statuses /\ n \in 0 .. MaxSequence[r]  BY <2>1, <2>3 DEF Statuses
  <2>6. x \in StateRecords(r)  BY <2>2, <2>4, <2>5 DEF StateTypes, StateRecords
  <2>7. state' = [state EXCEPT ![r] = x]  BY <2>2, <2>3, <2>4
  <2> QED  BY <2>6, <2>7, StateUpdate
<1>6. ASSUME NEW r \in Runs, Finish(r) PROVE StateTypes'
  BY <1>6 DEF Finish, StateTypes, StateRecords
<1>7. CASE UNCHANGED state  BY <1>7 DEF StateTypes
<1> QED
  BY <1>1, <1>2, <1>3, <1>4, <1>5, <1>6, <1>7 DEF CheckpointNext, Prepare, WriteManifest,
     WriteLatest, Killed, Edit

LEMMA StepKeepsDirectories ==
  ASSUME CheckpointInv, CheckpointNext
  PROVE  DirectoryTypes' /\ TextTypes'
<1> USE CheckpointAssumption DEF CheckpointInv, TypeOK
<1>1. DirectoryTypes'
  <2>1. ASSUME NEW s \in Sessions, NEW r \in Runs, NEW hook \in BOOLEAN, Prepare(s, r, hook)
        PROVE  DirectoryTypes'
    <3>1. ASSUME NEW next \in Sequences(r), compactions' = [compactions EXCEPT ![r][next] = Empty]
          PROVE  DirectoryTypes'
      BY <3>1 DEF DirectoryTypes
    <3>2. CASE UNCHANGED compactions  BY <3>2 DEF DirectoryTypes
    <3>3. \/ UNCHANGED compactions
          \/ \E next \in Sequences(r) : compactions' = [compactions EXCEPT ![r][next] = Empty]
      BY <2>1, PrepareMakes
    <3> QED  BY <3>1, <3>2, <3>3
  <2>2. ASSUME NEW s \in Sessions, WriteManifest(s) PROVE DirectoryTypes'
    <3>1. PICK r \in Runs : prepare[s] \in PrepareRecords(r)  BY <2>2 DEF WriteManifest, PrepareTypes
    <3>2. prepare[s].run = r /\ authority[r] \in 0 .. MaxEdits  BY <3>1 DEF PrepareRecords, TextTypes
    <3> QED  BY <2>2, <3>2 DEF WriteManifest, DirectoryTypes
  <2>3. CASE UNCHANGED compactions  BY <2>3 DEF DirectoryTypes
  <2> QED
    BY <2>1, <2>2, <2>3, DirectorySteps
<1>2. TextTypes'
  <2>1. ASSUME NEW s \in Sessions, WriteLatest(s) PROVE TextTypes'
    <3>1. PICK r \in Runs : prepare[s] \in PrepareRecords(r)  BY <2>1 DEF WriteLatest, PrepareTypes
    <3>2. prepare[s].run = r /\ prepare[s].sequence \in 0 .. MaxSequence[r]  BY <3>1 DEF PrepareRecords
    <3> QED  BY <2>1, <3>2 DEF WriteLatest, TextTypes
  <2>2. ASSUME NEW r \in Runs, Edit(r) PROVE TextTypes'  BY <2>2 DEF Edit, TextTypes
  <2>3. CASE UNCHANGED <<latest, authority>>  BY <2>3 DEF TextTypes
  <2> QED
    BY <2>1, <2>2, <2>3 DEF CheckpointNext, Prepare, WriteManifest, WriteState, MarkCompacting,
       Killed, PostCompact, Rehydrate, Verify, Finish
<1> QED  BY <1>1, <1>2

LEMMA StepKeepsPrepares ==
  ASSUME CheckpointInv, CheckpointNext
  PROVE  PrepareTypes'
<1> USE CheckpointAssumption DEF CheckpointInv, TypeOK
<1>1. ASSUME NEW s \in Sessions, NEW r \in Runs, NEW hook \in BOOLEAN, Prepare(s, r, hook)
      PROVE  PrepareTypes'
  <2>1. state[r] \in StateRecords(r)  BY DEF StateTypes
  <2>2. [at |-> "compacting", run |-> r, sequence |-> state[r].sequence, read |-> state[r],
         hook |-> TRUE] \in PrepareRecords(r)
    BY <2>1 DEF PrepareRecords, StateRecords
  <2>3. \A next \in Sequences(r) :
          [at |-> "manifest", run |-> r, sequence |-> next, read |-> state[r], hook |-> hook]
            \in PrepareRecords(r)
    BY <2>1 DEF PrepareRecords, Sequences
  <2>4. ASSUME NEW x, prepare' = [prepare EXCEPT ![s] = x],
               \/ x = NoOne
               \/ x = [at |-> "compacting", run |-> r, sequence |-> state[r].sequence,
                       read |-> state[r], hook |-> TRUE]
               \/ \E next \in Sequences(r) : x = [at |-> "manifest", run |-> r, sequence |-> next,
                                                  read |-> state[r], hook |-> hook]
        PROVE  PrepareTypes'
    <3>1. x = NoOne \/ x \in PrepareRecords(r)  BY <2>2, <2>3, <2>4
    <3> QED  BY <2>4, <3>1, PrepareUpdate
  <2>5. \/ \E x : /\ x = NoOne \/ x = [at |-> "compacting", run |-> r,
                     sequence |-> state[r].sequence, read |-> state[r], hook |-> TRUE]
                  /\ prepare' = [prepare EXCEPT ![s] = x]
        \/ \E next \in Sequences(r) : prepare' = [prepare EXCEPT ![s] =
             [at |-> "manifest", run |-> r, sequence |-> next, read |-> state[r], hook |-> hook]]
    BY <1>1, PrepareMakes
  <2>6. CASE \E x : /\ x = NoOne \/ x = [at |-> "compacting", run |-> r,
                     sequence |-> state[r].sequence, read |-> state[r], hook |-> TRUE]
                  /\ prepare' = [prepare EXCEPT ![s] = x]
    BY <2>6, <2>4, Zenon
  <2>7. CASE \E next \in Sequences(r) : prepare' = [prepare EXCEPT ![s] =
             [at |-> "manifest", run |-> r, sequence |-> next, read |-> state[r], hook |-> hook]]
    BY <2>7, <2>4, Zenon
  <2> QED  BY <2>5, <2>6, <2>7, Zenon
<1>2. ASSUME NEW s \in Sessions, prepare[s] # NoOne,
             \/ prepare' = [prepare EXCEPT ![s] = NoOne]
             \/ \E at \in {"latest", "state", "compacting"} : prepare' = [prepare EXCEPT ![s].at = at]
      PROVE  PrepareTypes'
  <2>1. PICK r \in Runs : prepare[s] \in PrepareRecords(r)  BY <1>2 DEF PrepareTypes
  <2>2. \A at \in {"latest", "state", "compacting"} :
          [prepare[s] EXCEPT !.at = at] \in PrepareRecords(r)
    BY <2>1 DEF PrepareRecords
  <2> QED  BY <1>2, <2>2, PrepareUpdate
<1>3. ASSUME NEW s \in Sessions, WriteState(s) PROVE PrepareTypes'
  <2>1. \/ prepare' = [prepare EXCEPT ![s] = NoOne]
        \/ prepare' = [prepare EXCEPT ![s].at = "compacting"]
    BY <1>3 DEF WriteState
  <2> QED  BY <1>2, <1>3, <2>1 DEF WriteState
<1>4. ASSUME NEW s \in Sessions, WriteManifest(s) \/ WriteLatest(s) \/ MarkCompacting(s) \/ Killed(s)
      PROVE  PrepareTypes'
  BY <1>2, <1>4 DEF WriteManifest, WriteLatest, MarkCompacting, Killed
<1>5. CASE UNCHANGED prepare  BY <1>5 DEF PrepareTypes
<1> QED
  BY <1>1, <1>3, <1>4, <1>5, PrepareSteps

LEMMA StepKeepsPrefix ==
  ASSUME CheckpointInv, CheckpointNext
  PROVE  PrefixInv'
<1> USE CheckpointAssumption DEF CheckpointInv
<1>1. ASSUME NEW s \in Sessions, NEW q \in Runs, NEW hook \in BOOLEAN, Prepare(s, q, hook),
             NEW r \in Runs
      PROVE  \E k \in 0 .. MaxSequence[r] : Made(r, k)'
  <2>1. CASE UNCHANGED compactions  BY <2>1 DEF PrefixInv, Made
  <2>2. CASE ~UNCHANGED compactions
    <3>1. PICK next \in Sequences(q) :
            /\ next = LatestSequence(q) + 1 /\ compactions[q][next] = Absent
            /\ compactions' = [compactions EXCEPT ![q][next] = Empty]
      BY <1>1, <2>2, PrepareMakes
    <3>2. CASE r # q  BY <3>1, <3>2 DEF PrefixInv, Made, TypeOK, DirectoryTypes
    <3>3. CASE r = q
      <4>1. LatestSequence(r) \in Nat /\ Made(r, LatestSequence(r))  BY <3>3, LatestSequenceIsPrefix
      <4>2. next \in 0 .. MaxSequence[r]  BY <3>1, <3>3 DEF Sequences
      <4>3. ASSUME NEW n \in Sequences(r) PROVE compactions'[r][n] # Absent <=> n <= next
        <5>1. n \in Nat /\ (compactions[r][n] # Absent <=> n <= LatestSequence(r))
          BY <4>1 DEF Made, Sequences
        <5>2. compactions'[r][n] = IF n = next THEN Empty ELSE compactions[r][n]
          BY <3>1, <3>3 DEF TypeOK, DirectoryTypes
        <5> QED  BY <5>1, <5>2, <4>1, <3>1, <3>3
      <4> QED  BY <4>2, <4>3 DEF Made
    <3> QED  BY <3>2, <3>3
  <2> QED  BY <2>1, <2>2
<1>2. ASSUME NEW s \in Sessions, WriteManifest(s), NEW r \in Runs
      PROVE  \E k \in 0 .. MaxSequence[r] : Made(r, k)'
  <2>1. PICK q \in Runs : prepare[s] \in PrepareRecords(q)
    BY <1>2 DEF WriteManifest, TypeOK, PrepareTypes
  <2>2. prepare[s].run = q /\ authority[q] # Absent
    BY <2>1 DEF PrepareRecords, TypeOK, TextTypes
  <2>3. Directory(s) = Empty /\ prepare[s].sequence \in Sequences(q)
    BY <1>2, <2>2 DEF WriteManifest, DirectoryInv, Filling
  <2>4. \A n \in Sequences(r) : compactions'[r][n] # Absent <=> compactions[r][n] # Absent
    BY <1>2, <2>2, <2>3 DEF WriteManifest, Directory, TypeOK, DirectoryTypes
  <2> QED  BY <2>4 DEF PrefixInv, Made
<1>3. CASE UNCHANGED compactions  BY <1>3 DEF PrefixInv, Made
<1> QED
  BY <1>1, <1>2, <1>3, DirectorySteps DEF PrefixInv

LEMMA StepKeepsLatest ==
  ASSUME CheckpointInv, CheckpointNext
  PROVE  LatestIsWhole'
<1> USE CheckpointAssumption DEF CheckpointInv
<1>1. ManifestsKept  BY StepKeepsManifests
<1>2. \A r \in Runs : latest[r] # 0 => latest[r] \in Sequences(r)
  BY DEF TypeOK, TextTypes, Sequences
<1>3. ASSUME NEW s \in Sessions, WriteLatest(s) PROVE LatestIsWhole'
  <2>1. PICK q \in Runs : prepare[s] \in PrepareRecords(q)
    BY <1>3 DEF WriteLatest, TypeOK, PrepareTypes
  <2>2. prepare[s].run = q  BY <2>1 DEF PrepareRecords
  <2>3. IsManifest(compactions[q][prepare[s].sequence])
    BY <1>3, <2>2 DEF WriteLatest, DirectoryInv, Filled, Directory
  <2> QED  BY <1>3, <2>2, <2>3 DEF WriteLatest, LatestIsWhole, TypeOK, TextTypes
<1>4. CASE UNCHANGED latest  BY <1>1, <1>2, <1>4 DEF LatestIsWhole, ManifestsKept
<1> QED
  BY <1>3, <1>4 DEF CheckpointNext, Prepare, WriteManifest, WriteState, MarkCompacting, Killed,
     PostCompact, Rehydrate, Verify, Finish, Edit

\* The directory a prepare has just made is nobody else's: it was not there.
LEMMA StepKeepsDirectoryInv ==
  ASSUME CheckpointInv, CheckpointNext
  PROVE  DirectoryInv'
<1> USE DEF CheckpointInv
<1>0. ManifestsKept  BY StepKeepsManifests
<1>1. ASSUME NEW s \in Sessions, NEW r \in Runs, NEW hook \in BOOLEAN, Prepare(s, r, hook)
      PROVE  DirectoryInv'
  <2> DEFINE Makes(next) ==
        /\ compactions[r][next] = Absent
        /\ compactions' = [compactions EXCEPT ![r][next] = Empty]
        /\ prepare' = [prepare EXCEPT ![s] = [at |-> "manifest", run |-> r,
                         sequence |-> next, read |-> state[r], hook |-> hook]]
  <2>1. ASSUME UNCHANGED compactions, NEW x, x = NoOne \/ x.at = "compacting",
               prepare' = [prepare EXCEPT ![s] = x]
        PROVE  DirectoryInv'
    <3>1. prepare'[s] = x /\ \A t \in Sessions \ {s} : prepare'[t] = prepare[t]
      BY <2>1 DEF TypeOK, PrepareTypes
    <3> QED  BY <2>1, <3>1 DEF DirectoryInv, Filling, Filled, Directory
  <2>2. ASSUME NEW next \in Sequences(r), Makes(next)
        PROVE  DirectoryInv'
    <3>1. /\ compactions[r][next] = Absent
          /\ compactions' = [compactions EXCEPT ![r][next] = Empty]
          /\ prepare' = [prepare EXCEPT ![s] = [at |-> "manifest", run |-> r,
                           sequence |-> next, read |-> state[r], hook |-> hook]]
      BY <2>2
    <3>2. /\ prepare'[s].at = "manifest" /\ prepare'[s].run = r /\ prepare'[s].sequence = next
          /\ \A t \in Sessions \ {s} : prepare'[t] = prepare[t]
      BY <3>1 DEF TypeOK, PrepareTypes
    <3>3. /\ compactions'[r][next] = Empty
          /\ \A q \in Runs : \A n \in Sequences(q) :
               q # r \/ n # next => compactions'[q][n] = compactions[q][n]
      BY <3>1 DEF TypeOK, DirectoryTypes
    <3>4. \A t \in Sessions \ {s} : Filling(t) \/ Filled(t) =>
            /\ prepare[t].run \in Runs /\ prepare[t].sequence \in Sequences(prepare[t].run)
            /\ Directory(t) # Absent
      BY CheckpointAssumption DEF DirectoryInv, Filling, Filled, IsManifest, TypeOK, PrepareTypes, PrepareRecords
    <3>5. \A t \in Sessions \ {s} : Filling(t) \/ Filled(t) =>
            /\ prepare[t].run # r \/ prepare[t].sequence # next
            /\ Directory(t)' = Directory(t)
      BY <3>1, <3>2, <3>3, <3>4 DEF Directory
    <3> QED  BY <3>1, <3>2, <3>3, <3>4, <3>5 DEF DirectoryInv, Filling, Filled, Directory
  <2>3. \/ /\ UNCHANGED compactions
           /\ \E x : (x = NoOne \/ x.at = "compacting") /\ prepare' = [prepare EXCEPT ![s] = x]
        \/ \E next \in Sequences(r) : Makes(next)
    BY <1>1, PrepareMakes
  <2> HIDE DEF Makes
  <2> QED  BY <2>1, <2>2, <2>3
<1>2. ASSUME NEW s \in Sessions, WriteManifest(s)
      PROVE  DirectoryInv'
  <2>1. PICK q \in Runs : prepare[s] \in PrepareRecords(q)
    BY <1>2 DEF WriteManifest, TypeOK, PrepareTypes
  <2> DEFINE n == prepare[s].sequence
  <2>2. /\ prepare[s].run = q /\ n \in Sequences(q) /\ compactions[q][n] = Empty
        /\ Filling(s) /\ authority[q] \in Nat
    BY <1>2, <2>1, CheckpointAssumption
       DEF WriteManifest, DirectoryInv, Filling, Directory, PrepareRecords, TypeOK, TextTypes
  <2>3. /\ compactions'[q][n] = authority[q]
        /\ \A r \in Runs : \A m \in Sequences(r) :
             r # q \/ m # n => compactions'[r][m] = compactions[r][m]
    BY <1>2, <2>2 DEF WriteManifest, TypeOK, DirectoryTypes
  <2>4. /\ prepare'[s].at = "latest" /\ prepare'[s].run = q /\ prepare'[s].sequence = n
        /\ \A t \in Sessions \ {s} : prepare'[t] = prepare[t]
    BY <1>2, <2>1, <2>2 DEF WriteManifest, TypeOK, PrepareTypes, PrepareRecords
  <2>5. IsManifest(authority[q])  BY <2>2, CheckpointAssumption DEF IsManifest
  <2>6. \A t \in Sessions \ {s} : Filling(t) \/ Filled(t) =>
          /\ prepare[t].run \in Runs /\ prepare[t].sequence \in Sequences(prepare[t].run)
          /\ prepare[t].run # q \/ prepare[t].sequence # n
    <3>1. \A t \in Sessions \ {s} : Filling(t) \/ Filled(t) =>
            prepare[t].run \in Runs /\ prepare[t].sequence \in Sequences(prepare[t].run)
      BY DEF DirectoryInv, Filling, Filled, TypeOK, PrepareTypes, PrepareRecords
    <3>2. \A t \in Sessions \ {s} : Filling(t) => prepare[t].run # q \/ prepare[t].sequence # n
      BY <2>2 DEF DirectoryInv
    <3>3. \A t \in Sessions \ {s} : Filled(t) => prepare[t].run # q \/ prepare[t].sequence # n
      BY <2>2 DEF DirectoryInv, Directory, IsManifest
    <3> QED  BY <3>1, <3>2, <3>3
  <2>7. \A t \in Sessions \ {s} : Filling(t) \/ Filled(t) => Directory(t)' = Directory(t)
    BY <2>3, <2>4, <2>6 DEF Directory
  <2>8. Directory(s)' = authority[q]  BY <2>3, <2>4 DEF Directory
  <2> QED  BY <2>2, <2>4, <2>5, <2>6, <2>7, <2>8 DEF DirectoryInv, Filling, Filled
<1>3. ASSUME NEW s \in Sessions, NEW x, prepare[s] # NoOne, UNCHANGED compactions,
             prepare' = [prepare EXCEPT ![s] = x],
             \/ x = NoOne \/ x.at = "compacting"
             \/ Filled(s) /\ x.at = "state" /\ x.run = prepare[s].run /\ x.sequence = prepare[s].sequence
      PROVE  DirectoryInv'
  <2>1. prepare'[s] = x /\ \A t \in Sessions \ {s} : prepare'[t] = prepare[t]
    BY <1>3 DEF TypeOK, PrepareTypes
  <2> QED  BY <1>3, <2>1 DEF DirectoryInv, Filling, Filled, Directory
<1>4. ASSUME NEW s \in Sessions,
             WriteLatest(s) \/ WriteState(s) \/ MarkCompacting(s) \/ Killed(s)
      PROVE  DirectoryInv'
  <2>1. PICK q \in Runs : prepare[s] \in PrepareRecords(q)
    BY <1>4 DEF WriteLatest, WriteState, MarkCompacting, Killed, TypeOK, PrepareTypes
  <2>2. CASE WriteLatest(s)
    <3> DEFINE x == [prepare[s] EXCEPT !.at = "state"]
    <3>1. x.at = "state" /\ x.run = prepare[s].run /\ x.sequence = prepare[s].sequence
      BY <2>1 DEF PrepareRecords
    <3>2. Filled(s) /\ prepare' = [prepare EXCEPT ![s] = x] /\ UNCHANGED compactions
      BY <2>2 DEF WriteLatest, Filled
    <3> HIDE DEF x
    <3> QED  BY <3>1, <3>2, <1>3 DEF Filled
  <2>3. CASE WriteState(s)
    <3> DEFINE x == [prepare[s] EXCEPT !.at = "compacting"]
    <3>1. x.at = "compacting"  BY <2>1 DEF PrepareRecords
    <3>2. /\ prepare[s] # NoOne /\ UNCHANGED compactions
          /\ \/ prepare' = [prepare EXCEPT ![s] = x]
             \/ prepare' = [prepare EXCEPT ![s] = NoOne]
      BY <2>3 DEF WriteState
    <3> HIDE DEF x
    <3> QED  BY <3>1, <3>2, <1>3
  <2>4. CASE MarkCompacting(s) \/ Killed(s)
    BY <2>4, <1>3 DEF MarkCompacting, Killed
  <2> QED  BY <1>4, <2>2, <2>3, <2>4
<1>5. CASE UNCHANGED <<prepare, compactions>>
  BY <1>5 DEF DirectoryInv, Filling, Filled, Directory
<1> QED  BY <1>1, <1>2, <1>4, <1>5, PrepareSteps

\* A step that names nothing new keeps what is named, since manifests are kept.
LEMMA NamedKept ==
  ASSUME CheckpointInv, ManifestsKept, NEW r \in Runs, NEW x \in StateRecords(r),
         x.named # 0 => IsManifest(compactions[r][x.named])
  PROVE  x.named # 0 => IsManifest(compactions'[r][x.named])
BY CheckpointAssumption DEF ManifestsKept, StateRecords, Sequences

LEMMA StepKeepsNamed ==
  ASSUME CheckpointInv, CheckpointNext
  PROVE  NamedInv'
<1> USE DEF CheckpointInv
<1>0. ManifestsKept  BY StepKeepsManifests
<1> DEFINE Good(r, x) == x \in StateRecords(r) /\ (x.named # 0 => IsManifest(compactions[r][x.named]))
           Better(r, x) == x.named # 0 => IsManifest(compactions'[r][x.named])
<1>1. \A r \in Runs : \A x \in StateRecords(r) : Good(r, x) => Better(r, x)
  BY <1>0, NamedKept
<1>2. ASSUME NEW r \in Runs PROVE Good(r, state[r])
  BY DEF NamedInv, TypeOK, StateTypes
<1>3. ASSUME NEW s \in Sessions, prepare[s] # NoOne
      PROVE  prepare[s].run \in Runs /\ Good(prepare[s].run, prepare[s].read)
  BY <1>3 DEF NamedInv, TypeOK, PrepareTypes, PrepareRecords
<1>4. ASSUME NEW r \in Runs PROVE Better(r, state'[r])
  <2>1. CASE state'[r].named = state[r].named
    BY <1>1, <1>2, <2>1 DEF StateRecords
  <2>2. ASSUME NEW s \in Sessions, WriteState(s), prepare[s].run = r
        PROVE  Better(r, state'[r])
    <3>1. PICK q \in Runs : prepare[s] \in PrepareRecords(q)
      BY <2>2 DEF WriteState, TypeOK, PrepareTypes
    <3>2. state'[r].named = prepare[s].sequence /\ UNCHANGED compactions
      BY <2>2, <3>1 DEF WriteState, TypeOK, StateTypes, PrepareRecords, StateRecords
    <3>3. IsManifest(Directory(s))  BY <2>2 DEF WriteState, DirectoryInv, Filled
    <3> QED  BY <2>2, <3>2, <3>3 DEF Directory
  <2>3. CASE Verify(r)
    <3>1. state'[r].named = LatestCheckpoint(r) /\ UNCHANGED compactions
          /\ IsManifest(compactions[r][LatestCheckpoint(r)])
      BY <2>3 DEF Verify, Recorded, TypeOK, StateTypes, StateRecords
    <3> QED  BY <3>1
  <2>4. \/ state'[r].named = state[r].named
        \/ \E s \in Sessions : WriteState(s) /\ prepare[s].run = r
        \/ Verify(r)
    <3>0. DOMAIN state = Runs /\ state[r] \in StateRecords(r)  BY DEF TypeOK, StateTypes
    <3>1. ASSUME NEW s \in Sessions,
                 WriteState(s) \/ MarkCompacting(s) \/ PostCompact(s) \/ Rehydrate(s)
          PROVE  state'[r].named = state[r].named \/ (WriteState(s) /\ prepare[s].run = r)
      <4>1. CASE WriteState(s)  BY <3>0, <4>1 DEF WriteState
      <4>2. CASE MarkCompacting(s)  BY <3>0, <4>2 DEF MarkCompacting, StateRecords
      <4>3. CASE PostCompact(s)
        <5>1. \E q, n : state' = [state EXCEPT ![q].status = "rehydration-required", ![q].sequence = n]
          BY <4>3 DEF PostCompact
        <5> QED  BY <3>0, <5>1 DEF StateRecords
      <4>4. CASE Rehydrate(s)
        <5>1. \E q : state' = [state EXCEPT ![q].status = "rehydration-required"]
          BY <4>4 DEF Rehydrate
        <5> QED  BY <3>0, <5>1 DEF StateRecords
      <4> QED  BY <3>1, <4>1, <4>2, <4>3, <4>4
    <3>2. ASSUME NEW q \in Runs, Verify(q) \/ Finish(q)
          PROVE  state'[r].named = state[r].named \/ Verify(r)
      BY <3>2 DEF Verify, Finish, TypeOK, StateTypes, StateRecords
    <3>3. CASE UNCHANGED state  BY <3>3
    <3> QED
      BY <3>1, <3>2, <3>3 DEF CheckpointNext, Prepare, WriteManifest, WriteLatest, Killed, Edit
  <2> QED  BY <2>1, <2>2, <2>3, <2>4
<1>5. ASSUME NEW t \in Sessions, prepare'[t] # NoOne
      PROVE  Better(prepare'[t].run, prepare'[t].read)
  <2>1. CASE prepare[t] # NoOne /\ prepare'[t].run = prepare[t].run /\ prepare'[t].read = prepare[t].read
    BY <1>1, <1>3, <2>1
  <2>2. ASSUME NEW r \in Runs, prepare'[t].run = r, prepare'[t].read = state[r]
        PROVE  Better(prepare'[t].run, prepare'[t].read)
    BY <1>1, <1>2, <2>2
  <2> DEFINE Kept == /\ prepare[t] # NoOne
                     /\ prepare'[t].run = prepare[t].run /\ prepare'[t].read = prepare[t].read
             Fresh == \E r \in Runs : prepare'[t].run = r /\ prepare'[t].read = state[r]
  <2>3. ASSUME NEW s \in Sessions, NEW r \in Runs, NEW hook \in BOOLEAN, Prepare(s, r, hook)
        PROVE  Kept \/ Fresh
    <3>1. ASSUME NEW x, prepare' = [prepare EXCEPT ![s] = x],
                 x = NoOne \/ (x.run = r /\ x.read = state[r])
          PROVE  Kept \/ Fresh
      BY <3>1, <1>5 DEF TypeOK, PrepareTypes
    <3>2. \E x : /\ x = NoOne \/ (x.run = r /\ x.read = state[r])
                 /\ prepare' = [prepare EXCEPT ![s] = x]
      <4>1. \/ \E x : /\ x = NoOne \/ x = [at |-> "compacting", run |-> r,
                          sequence |-> state[r].sequence, read |-> state[r], hook |-> TRUE]
                      /\ prepare' = [prepare EXCEPT ![s] = x]
            \/ \E next \in Sequences(r) : prepare' = [prepare EXCEPT ![s] =
                 [at |-> "manifest", run |-> r, sequence |-> next, read |-> state[r], hook |-> hook]]
        BY <2>3, PrepareMakes
      <4>2. ASSUME NEW x, x = NoOne \/ x = [at |-> "compacting", run |-> r,
                          sequence |-> state[r].sequence, read |-> state[r], hook |-> TRUE]
            PROVE  x = NoOne \/ (x.run = r /\ x.read = state[r])
        BY <4>2
      <4>3. ASSUME NEW next PROVE
              LET x == [at |-> "manifest", run |-> r, sequence |-> next, read |-> state[r], hook |-> hook]
              IN  x.run = r /\ x.read = state[r]
        OBVIOUS
      <4> QED  BY <4>1, <4>2, <4>3, Zenon
    <3> QED  BY <3>1, <3>2, Zenon
  <2>4. ASSUME NEW s \in Sessions,
               WriteManifest(s) \/ WriteLatest(s) \/ WriteState(s) \/ MarkCompacting(s) \/ Killed(s)
        PROVE  Kept
    <3>1. PICK q \in Runs : prepare[s] \in PrepareRecords(q)
      BY <2>4 DEF WriteManifest, WriteLatest, WriteState, MarkCompacting, Killed, TypeOK, PrepareTypes
    <3>2. \/ prepare' = [prepare EXCEPT ![s] = NoOne]
          \/ \E at : prepare' = [prepare EXCEPT ![s].at = at]
      BY <2>4 DEF WriteManifest, WriteLatest, WriteState, MarkCompacting, Killed
    <3>3. CASE t # s  BY <3>2, <3>3, <1>5 DEF TypeOK, PrepareTypes
    <3>4. ASSUME t = s, NEW at, prepare' = [prepare EXCEPT ![s].at = at] PROVE Kept
      <4>1. prepare'[t] = [prepare[t] EXCEPT !.at = at]  BY <3>4 DEF TypeOK, PrepareTypes
      <4>2. prepare[t] # NoOne  BY <2>4, <3>4 DEF WriteManifest, WriteLatest, WriteState, MarkCompacting, Killed
      <4> QED  BY <3>1, <3>4, <4>1, <4>2 DEF PrepareRecords
    <3> QED  BY <3>2, <3>3, <3>4, <1>5 DEF TypeOK, PrepareTypes
  <2>5. CASE UNCHANGED <<prepare, compactions>>  BY <2>5, <1>5, <2>1
  <2> QED  BY <2>1, <2>2, <2>3, <2>4, <2>5, PrepareSteps
<1> QED  BY <1>4, <1>5 DEF NamedInv

LEMMA StepKeepsResumed ==
  ASSUME CheckpointInv, CheckpointNext, TypeOK', NamedInv'
  PROVE  ResumedIsValid'
<1> SUFFICES ASSUME NEW r \in Runs, state'[r].status = "resumed"
             PROVE  ValidCheckpoint(r)'
  BY DEF ResumedIsValid
<1> USE DEF CheckpointInv
<1>1. DOMAIN state = Runs /\ state[r] \in StateRecords(r)  BY DEF TypeOK, StateTypes
<1>2. \/ state'[r].status # "resumed"
      \/ /\ state[r].status = "resumed" /\ state'[r].sequence = state[r].sequence
         /\ state'[r].named = state[r].named /\ state'[r].verified = state[r].verified
      \/ Verify(r)
  <2>1. ASSUME NEW s \in Sessions,
               WriteState(s) \/ MarkCompacting(s) \/ PostCompact(s) \/ Rehydrate(s)
        PROVE  state'[r].status # "resumed" \/ <1>2!2
    <3>1. CASE WriteState(s)
      <4>1. PICK q \in Runs : prepare[s] \in PrepareRecords(q)
        BY <3>1 DEF WriteState, TypeOK, PrepareTypes
      <4> QED  BY <1>1, <3>1, <4>1 DEF WriteState, PrepareRecords, StateRecords
    <3>2. CASE MarkCompacting(s)  BY <1>1, <3>2 DEF MarkCompacting, StateRecords
    <3>3. CASE PostCompact(s)
      <4>1. \E q, n : state' = [state EXCEPT ![q].status = "rehydration-required", ![q].sequence = n]
        BY <3>3 DEF PostCompact
      <4> QED  BY <1>1, <4>1 DEF StateRecords
    <3>4. CASE Rehydrate(s)
      <4>1. \E q : state' = [state EXCEPT ![q].status = "rehydration-required"]
        BY <3>4 DEF Rehydrate
      <4> QED  BY <1>1, <4>1 DEF StateRecords
    <3> QED  BY <2>1, <3>1, <3>2, <3>3, <3>4
  <2>2. ASSUME NEW q \in Runs, Verify(q) \/ Finish(q)
        PROVE  <1>2!2 \/ state'[r].status # "resumed" \/ Verify(r)
    <3>1. CASE q # r  BY <1>1, <2>2, <3>1 DEF Verify, Finish
    <3>2. CASE Finish(r)  BY <1>1, <3>2 DEF Finish, StateRecords
    <3> QED  BY <2>2, <3>1, <3>2
  <2>3. CASE UNCHANGED state  BY <2>3
  <2> QED
    BY <2>1, <2>2, <2>3 DEF CheckpointNext, Prepare, WriteManifest, WriteLatest, Killed, Edit
<1>3. CASE state[r].status = "resumed" /\ state'[r].sequence = state[r].sequence
           /\ state'[r].named = state[r].named /\ state'[r].verified = state[r].verified
  BY <1>3 DEF ResumedIsValid, ValidCheckpoint, NamedInv
<1>4. CASE Verify(r)
  <2>1. /\ state'[r].sequence = LatestCheckpoint(r) /\ state'[r].named = LatestCheckpoint(r)
        /\ LatestCheckpoint(r) # 0 /\ state'[r].verified
    BY <1>1, <1>4 DEF Verify, StateRecords
  <2> QED  BY <2>1 DEF ValidCheckpoint, NamedInv
<1> QED  BY <1>2, <1>3, <1>4

LEMMA CheckpointStutter == CheckpointInv /\ UNCHANGED checkpointVars => CheckpointInv'
<1> SUFFICES ASSUME CheckpointInv, UNCHANGED checkpointVars PROVE CheckpointInv'  OBVIOUS
<1> USE DEF CheckpointInv, checkpointVars
<1>1. TypeOK'  BY DEF TypeOK, StateTypes, DirectoryTypes, TextTypes, PrepareTypes
<1>2. DirectoryInv'  BY DEF DirectoryInv, Filling, Filled, Directory
<1>3. PrefixInv'  BY DEF PrefixInv, Made
<1>4. LatestIsWhole' /\ NamedInv'  BY DEF LatestIsWhole, NamedInv
<1>5. ResumedIsValid'  BY DEF ResumedIsValid, ValidCheckpoint
<1> QED  BY <1>1, <1>2, <1>3, <1>4, <1>5

-----------------------------------------------------------------------------
(* Theorems *)

\* Directories, names and the prepares under way are what they should be in every state of
\* every behaviour: the inductive invariant of scripts/context_checkpoint.py's prepare.
THEOREM CheckpointInvariant == CheckpointSpec => []CheckpointInv
<1>1. CheckpointInit => CheckpointInv  BY CheckpointStart
<1>2. CheckpointInv /\ [CheckpointNext]_checkpointVars => CheckpointInv'
  <2>1. ASSUME CheckpointInv, CheckpointNext PROVE CheckpointInv'
    <3>1. TypeOK'  BY <2>1, StepKeepsStates, StepKeepsDirectories, StepKeepsPrepares DEF TypeOK
    <3>2. NamedInv'  BY <2>1, StepKeepsNamed
    <3>3. DirectoryInv' /\ PrefixInv' /\ LatestIsWhole'
      BY <2>1, StepKeepsDirectoryInv, StepKeepsPrefix, StepKeepsLatest
    <3>4. ResumedIsValid'  BY <2>1, <3>1, <3>2, StepKeepsResumed
    <3> QED  BY <3>1, <3>2, <3>3, <3>4 DEF CheckpointInv
  <2> QED  BY <2>1, CheckpointStutter
<1> QED  BY <1>1, <1>2, PTL DEF CheckpointSpec

\* A run that state calls resumed names a checkpoint that is whole and was verified, whatever
\* hooks of whatever sessions did to it and wherever they were killed.
THEOREM ResumedRunsAreValid == CheckpointSpec => []ResumedIsValid
BY CheckpointInvariant, PTL DEF CheckpointInv

\* LATEST never names a directory without its manifest.
THEOREM LatestNamesAManifest == CheckpointSpec => []LatestIsWhole
BY CheckpointInvariant, PTL DEF CheckpointInv

\* What a manifest recorded is never written again.
THEOREM ManifestsAreKept == CheckpointSpec => CheckpointsKept
<1>1. CheckpointInv /\ [CheckpointNext]_checkpointVars =>
        [ManifestsKept]_checkpointVars
  BY StepKeepsManifests
<1> QED  BY <1>1, CheckpointInvariant, PTL DEF CheckpointSpec, CheckpointsKept, ManifestsKept


-----------------------------------------------------------------------------
(* What reached a worker.  As long as nothing of the module was read, nothing that is remembered  *)
(* is its source (CleanInv); and as long as every source line was charged as such, all that is    *)
(* remembered of source lines says so (HistoryInv).                                               *)

OriginNames ==
  {"application", "behaviour", "harness", "implementation-metadata", "implementation-runtime",
   "implementation-source", "model-derived", "other", "public-contract", "unresolved"}

ContextTypes ==
  /\ scratch \subseteq Lines /\ shown \subseteq Lines
  /\ artifacts \in [Paths -> OriginNames \cup {Nothing}]
  /\ DOMAIN sourceLines \subseteq Marks
  /\ \A l \in DOMAIN sourceLines : sourceLines[l] \in OriginNames
  /\ \A k \in DOMAIN content : content[k] \in OriginNames
  /\ DOMAIN charged = Marks

CleanInv == ~reached =>
  /\ \A p \in Paths : artifacts[p] # "implementation-source"
  /\ \A k \in DOMAIN content : content[k] # "implementation-source"
  /\ \A l \in DOMAIN sourceLines : sourceLines[l] # "implementation-source"
  /\ accounts.source = {}

AllSource == \A m \in Marks : \A c \in charged[m] : c.origin = "implementation-source"
HistoryInv == AllSource =>
  /\ \A l \in Marks : charged[l] # {} => l \in DOMAIN sourceLines
  /\ \A l \in DOMAIN sourceLines : sourceLines[l] = "implementation-source"
  /\ \A k \in DOMAIN content : k \cap Marks # {} => content[k] = "implementation-source"

ContextInv == ContextTypes /\ CleanInv /\ HistoryInv

LEMMA OriginsAre ==
  /\ {Origins[i] : i \in DOMAIN Origins} = OriginNames
  /\ \A o \in OriginNames : Rank(o) \in 1 .. 10
<1>1. DOMAIN Origins = 1 .. 10  BY DEF Origins
<1>2. /\ Origins[1] = "application" /\ Origins[2] = "behaviour" /\ Origins[3] = "harness"
      /\ Origins[4] = "implementation-metadata" /\ Origins[5] = "implementation-runtime"
      /\ Origins[6] = "implementation-source" /\ Origins[7] = "model-derived" /\ Origins[8] = "other"
      /\ Origins[9] = "public-contract" /\ Origins[10] = "unresolved"
  BY DEF Origins
<1>3. \A i \in 1 .. 10 : Origins[i] \in OriginNames
  <2> TAKE i \in 1 .. 10
  <2>1. i \in {1, 2, 3, 4, 5, 6, 7, 8, 9, 10}  OBVIOUS
  <2> QED  BY <1>2, <2>1 DEF OriginNames
<1>4. \A o \in OriginNames : \E i \in 1 .. 10 : Origins[i] = o
  <2> TAKE o \in OriginNames
  <2>1. \E i \in {1, 2, 3, 4, 5, 6, 7, 8, 9, 10} : Origins[i] = o
    <3> HIDE DEF Origins
    <3> QED  BY <1>2 DEF OriginNames
  <2>2. {1, 2, 3, 4, 5, 6, 7, 8, 9, 10} \subseteq 1 .. 10  OBVIOUS
  <2> QED  BY <2>1, <2>2
<1> HIDE DEF Origins
<1>5. {Origins[i] : i \in DOMAIN Origins} = OriginNames  BY <1>1, <1>3, <1>4
<1>6. \A o \in OriginNames : Rank(o) \in 1 .. 10
  <2> TAKE o \in OriginNames
  <2>1. \E i \in DOMAIN Origins : Origins[i] = o  BY <1>1, <1>4
  <2>2. Rank(o) = CHOOSE i \in DOMAIN Origins : Origins[i] = o  BY DEF Rank
  <2> QED  BY <1>1, <2>1, <2>2
<1> QED  BY <1>5, <1>6

LEMMA FormsAre ==
  /\ DOMAIN Forms = 1 .. 4
  /\ {Forms[i] : i \in DOMAIN Forms} = {"source-form", "disassembly", "runtime-structure", "path-metadata"}
  /\ \A i \in DOMAIN Forms : Forms[i] \in {"source-form", "disassembly", "runtime-structure", "path-metadata"}
<1>1. DOMAIN Forms = 1 .. 4  BY DEF Forms
<1>2. /\ Forms[1] = "source-form" /\ Forms[2] = "disassembly" /\ Forms[3] = "runtime-structure"
      /\ Forms[4] = "path-metadata"
  BY DEF Forms
<1>3. 1 .. 4 = {1, 2, 3, 4}  OBVIOUS
<1> HIDE DEF Forms
<1> QED  BY <1>1, <1>2, <1>3

LEMMA NothingIsNoOrigin ==
  Nothing \notin OriginNames /\ Nothing \notin Paths
  /\ Nothing \notin {"source-form", "disassembly", "runtime-structure", "path-metadata"}
BY ContextAssumption, OriginsAre, FormsAre

LEMMA TextsAreFinite ==
  ASSUME NEW text \in SUBSET Lines
  PROVE  IsFiniteSet(text) /\ Cardinality(text) \in Nat /\ (text # {} => Cardinality(text) > 0)
<1>1. IsFiniteSet(Lines)
  <2>1. Lines = {"docline", "srcline", "opcodes", "namespace", "filename", "private", "prose"}
    BY DEF Lines, Marks
  <2> DEFINE a == {"docline"}
             b == a \cup {"srcline"}
             c == b \cup {"opcodes"}
             d == c \cup {"namespace"}
             e == d \cup {"filename"}
             f == e \cup {"private"}
             g == f \cup {"prose"}
  <2>2. IsFiniteSet(a)  BY FS_Singleton
  <2>3. IsFiniteSet(b)  BY <2>2, FS_AddElement
  <2>4. IsFiniteSet(c)  BY <2>3, FS_AddElement
  <2>5. IsFiniteSet(d)  BY <2>4, FS_AddElement
  <2>6. IsFiniteSet(e)  BY <2>5, FS_AddElement
  <2>7. IsFiniteSet(f)  BY <2>6, FS_AddElement
  <2>8. IsFiniteSet(g)  BY <2>7, FS_AddElement
  <2>9. g = Lines  BY <2>1
  <2> QED  BY <2>8, <2>9
<1>2. IsFiniteSet(text)  BY <1>1, FS_Subset
<1>3. Cardinality(text) \in Nat /\ (Cardinality(text) = 0 <=> text = {})
  BY <1>2, FS_CardinalityType, FS_EmptySet
<1> QED  BY <1>2, <1>3

LEMMA ComponentsAreMarks ==
  ASSUME NEW text \in SUBSET Lines, NEW f
  PROVE  /\ Component(text, f) \subseteq text
         /\ f = "source-form" => Component(text, f) = text \cap Marks
         /\ f # "source-form" => Component(text, f) \cap Marks = {}
<1>1. \A l \in Lines : FormOfLine[l] = "source-form" <=> l \in Marks  BY DEF FormOfLine, Lines, Marks
<1>2. Component(text, f) = {l \in text : FormOfLine[l] = f}  BY DEF Component
<1> HIDE DEF FormOfLine
<1> QED  BY <1>1, <1>2 DEF Lines


LEMMA Smallest ==
  ASSUME NEW S, S \subseteq Nat, S # {}
  PROVE  \E i \in S : \A j \in S : i <= j
<1>1. PICK i \in S : \A j \in S : <<j, i>> \notin OpToRel(<, Nat)
  <2>1. PICK R : R = OpToRel(<, Nat)  OBVIOUS
  <2>2. IsWellFoundedOn(R, Nat)  BY <2>1, NatLessThanWellFounded
  <2>3. \E i \in S : \A j \in S : <<j, i>> \notin R  BY <2>2, WFMin
  <2> QED  BY <2>1, <2>3
<1>2. \A j \in S : ~(j < i)  BY <1>1 DEF OpToRel
<1> QED  BY <1>2

\* Lines that were delivered before are what most of them were then.
LEMMA EchoOfIs ==
  ASSUME ContextTypes, NEW lines \in SUBSET Lines
  PROVE  /\ lines \in DOMAIN content => EchoOf(lines) = content[lines]
         /\ lines \notin DOMAIN content /\ lines \cap DOMAIN sourceLines = {} => EchoOf(lines) = Nothing
         /\ lines \notin DOMAIN content /\ lines \cap DOMAIN sourceLines # {} =>
              EchoOf(lines) \in {sourceLines[l] : l \in lines \cap DOMAIN sourceLines}
<1> DEFINE seen == {l \in lines : l \in DOMAIN sourceLines}
           tally(o) == Cardinality({l \in seen : sourceLines[l] = o})
           origins == {sourceLines[l] : l \in seen}
           first(o) == \A p \in origins :
                         tally(o) > tally(p) \/ (tally(o) = tally(p) /\ Rank(o) >= Rank(p))
<1>1. EchoOf(lines) = IF lines \in DOMAIN content THEN content[lines]
                      ELSE IF seen = {} THEN Nothing ELSE CHOOSE o \in origins : first(o)
  BY DEF EchoOf
<1>2. seen = lines \cap DOMAIN sourceLines  OBVIOUS
<1>3. ASSUME seen # {} PROVE \E o \in origins : first(o)
  <2>1. IsFiniteSet(seen) /\ Cardinality(seen) \in Nat  BY TextsAreFinite
  <2>2. ASSUME NEW o PROVE tally(o) \in Nat /\ tally(o) <= Cardinality(seen)
    <3>1. {l \in seen : sourceLines[l] = o} \subseteq seen  OBVIOUS
    <3>2. IsFiniteSet({l \in seen : sourceLines[l] = o})
          /\ Cardinality({l \in seen : sourceLines[l] = o}) <= Cardinality(seen)
      BY <2>1, <3>1, FS_Subset
    <3> QED  BY <3>2, FS_CardinalityType
  <2>3. origins \subseteq OriginNames  BY DEF ContextTypes
  <2>4. origins # {}  BY <1>3
  <2>5. PICK n \in Nat : n = Cardinality(seen)  BY <2>1
  <2> DEFINE behind(o) == 11 * n + 10 - (11 * tally(o) + Rank(o))
             S == {behind(o) : o \in origins}
  <2>6. ASSUME NEW o \in origins PROVE tally(o) \in Nat /\ tally(o) <= n /\ Rank(o) \in 1 .. 10
    BY <2>2, <2>3, <2>5, OriginsAre
  <2> HIDE DEF seen, tally, origins
  <2>7. S \subseteq Nat /\ S # {}
    <3>1. ASSUME NEW o \in origins PROVE behind(o) \in Nat  BY <2>6
    <3> QED  BY <2>4, <3>1
  <2>8. PICK o \in origins : \A p \in origins : behind(o) <= behind(p)
    <3>1. PICK T : T = S  OBVIOUS
    <3>2. T \subseteq Nat /\ T # {}  BY <2>7, <3>1
    <3>3. PICK m \in T : \A j \in T : m <= j  BY <3>2, Smallest
    <3> HIDE DEF behind
    <3>4. PICK o \in origins : m = behind(o)  BY <3>1, <3>3
    <3>5. \A p \in origins : behind(p) \in T  BY <3>1
    <3> QED  BY <3>3, <3>4, <3>5
  <2>9. ASSUME NEW p \in origins
        PROVE  tally(o) > tally(p) \/ (tally(o) = tally(p) /\ Rank(o) >= Rank(p))
    <3>1. PICK a, b, q, r : a = tally(o) /\ b = tally(p) /\ q = Rank(o) /\ r = Rank(p)  OBVIOUS
    <3>2. a \in Nat /\ b \in Nat /\ q \in 1 .. 10 /\ r \in 1 .. 10  BY <2>6, <3>1
    <3>3. 11 * n + 10 - (11 * a + q) <= 11 * n + 10 - (11 * b + r)  BY <2>8, <3>1
    <3>4. a > b \/ (a = b /\ q >= r)  BY <3>2, <3>3
    <3> QED  BY <3>1, <3>4
  <2> QED  BY <2>9
<1>4. seen # {} => (CHOOSE o \in origins : first(o)) \in origins
  <2> HIDE DEF origins, first, seen
  <2> QED  BY <1>3
<1>5. origins = {sourceLines[l] : l \in lines \cap DOMAIN sourceLines}  OBVIOUS
<1> HIDE DEF origins, first, seen
<1> QED  BY <1>1, <1>2, <1>4, <1>5


\* A part as the program puts it: what it is kept under was opened, and is no directory.
IsInput(in) ==
  /\ in.text \in SUBSET Lines /\ in.referenced \subseteq Paths
  /\ in.artifact # Nothing => in.artifact \in Paths \ {"module-directory"} /\ in.artifact \in in.opened
  /\ in.hint \in {"command", "harness", "application", Nothing}
Reads(in) == \E p \in in.opened : IsModuleSourceFile(p)

\* The evidence of a part only says source if source was opened, or written to what it came from.
LEMMA EvidenceIs ==
  ASSUME ContextTypes, NEW in, IsInput(in)
  PROVE  /\ Evidence(in).requested \in OriginNames
         /\ Evidence(in).ancestry \in OriginNames \cup {Nothing}
         /\ (\A p \in Paths : artifacts[p] # "implementation-source") /\ ~Reads(in) =>
              /\ Evidence(in).requested # "implementation-source"
              /\ Evidence(in).ancestry # "implementation-source"
<1> DEFINE location == IF in.artifact = Nothing THEN "other" ELSE ClassifyFile(in.artifact)
           inherited == {p \in in.referenced : artifacts[p] # Nothing}
           hint == IF in.hint = "command" THEN CommandProvenance(in.route, in.text, Reads(in))
                   ELSE IF in.hint = Nothing THEN "other" ELSE in.hint
           found(requested, basis, ancestry) ==
             [requested |-> requested, basis |-> basis, ancestry |-> ancestry]
<1>1. Evidence(in) =
        CASE inherited # {} -> found(location, "ancestry", artifacts[CHOOSE p \in inherited : TRUE])
          [] inherited = {} /\ location \in Settling -> found(location, "artifact-path", Nothing)
          [] inherited = {} /\ in.author -> found("model-derived", "author", Nothing)
          [] OTHER -> IF location # "other" \/ hint = "other" THEN found(location, "default", Nothing)
                      ELSE found(hint, IF Reads(in) THEN "artifact-path" ELSE "command-route", Nothing)
  BY DEF Evidence, Reads
<1>2. location \in OriginNames /\ (~Reads(in) => location # "implementation-source")
  BY DEF IsInput, ClassifyFile, Reads, IsModuleSourceFile, OriginNames, Paths
<1>3. hint \in OriginNames /\ (~Reads(in) => hint # "implementation-source")
  <2>1. /\ CommandProvenance(in.route, in.text, Reads(in)) \in OriginNames
        /\ ~Reads(in) => CommandProvenance(in.route, in.text, Reads(in)) # "implementation-source"
    BY DEF CommandProvenance, OriginNames
  <2> QED  BY <2>1 DEF IsInput, OriginNames
<1>4. inherited # {} =>
        (CHOOSE p \in inherited : TRUE) \in Paths /\ artifacts[CHOOSE p \in inherited : TRUE] \in OriginNames
  <2>1. \A p \in inherited : p \in Paths /\ artifacts[p] \in OriginNames
    BY DEF IsInput, ContextTypes
  <2> HIDE DEF inherited
  <2> QED  BY <2>1
<1>5. "model-derived" \in OriginNames /\ Nothing # "implementation-source"
  BY NothingIsNoOrigin DEF OriginNames
<1>6. PICK p : p = CHOOSE q \in inherited : TRUE  OBVIOUS
<1> HIDE DEF location, inherited, hint
<1> DEFINE Shape ==
             \E requested \in {location, hint, "model-derived"},
                basis \in {"ancestry", "artifact-path", "author", "default", "command-route"},
                ancestry \in {Nothing, artifacts[p]} :
                  /\ Evidence(in) = [requested |-> requested, basis |-> basis, ancestry |-> ancestry]
                  /\ ancestry = artifacts[p] => ancestry = Nothing \/ inherited # {}
<1>7. inherited # {} => Shape  BY <1>1, <1>6
<1>8. inherited = {} /\ location \in Settling => Shape  BY <1>1
<1>9. inherited = {} /\ location \notin Settling /\ in.author => Shape  BY <1>1
<1>10. inherited = {} /\ location \notin Settling /\ ~in.author => Shape
  <2> SUFFICES ASSUME inherited = {} /\ location \notin Settling /\ ~in.author PROVE Shape  OBVIOUS
  <2>1. Evidence(in) =
          IF location # "other" \/ hint = "other" THEN found(location, "default", Nothing)
          ELSE found(hint, IF Reads(in) THEN "artifact-path" ELSE "command-route", Nothing)
    BY <1>1
  <2>2. PICK basis \in {"artifact-path", "command-route"} :
          basis = IF Reads(in) THEN "artifact-path" ELSE "command-route"
    OBVIOUS
  <2>3. Evidence(in) \in {found(location, "default", Nothing), found(hint, basis, Nothing)}
    BY <2>1, <2>2
  <2> QED  BY <2>3
<1> HIDE DEF Shape
<1>11. Shape  BY <1>7, <1>8, <1>9, <1>10
<1> USE DEF Shape
<1>12. PICK requested \in {location, hint, "model-derived"},
            basis \in {"ancestry", "artifact-path", "author", "default", "command-route"},
            ancestry \in {Nothing, artifacts[p]} :
        /\ Evidence(in) = [requested |-> requested, basis |-> basis, ancestry |-> ancestry]
        /\ ancestry = artifacts[p] => ancestry = Nothing \/ inherited # {}
  BY <1>11
<1>13. Evidence(in).requested = requested /\ Evidence(in).ancestry = ancestry  BY <1>12
<1> QED  BY <1>2, <1>3, <1>4, <1>5, <1>6, <1>12, <1>13


\* The item of a part, by what its evidence and the earlier deliveries say.
LEMMA ResolveIs ==
  ASSUME NEW in
  PROVE  /\ Resolve(in).text = in.text
         /\ Resolve(in).settled = (Evidence(in).basis \in SettledBases)
         /\ Resolve(in).components = ComponentOrigins(Evidence(in), in.text, Echoes(in.text))
         /\ Resolve(in).source = ResolveOrigin(Evidence(in), in.text, Echoes(in.text)).source
<1>1. PICK e, r : e = Evidence(in) /\ r = ResolveOrigin(e, in.text, Echoes(in.text))  OBVIOUS
<1>2. Resolve(in) = Item(in, e.basis \in SettledBases, r)  BY <1>1 DEF Resolve, Judge
<1>3. /\ Item(in, e.basis \in SettledBases, r).text = in.text
      /\ Item(in, e.basis \in SettledBases, r).settled = (e.basis \in SettledBases)
      /\ Item(in, e.basis \in SettledBases, r).components = r.components
      /\ Item(in, e.basis \in SettledBases, r).source = r.source
  BY DEF Item
<1>4. r.components = ComponentOrigins(e, in.text, Echoes(in.text))  BY <1>1 DEF ResolveOrigin
<1> QED  BY <1>1, <1>2, <1>3, <1>4

LEMMA MaterialFormsAre ==
  ASSUME NEW text \in SUBSET Lines
  PROVE  /\ MaterialForms(text) \subseteq
              {"source-form", "disassembly", "runtime-structure", "path-metadata"}
         /\ \A f \in MaterialForms(text) : Component(text, f) # {}
         /\ Component(text, "source-form") # {} => "source-form" \in MaterialForms(text)
         /\ DominantForm(text) \in MaterialForms(text) \cup {Nothing}
<1>1. MaterialForms(text) =
        {f \in {"source-form", "disassembly", "runtime-structure", "path-metadata"} :
           Component(text, f) # {}}
  BY FormsAre DEF MaterialForms
<1>2. DominantForm(text) \in MaterialForms(text) \cup {Nothing}
  <2> DEFINE most == {i \in DOMAIN Forms : text # {} /\ 2 * Cardinality(Component(text, Forms[i]))
                                                            >= Cardinality(text)}
             first == CHOOSE i \in most : \A j \in most : i <= j
  <2>1. DominantForm(text) = IF most = {} THEN Nothing ELSE Forms[first]  BY DEF DominantForm
  <2>2. ASSUME most # {} PROVE Forms[first] \in MaterialForms(text)
    <3>1. most \subseteq Nat  BY FormsAre
    <3>2. \E i \in most : \A j \in most : i <= j
      <4>1. PICK S : S = most  OBVIOUS
      <4> QED  BY <2>2, <3>1, <4>1, Smallest
    <3>3. first \in most
      <4> HIDE DEF most
      <4> QED  BY <3>2
    <3>4. PICK i \in most : i = first  BY <3>3
    <3>5. i \in DOMAIN Forms /\ text # {}
          /\ 2 * Cardinality(Component(text, Forms[i])) >= Cardinality(text)
      BY <3>4
    <3>6. Component(text, Forms[i]) # {}
      <4>1. SUFFICES ASSUME Component(text, Forms[i]) = {} PROVE FALSE  OBVIOUS
      <4>2. Cardinality(Component(text, Forms[i])) = 0  BY <4>1, FS_EmptySet
      <4>3. Cardinality(text) > 0 /\ Cardinality(text) \in Nat  BY <3>5, TextsAreFinite
      <4> QED  BY <3>5, <4>2, <4>3
    <3> HIDE DEF first, most
    <3> QED  BY <1>1, <3>4, <3>5, <3>6, FormsAre
  <2> HIDE DEF first, most
  <2> QED  BY <2>1, <2>2
<1> QED  BY <1>1, <1>2

\* A component is only called source when the evidence, an earlier delivery or a name says so.
LEMMA ComponentsAre ==
  ASSUME ContextTypes, NEW in, IsInput(in)
  PROVE  /\ DOMAIN Resolve(in).components = MaterialForms(in.text)
         /\ \A f \in MaterialForms(in.text) : Resolve(in).components[f] \in OriginNames
         /\ ~reached /\ CleanInv /\ ~Reads(in)
            /\ ~(NamesSourceFile(in.text) /\ Component(in.text, "source-form") # {}) =>
              /\ \A f \in MaterialForms(in.text) : Resolve(in).components[f] # "implementation-source"
              /\ ~Resolve(in).source
<1> DEFINE Clean == ~reached /\ CleanInv /\ ~Reads(in)
                    /\ ~(NamesSourceFile(in.text) /\ Component(in.text, "source-form") # {})
<1>1. PICK e, text, echoed, named, components :
        /\ e = Evidence(in) /\ text = in.text /\ echoed = Echoes(text) /\ named = NamesSourceFile(text)
        /\ components = ComponentOrigins(e, text, echoed)
  OBVIOUS
<1>2. text \in SUBSET Lines  BY <1>1 DEF IsInput
<1>3. /\ e.requested \in OriginNames /\ e.ancestry \in OriginNames \cup {Nothing}
      /\ Clean => e.requested # "implementation-source" /\ e.ancestry # "implementation-source"
  BY <1>1, EvidenceIs DEF CleanInv
<1>4. components = [f \in MaterialForms(text) |->
          IF e.basis \in SettledBases THEN (IF e.ancestry # Nothing THEN e.ancestry ELSE e.requested)
          ELSE IF echoed[f] # Nothing THEN echoed[f]
          ELSE FormOrigin(f, e.requested, named)]
  BY <1>1 DEF ComponentOrigins
<1>5. ASSUME NEW f \in MaterialForms(text)
      PROVE  /\ echoed[f] \in OriginNames \cup {Nothing}
             /\ Clean => echoed[f] # "implementation-source"
  <2>1. PICK lines \in SUBSET Lines : lines = Component(text, f)  BY <1>2, ComponentsAreMarks
  <2>2. echoed[f] = EchoOf(lines)  BY <1>1, <2>1 DEF Echoes
  <2>3. EchoOf(lines) \in {content[k] : k \in DOMAIN content}
                          \cup {sourceLines[l] : l \in DOMAIN sourceLines} \cup {Nothing}
    BY EchoOfIs
  <2> QED  BY <2>2, <2>3, NothingIsNoOrigin DEF ContextTypes, CleanInv, OriginNames
<1>6. ASSUME NEW f \in MaterialForms(text)
      PROVE  /\ FormOrigin(f, e.requested, named) \in OriginNames
             /\ Clean => FormOrigin(f, e.requested, named) # "implementation-source"
  <2>1. f \in {"source-form", "disassembly", "runtime-structure", "path-metadata"}
        /\ Component(text, f) # {}
    BY <1>2, MaterialFormsAre
  <2>2. Clean /\ f = "source-form" => ~named  BY <1>1, <2>1
  <2> HIDE DEF Clean
  <2> QED  BY <1>3, <2>1, <2>2 DEF FormOrigin, OriginNames
<1>7. ASSUME NEW f \in MaterialForms(text)
      PROVE  components[f] \in OriginNames /\ (Clean => components[f] # "implementation-source")
  <2> HIDE DEF Clean
  <2> QED  BY <1>3, <1>4, <1>5, <1>6
<1>8. DOMAIN components = MaterialForms(text)  BY <1>4
<1>9. Clean => ItemOrigin(e, text, components) # "implementation-source"
  <2>1. PICK form : form = DominantForm(text)  OBVIOUS
  <2>2. form \in MaterialForms(text) \cup {Nothing}  BY <1>2, <2>1, MaterialFormsAre
  <2>3. ItemOrigin(e, text, components) =
          IF e.basis \in SettledBases THEN (IF e.ancestry # Nothing THEN e.ancestry ELSE e.requested)
          ELSE IF form \notin {Nothing, "path-metadata"} THEN components[form]
          ELSE IF e.requested # "other" THEN e.requested
          ELSE IF form # Nothing THEN components[form] ELSE "other"
    BY <2>1 DEF ItemOrigin
  <2> HIDE DEF Clean
  <2> QED  BY <1>3, <1>7, <2>2, <2>3
<1>10. Clean => ~ResolveOrigin(e, text, echoed).source
  <2>1. PICK origin, whole, settled :
          /\ origin = ItemOrigin(e, text, components)
          /\ whole = (origin \in ImplementationOrigins /\ \A f \in DOMAIN components : components[f] # origin)
          /\ settled = (e.basis \in SettledBases)
    OBVIOUS
  <2>2. PICK sources : sources = {f \in DOMAIN components : components[f] = "implementation-source"}
    OBVIOUS
  <2>3. ResolveOrigin(e, text, echoed).source =
          (text # {} /\ (\/ sources # {}
                         \/ origin = "implementation-source" /\ (whole \/ settled)))
    BY <1>1, <2>1, <2>2 DEF ResolveOrigin
  <2>4. Clean => sources = {}
    <3> HIDE DEF Clean
    <3> QED  BY <1>7, <1>8, <2>2
  <2> HIDE DEF Clean
  <2> QED  BY <1>9, <2>1, <2>3, <2>4
<1>11. Resolve(in).components = components /\ Resolve(in).source = ResolveOrigin(e, text, echoed).source
  BY <1>1, ResolveIs
<1> QED  BY <1>1, <1>7, <1>8, <1>10, <1>11


\* What an activity of the session gives, beside the part it is attributed by.
Keeps(in) ==
  /\ IsInput(in)
  /\ Attribute(in)
  /\ scratch' \in SUBSET Lines
  /\ artifacts' \in [Paths -> OriginNames \cup {Nothing}]
  /\ (\A p \in Paths : artifacts[p] # "implementation-source") /\ ~Reads(in) =>
       \A p \in Paths : artifacts'[p] # "implementation-source"

\* What is remembered of a part is remembered under what it was charged as.
LEMMA NoteContentIs ==
  ASSUME ContextTypes, NEW text \in SUBSET Lines, NEW components, NoteContent(text, components)
  PROVE  /\ DOMAIN content \subseteq DOMAIN content' /\ DOMAIN sourceLines \subseteq DOMAIN sourceLines'
         /\ \A k \in DOMAIN content : content'[k] = content[k]
         /\ \A l \in DOMAIN sourceLines : sourceLines'[l] = sourceLines[l]
         /\ \A k \in DOMAIN content' \ DOMAIN content :
              \E f \in MaterialForms(text) : k = Component(text, f) /\ content'[k] = components[f]
         /\ \A l \in DOMAIN sourceLines' \ DOMAIN sourceLines :
              /\ l \in text \cap Marks /\ "source-form" \in MaterialForms(text)
              /\ sourceLines'[l] = components["source-form"]
         /\ components["source-form"] \notin {"other", "unresolved"} =>
              text \cap Marks \subseteq DOMAIN sourceLines'
<1> DEFINE known == {f \in MaterialForms(text) : components[f] \notin {"other", "unresolved"}}
           form(lines) == CHOOSE f \in known : Component(text, f) = lines
           keys == {Component(text, f) : f \in known}
           marks == IF "source-form" \in known THEN Component(text, "source-form") ELSE {}
           noted == [k \in keys |-> components[form(k)]]
           lined == [m \in marks |-> components["source-form"]]
<1>1. content' = SetDefault(content, keys, noted) /\ sourceLines' = SetDefault(sourceLines, marks, lined)
  BY DEF NoteContent
<1>2. ASSUME NEW k \in keys
      PROVE  \E f \in MaterialForms(text) : k = Component(text, f) /\ noted[k] = components[f]
  <2>1. \E f \in known : Component(text, f) = k  OBVIOUS
  <2>2. PICK f : f = form(k)  OBVIOUS
  <2>3. f \in known /\ Component(text, f) = k
    <3> HIDE DEF known
    <3> QED  BY <2>1, <2>2
  <2>4. noted[k] = components[f]  BY <2>2
  <2>5. f \in MaterialForms(text)  BY <2>3
  <2> HIDE DEF known, form, keys, noted
  <2> QED  BY <2>3, <2>4, <2>5
<1>3. ASSUME NEW m \in marks
      PROVE  m \in text \cap Marks /\ "source-form" \in MaterialForms(text)
             /\ lined[m] = components["source-form"]
  BY ComponentsAreMarks
<1>4. components["source-form"] \notin {"other", "unresolved"} => text \cap Marks \subseteq marks
  <2>1. Component(text, "source-form") = text \cap Marks  BY ComponentsAreMarks
  <2>2. text \cap Marks # {} => "source-form" \in MaterialForms(text)  BY <2>1, MaterialFormsAre
  <2> QED  BY <2>1, <2>2
<1> HIDE DEF known, keys, marks, noted, lined
<1>5. /\ DOMAIN content' = DOMAIN content \cup keys
      /\ \A k \in DOMAIN content' : content'[k] = IF k \in DOMAIN content THEN content[k] ELSE noted[k]
  BY <1>1 DEF SetDefault
<1>6. /\ DOMAIN sourceLines' = DOMAIN sourceLines \cup marks
      /\ \A l \in DOMAIN sourceLines' :
           sourceLines'[l] = IF l \in DOMAIN sourceLines THEN sourceLines[l] ELSE lined[l]
  BY <1>1 DEF SetDefault
<1> QED  BY <1>2, <1>3, <1>4, <1>5, <1>6

\* What is noted of a part keeps what is known of the session.
LEMMA AttributeStep ==
  ASSUME ContextInv, NEW in, Keeps(in)
  PROVE  ContextInv'
<1>1. PICK i, text : i = Resolve(in) /\ text = in.text /\ Note(in, i)  BY DEF Keeps, Attribute
<1>2. IsInput(in) /\ text \in SUBSET Lines /\ ContextTypes  BY <1>1 DEF Keeps, IsInput, ContextInv
<1>3. /\ \A f \in MaterialForms(text) : i.components[f] \in OriginNames
      /\ ~reached /\ CleanInv /\ ~Reads(in)
         /\ ~(NamesSourceFile(text) /\ Component(text, "source-form") # {}) =>
           /\ \A f \in MaterialForms(text) : i.components[f] # "implementation-source"
           /\ ~i.source
  BY <1>1, <1>2, ComponentsAre
<1>4. PICK components : components = i.components  OBVIOUS
<1>5. NoteContent(text, components)  BY <1>1, <1>4 DEF Note
<1>6. /\ DOMAIN content \subseteq DOMAIN content' /\ DOMAIN sourceLines \subseteq DOMAIN sourceLines'
      /\ \A k \in DOMAIN content : content'[k] = content[k]
      /\ \A l \in DOMAIN sourceLines : sourceLines'[l] = sourceLines[l]
      /\ \A k \in DOMAIN content' \ DOMAIN content :
           \E f \in MaterialForms(text) : k = Component(text, f) /\ content'[k] = components[f]
      /\ \A l \in DOMAIN sourceLines' \ DOMAIN sourceLines :
           /\ l \in text \cap Marks /\ "source-form" \in MaterialForms(text)
           /\ sourceLines'[l] = components["source-form"]
      /\ components["source-form"] \notin {"other", "unresolved"} =>
           text \cap Marks \subseteq DOMAIN sourceLines'
  BY <1>2, <1>5, NoteContentIs
<1>7. PICK settled : settled = i.settled  OBVIOUS
<1>8. charged' = [l \in Marks |-> charged[l] \cup
                   IF l \in text
                   THEN {[origin |-> components["source-form"], settled |-> settled]} ELSE {}]
  BY <1>1, <1>4, <1>7 DEF Note
<1>9. ContextTypes'
  <2>1. shown' = shown \cup text  BY <1>1 DEF Note
  <2>2. scratch' \subseteq Lines /\ artifacts' \in [Paths -> OriginNames \cup {Nothing}]  BY DEF Keeps
  <2>3. DOMAIN charged' = Marks  BY <1>8
  <2>4. \A k \in DOMAIN content' : content'[k] \in OriginNames
    BY <1>2, <1>3, <1>4, <1>6 DEF ContextTypes
  <2>5. /\ DOMAIN sourceLines' \subseteq Marks
        /\ \A l \in DOMAIN sourceLines' : sourceLines'[l] \in OriginNames
    BY <1>2, <1>3, <1>4, <1>6 DEF ContextTypes
  <2> QED  BY <1>2, <2>1, <2>2, <2>3, <2>4, <2>5 DEF ContextTypes
<1>10. CleanInv'
  <2>1. SUFFICES ASSUME ~reached'
        PROVE  /\ \A p \in Paths : artifacts'[p] # "implementation-source"
               /\ \A k \in DOMAIN content' : content'[k] # "implementation-source"
               /\ \A l \in DOMAIN sourceLines' : sourceLines'[l] # "implementation-source"
               /\ accounts'.source = {}
    BY DEF CleanInv
  <2>2. ~reached /\ ~Reads(in) /\ ~(NamesSourceFile(text) /\ Component(text, "source-form") # {})
    BY <1>1, <2>1 DEF Note, Reads
  <2>3. CleanInv  BY DEF ContextInv
  <2>4. (\A f \in MaterialForms(text) : components[f] # "implementation-source") /\ ~i.source
    BY <1>3, <1>4, <2>2, <2>3
  <2>5. accounts' = Accounted(i)  BY <1>1 DEF Note
  <2>6. accounts'.source = accounts.source  BY <2>4, <2>5 DEF Accounted, SourceSeen
  <2>7. \A p \in Paths : artifacts'[p] # "implementation-source"  BY <2>2, <2>3 DEF Keeps, CleanInv
  <2>8. \A k \in DOMAIN content' : content'[k] # "implementation-source"
    BY <1>6, <2>2, <2>3, <2>4 DEF CleanInv
  <2>9. \A l \in DOMAIN sourceLines' : sourceLines'[l] # "implementation-source"
    BY <1>6, <2>2, <2>3, <2>4 DEF CleanInv
  <2> QED  BY <2>2, <2>3, <2>6, <2>7, <2>8, <2>9 DEF CleanInv
<1>11. HistoryInv'
  <2>1. SUFFICES ASSUME AllSource'
        PROVE  /\ \A l \in Marks : charged'[l] # {} => l \in DOMAIN sourceLines'
               /\ \A l \in DOMAIN sourceLines' : sourceLines'[l] = "implementation-source"
               /\ \A k \in DOMAIN content' : k \cap Marks # {} => content'[k] = "implementation-source"
    BY DEF HistoryInv
  <2>2. AllSource  BY <1>8, <2>1 DEF AllSource
  <2>3. /\ \A l \in Marks : charged[l] # {} => l \in DOMAIN sourceLines
        /\ \A l \in DOMAIN sourceLines : sourceLines[l] = "implementation-source"
        /\ \A k \in DOMAIN content : k \cap Marks # {} => content[k] = "implementation-source"
    BY <2>2 DEF ContextInv, HistoryInv
  <2>4. text \cap Marks # {} => components["source-form"] = "implementation-source"
    <3>1. SUFFICES ASSUME NEW l \in text \cap Marks
          PROVE  components["source-form"] = "implementation-source"
      OBVIOUS
    <3>2. [origin |-> components["source-form"], settled |-> settled] \in charged'[l]  BY <1>8
    <3> QED  BY <2>1, <3>2 DEF AllSource
  <2>5. ASSUME NEW l \in Marks, charged'[l] # {} PROVE l \in DOMAIN sourceLines'
    <3>1. charged[l] # {} \/ l \in text  BY <1>8, <2>5
    <3> QED  BY <1>6, <2>3, <2>4, <3>1
  <2>6. \A l \in DOMAIN sourceLines' : sourceLines'[l] = "implementation-source"
    BY <1>6, <2>3, <2>4
  <2>7. ASSUME NEW k \in DOMAIN content', k \cap Marks # {} PROVE content'[k] = "implementation-source"
    <3>1. CASE k \in DOMAIN content  BY <1>6, <2>3, <2>7, <3>1
    <3>2. CASE k \notin DOMAIN content
      <4>1. PICK f \in MaterialForms(text) : k = Component(text, f) /\ content'[k] = components[f]
        BY <1>6, <3>2
      <4>2. f = "source-form" /\ text \cap Marks # {}  BY <1>2, <2>7, <4>1, ComponentsAreMarks
      <4> QED  BY <2>4, <4>1, <4>2
    <3> QED  BY <3>1, <3>2
  <2> QED  BY <2>5, <2>6, <2>7
<1> QED  BY <1>9, <1>10, <1>11 DEF ContextInv


LEMMA FewAreTexts == ASSUME NEW lines PROVE Few(lines) \subseteq SUBSET Lines
BY DEF Few, Texts

LEMMA WrittenIs == Written \subseteq SUBSET Lines
BY FewAreTexts DEF Written

LEMMA CommandsAre ==
  ASSUME NEW c \in Commands
  PROVE  c.paths \in SUBSET Paths
<1>1. Command({}, {}, TRUE).paths = {}  BY DEF Command
<1>2. \A a : Command({}, a, FALSE).paths = {}  BY DEF Command
<1>3. \A p : Command({p}, {}, FALSE).paths = {p}  BY DEF Command
<1>4. \/ \E a : c = Command({}, a, FALSE)
      \/ c = Command({}, {}, TRUE)
      \/ \E p \in {"scratch", "module-file", "module-directory"} : c = Command({p}, {}, FALSE)
  BY DEF Commands
<1> QED  BY <1>1, <1>2, <1>3, <1>4 DEF Paths

LEMMA PrintsAreTexts ==
  ASSUME ContextTypes, NEW c \in Commands
  PROVE  Prints(c) \subseteq SUBSET Lines
<1>1. PICK lines :
        Prints(c) = IF c.paths = {"scratch"} THEN {scratch} ELSE IF c.authored THEN Written ELSE Few(lines)
  BY DEF Prints
<1> QED  BY <1>1, FewAreTexts, WrittenIs DEF ContextTypes

LEMMA ArtifactOriginIs ==
  ASSUME NEW c \in Commands
  PROVE  /\ ArtifactOrigin(c) \in OriginNames \cup {Nothing}
         /\ ArtifactOrigin(c) = "implementation-source" => \E p \in c.paths : IsModuleSourceFile(p)
BY NothingIsNoOrigin DEF ArtifactOrigin, OriginNames

LEMMA ContextStart == ContextInit => ContextInv
<1> SUFFICES ASSUME ContextInit PROVE ContextInv  OBVIOUS
<1>1. ContextTypes  BY DEF ContextInit, ContextTypes
<1>2. CleanInv  BY NothingIsNoOrigin DEF ContextInit, CleanInv, OriginNames
<1>3. HistoryInv  BY DEF ContextInit, HistoryInv
<1> QED  BY <1>1, <1>2, <1>3 DEF ContextInv

LEMMA UnchangedArtifacts ==
  ASSUME ContextTypes, UNCHANGED <<scratch, artifacts>>, NEW in
  PROVE  /\ scratch' \in SUBSET Lines
         /\ artifacts' \in [Paths -> OriginNames \cup {Nothing}]
         /\ (\A p \in Paths : artifacts[p] # "implementation-source") /\ ~Reads(in) =>
              \A p \in Paths : artifacts'[p] # "implementation-source"
BY DEF ContextTypes

LEMMA NotedArtifact ==
  ASSUME ContextTypes, NEW origin \in OriginNames, NoteArtifact("scratch", origin), NEW in,
         origin = "implementation-source" => Reads(in)
  PROVE  /\ artifacts' \in [Paths -> OriginNames \cup {Nothing}]
         /\ (\A p \in Paths : artifacts[p] # "implementation-source") /\ ~Reads(in) =>
              \A p \in Paths : artifacts'[p] # "implementation-source"
<1>1. artifacts' = [artifacts EXCEPT !["scratch"] = origin]  BY DEF NoteArtifact
<1> QED  BY <1>1 DEF ContextTypes

\* Every activity of a session is a part as the program puts it.
LEMMA ActivityKeeps ==
  ASSUME ContextTypes, ContextNext
  PROVE  \E in : Keeps(in)
<1>1. CASE ReadFile
  <2>1. PICK path \in Paths \ {"module-directory"} :
          \E text \in CASE path = "module-file" -> SUBSET Marks \ {{}}
                        [] path \in {"contract-doc", "compiled"} -> {{"prose"}}
                        [] path = "scratch" -> {scratch}
                        [] path = "log" -> Few(shown) :
            /\ path = "module-file" => fixture.arm = "full"
            /\ Attribute(NormaliseFile("read", path, text))
            /\ UNCHANGED <<scratch, artifacts>>
    BY <1>1, Zenon DEF ReadFile
  <2>2. PICK text \in CASE path = "module-file" -> SUBSET Marks \ {{}}
                        [] path \in {"contract-doc", "compiled"} -> {{"prose"}}
                        [] path = "scratch" -> {scratch}
                        [] path = "log" -> Few(shown) :
            Attribute(NormaliseFile("read", path, text)) /\ UNCHANGED <<scratch, artifacts>>
    BY <2>1
  <2>3. text \in SUBSET Lines
    <3>1. path \in {"module-file", "compiled", "contract-doc", "scratch", "log"}  BY <2>1 DEF Paths
    <3>2. Marks \subseteq Lines /\ "prose" \in Lines  BY DEF Lines
    <3>3. text \in SUBSET Marks \/ text = {"prose"} \/ text = scratch \/ text \in Few(shown)
      BY <2>2, <3>1
    <3>4. PICK few : few = Few(shown) /\ few \subseteq SUBSET Lines  BY FewAreTexts
    <3> QED  BY <3>2, <3>3, <3>4 DEF ContextTypes
  <2>4. PICK in : in = NormaliseFile("read", path, text)  OBVIOUS
  <2>5. in.text = text /\ in.artifact = path /\ in.referenced = {path} /\ in.opened = {path}
        /\ in.hint = Nothing
    BY <2>4 DEF NormaliseFile, Inbound
  <2>6. IsInput(in)  BY <2>1, <2>3, <2>5 DEF IsInput
  <2> QED  BY <2>2, <2>4, <2>6, UnchangedArtifacts DEF Keeps
<1>2. CASE WriteFile
  <2>1. PICK tool \in {"write", "edit"}, text \in Written :
          /\ Attribute(NormaliseFile(tool, "scratch", {"prose"}))
          /\ NoteArtifact("scratch", "model-derived")
          /\ scratch' = IF tool = "write" THEN text ELSE scratch \cup text
    BY <1>2, Zenon DEF WriteFile
  <2>2. PICK in : in = NormaliseFile(tool, "scratch", {"prose"})  OBVIOUS
  <2>3. in.text = {"prose"} /\ in.artifact = "scratch" /\ in.referenced = {"scratch"}
        /\ in.opened = {"scratch"} /\ in.hint = Nothing
    BY <2>2 DEF NormaliseFile, Inbound
  <2>4. IsInput(in)  BY <2>3 DEF IsInput, Paths, Lines
  <2>5. scratch' \in SUBSET Lines  BY <2>1, WrittenIs DEF ContextTypes
  <2>6. "model-derived" \in OriginNames  BY DEF OriginNames
  <2> QED  BY <2>1, <2>2, <2>4, <2>5, <2>6, NotedArtifact DEF Keeps
<1>3. CASE RunCommand
  <2>1. PICK c \in Commands : \E text \in Prints(c) :
          Attribute(NormaliseCommand(c, text)) /\ UNCHANGED <<scratch, artifacts>>
    BY <1>3, Zenon DEF RunCommand
  <2>2. PICK text \in Prints(c) :
          Attribute(NormaliseCommand(c, text)) /\ UNCHANGED <<scratch, artifacts>>
    BY <2>1
  <2>3. text \in SUBSET Lines /\ c.paths \in SUBSET Paths
    BY <2>2, PrintsAreTexts, CommandsAre
  <2>4. PICK in : in = NormaliseCommand(c, text)  OBVIOUS
  <2>5. in.text = text /\ in.artifact = Nothing /\ in.referenced = c.paths /\ in.opened = c.paths
        /\ in.hint = "command"
    BY <2>4 DEF NormaliseCommand, Inbound
  <2>6. IsInput(in)  BY <2>3, <2>5 DEF IsInput
  <2> QED  BY <2>2, <2>4, <2>6, UnchangedArtifacts DEF Keeps
<1>4. CASE RedirectCommand
  <2>1. PICK c \in Commands : \E text \in Prints(c) :
          /\ "scratch" \notin c.paths
          /\ Attribute(NormaliseCommand(c, {}))
          /\ scratch' = text
          /\ IF ArtifactOrigin(c) # Nothing THEN NoteArtifact("scratch", ArtifactOrigin(c))
             ELSE UNCHANGED artifacts
    BY <1>4, Zenon DEF RedirectCommand
  <2>2. PICK text \in Prints(c) :
          /\ Attribute(NormaliseCommand(c, {}))
          /\ scratch' = text
          /\ IF ArtifactOrigin(c) # Nothing THEN NoteArtifact("scratch", ArtifactOrigin(c))
             ELSE UNCHANGED artifacts
    BY <2>1
  <2>3. text \in SUBSET Lines /\ c.paths \in SUBSET Paths
    BY <2>2, PrintsAreTexts, CommandsAre
  <2>4. PICK in : in = NormaliseCommand(c, {})  OBVIOUS
  <2>5. in.text = {} /\ in.artifact = Nothing /\ in.referenced = c.paths /\ in.opened = c.paths
        /\ in.hint = "command"
    BY <2>4 DEF NormaliseCommand, Inbound
  <2>6. IsInput(in)  BY <2>3, <2>5 DEF IsInput
  <2>7. PICK origin \in OriginNames \cup {Nothing} : origin = ArtifactOrigin(c)  BY ArtifactOriginIs
  <2>8. origin = "implementation-source" => Reads(in)  BY <2>5, <2>7, ArtifactOriginIs DEF Reads
  <2>9. /\ artifacts' \in [Paths -> OriginNames \cup {Nothing}]
        /\ (\A p \in Paths : artifacts[p] # "implementation-source") /\ ~Reads(in) =>
             \A p \in Paths : artifacts'[p] # "implementation-source"
    <3>1. CASE origin # Nothing
      <4>1. origin \in OriginNames /\ NoteArtifact("scratch", origin)  BY <2>2, <2>7, <3>1
      <4> QED  BY <2>8, <4>1, NotedArtifact
    <3>2. CASE origin = Nothing
      <4>1. artifacts' = artifacts  BY <2>2, <2>7, <3>2
      <4> QED  BY <4>1 DEF ContextTypes
    <3> QED  BY <3>1, <3>2
  <2> QED  BY <2>2, <2>3, <2>4, <2>6, <2>9 DEF Keeps
<1>5. CASE Search
  <2> DEFINE lines == scratch \cup IF fixture.arm = "full" THEN Marks \cup {"filename"} ELSE {}
  <2>1. PICK named \in SUBSET {"scratch"} : \E text \in Few(lines) :
          /\ (text \cap scratch # {}) => named = {"scratch"} \/ fixture.arm = "full"
          /\ (text \cap Marks # {}) => "filename" \in text \/ named # {}
          /\ Attribute(NormaliseSearch(named, text))
          /\ UNCHANGED <<scratch, artifacts>>
    BY <1>5, Zenon DEF Search
  <2> HIDE DEF lines
  <2>2. PICK text \in Few(lines) :
          Attribute(NormaliseSearch(named, text)) /\ UNCHANGED <<scratch, artifacts>>
    BY <2>1
  <2>3. text \in SUBSET Lines /\ named \in SUBSET Paths
    BY <2>1, <2>2, FewAreTexts DEF Paths
  <2>4. PICK in : in = NormaliseSearch(named, text)  OBVIOUS
  <2>5. in.text = text /\ in.artifact = Nothing /\ in.referenced = named /\ in.hint = "command"
    BY <2>4 DEF NormaliseSearch, Inbound
  <2>6. IsInput(in)  BY <2>3, <2>5 DEF IsInput
  <2> QED  BY <2>2, <2>4, <2>6, UnchangedArtifacts DEF Keeps
<1>6. CASE Say
  <2>1. PICK role \in {"user", "assistant"} : \E text \in Written \ {{}} :
          Attribute(NormaliseText(role, text)) /\ UNCHANGED <<scratch, artifacts>>
    BY <1>6, Zenon DEF Say
  <2>2. PICK text \in Written \ {{}} :
          Attribute(NormaliseText(role, text)) /\ UNCHANGED <<scratch, artifacts>>
    BY <2>1
  <2>3. text \in SUBSET Lines  BY <2>2, WrittenIs
  <2>4. PICK in : in = NormaliseText(role, text)  OBVIOUS
  <2>5. in.text = text /\ in.artifact = Nothing /\ in.referenced = {}
        /\ in.hint = IF role = "user" THEN "harness" ELSE Nothing
    BY <2>4 DEF NormaliseText, Inbound
  <2>6. IsInput(in)  BY <2>3, <2>5 DEF IsInput
  <2> QED  BY <2>2, <2>4, <2>6, UnchangedArtifacts DEF Keeps
<1>7. CASE Patch
  <2>1. PICK text \in {{"prose"}, {"filename"}} :
          Attribute(NormalisePatch(text)) /\ UNCHANGED <<scratch, artifacts>>
    BY <1>7, Zenon DEF Patch
  <2>2. text \in SUBSET Lines  BY <2>1 DEF Lines
  <2>3. PICK in : in = NormalisePatch(text)  OBVIOUS
  <2>4. in.text = text /\ in.artifact = Nothing /\ in.referenced = {} /\ in.hint = "application"
    BY <2>3 DEF NormalisePatch, Inbound
  <2>5. IsInput(in)  BY <2>2, <2>4 DEF IsInput
  <2> QED  BY <2>1, <2>3, <2>5, UnchangedArtifacts DEF Keeps
<1> QED  BY <1>1, <1>2, <1>3, <1>4, <1>5, <1>6, <1>7 DEF ContextNext

\* As long as nothing of the module was read, nothing that a session remembers is its source, and
\* as long as every source line was charged as source, all it remembers of such lines says so.
THEOREM ContextInvariant == ContextSpec => []ContextInv
<1>1. ContextInit => ContextInv  BY ContextStart
<1>2. ContextInv /\ [ContextNext]_contextVars => ContextInv'
  <2> SUFFICES ASSUME ContextInv, [ContextNext]_contextVars PROVE ContextInv'  OBVIOUS
  <2>1. CASE ContextNext
    <3>1. PICK in : Keeps(in)  BY <2>1, ActivityKeeps DEF ContextInv
    <3> QED  BY <3>1, AttributeStep
  <2>2. CASE UNCHANGED contextVars
    BY <2>2 DEF contextVars, ContextInv, ContextTypes, CleanInv, HistoryInv, AllSource
  <2> QED  BY <2>1, <2>2
<1> QED  BY <1>1, <1>2, PTL DEF ContextSpec

\* A session is charged with the module's source only if an activity opened a source file of the
\* module or a text named one beside lines that look like it.
THEOREM SourceIsChargedWhenReached == ContextSpec => []ChargedMeansReached
<1>1. ContextInv => ChargedMeansReached  BY DEF ContextInv, CleanInv, ChargedMeansReached
<1> QED  BY <1>1, ContextInvariant, PTL

\* While every source line of a session was charged as the module's source, one that comes back is
\* charged as source again, unless the artifact or the author settles the text.
THEOREM ReplaysAreCharged == ContextSpec => ReplayKeepsHistory
<1> DEFINE Kept == AllSource => \A l \in Marks : charged[l] # {} =>
                     \A c \in charged'[l] : c.settled \/ c.origin = "implementation-source"
<1>1. ContextInv /\ [ContextNext]_contextVars => [Kept]_contextVars
  <2> SUFFICES ASSUME ContextInv, ContextNext, AllSource, NEW l \in Marks, charged[l] # {},
                      NEW c \in charged'[l], ~c.settled
               PROVE  c.origin = "implementation-source"
    OBVIOUS
  <2>1. PICK in : Keeps(in)  BY ActivityKeeps DEF ContextInv
  <2>2. PICK i, text, echoed, e :
          /\ i = Resolve(in) /\ text = in.text /\ echoed = Echoes(text) /\ e = Evidence(in)
          /\ Note(in, i)
    BY <2>1 DEF Keeps, Attribute
  <2>3. text \in SUBSET Lines /\ ContextTypes  BY <2>1, <2>2 DEF Keeps, IsInput, ContextInv
  <2>4. charged' = [m \in Marks |-> charged[m] \cup
                     IF m \in text
                     THEN {[origin |-> i.components["source-form"], settled |-> i.settled]} ELSE {}]
    BY <2>2 DEF Note
  <2>5. CASE c \in charged[l]  BY <2>5 DEF AllSource
  <2>6. CASE c \notin charged[l]
    <3>1. l \in text /\ c.origin = i.components["source-form"] /\ c.settled = i.settled
      BY <2>4, <2>6
    <3>2. e.basis \notin SettledBases
      <4>1. i.settled = (e.basis \in SettledBases)  BY <2>2, ResolveIs
      <4> QED  BY <3>1, <4>1
    <3>3. i.components = ComponentOrigins(e, text, echoed)  BY <2>2, ResolveIs
    <3>4. PICK lines \in SUBSET Lines : lines = Component(text, "source-form") /\ l \in lines
      BY <2>3, <3>1, ComponentsAreMarks
    <3>5. "source-form" \in MaterialForms(text)  BY <2>3, <3>4, MaterialFormsAre
    <3>6. echoed["source-form"] = EchoOf(lines)  BY <2>2, <3>4, <3>5 DEF Echoes
    <3>7. EchoOf(lines) = "implementation-source"
      <4>1. /\ l \in DOMAIN sourceLines
            /\ \A m \in DOMAIN sourceLines : sourceLines[m] = "implementation-source"
            /\ \A k \in DOMAIN content : k \cap Marks # {} => content[k] = "implementation-source"
        BY DEF ContextInv, HistoryInv
      <4>2. l \in lines \cap DOMAIN sourceLines /\ lines \cap Marks # {}  BY <3>4, <4>1
      <4> QED  BY <2>3, <4>1, <4>2, EchoOfIs
    <3>8. "implementation-source" # Nothing  BY NothingIsNoOrigin DEF OriginNames
    <3> QED  BY <3>1, <3>2, <3>3, <3>5, <3>6, <3>7, <3>8 DEF ComponentOrigins
  <2> QED  BY <2>5, <2>6
<1> QED  BY <1>1, ContextInvariant, PTL DEF ContextSpec, ReplayKeepsHistory, AllSource

-----------------------------------------------------------------------------
(* Spend: sums, however their terms are taken up. *)

LEMMA FromTheFirst ==
  ASSUME NEW N \in Nat, NEW S, 0 \in S, \A n \in 1 .. N : n - 1 \in S => n \in S
  PROVE  0 .. N \subseteq S
<1> SUFFICES ASSUME NEW m \in 0 .. N, m \notin S PROVE FALSE  OBVIOUS
<1> DEFINE Bad == {n \in 0 .. N : n \notin S}
<1>1. Bad \subseteq Nat /\ Bad # {}  OBVIOUS
<1>2. PICK n \in Bad : \A j \in Bad : n <= j
  <2>1. PICK T : T = Bad  OBVIOUS
  <2> QED  BY <1>1, <2>1, Smallest
<1>3. n \in 1 .. N /\ n - 1 \in 0 .. N /\ n - 1 < n  BY <1>2
<1>4. n - 1 \in S  BY <1>2, <1>3
<1> QED  BY <1>2, <1>3, <1>4

First(s) == CHOOSE y \in s : TRUE

\* The partial sums of fun over the subsets of S, as SumFunctionOnSet takes them.
AreSums(sums, fun, S) ==
  /\ DOMAIN sums = SUBSET S
  /\ \A s \in SUBSET S : sums[s] = IF s = {} THEN 0 ELSE fun[First(s)] + sums[s \ {First(s)}]

LEMMA Shrinks ==
  ASSUME NEW s, IsFiniteSet(s), NEW x \in s
  PROVE  /\ IsFiniteSet(s \ {x}) /\ Cardinality(s \ {x}) \in Nat /\ Cardinality(s) \in Nat
         /\ Cardinality(s) = Cardinality(s \ {x}) + 1
<1>1. IsFiniteSet(s \ {x}) /\ Cardinality(s \ {x}) = Cardinality(s) - 1  BY FS_RemoveElement
<1>2. Cardinality(s \ {x}) \in Nat /\ Cardinality(s) \in Nat  BY <1>1, FS_CardinalityType
<1> QED  BY <1>1, <1>2

LEMMA SumsExist ==
  ASSUME NEW fun, NEW S, IsFiniteSet(S)
  PROVE  \E sums : AreSums(sums, fun, S)
<1>1. PICK N \in Nat : N = Cardinality(S)  BY FS_CardinalityType
<1> DEFINE Small(k) == {s \in SUBSET S : Cardinality(s) <= k}
           term(sums, s) == IF s = {} THEN 0 ELSE fun[First(s)] + sums[s \ {First(s)}]
           Fits(sums, k) == DOMAIN sums = Small(k) /\ \A s \in Small(k) : sums[s] = term(sums, s)
           Good == {k \in 0 .. N : \E sums : Fits(sums, k)}
<1>2. ASSUME NEW s \in SUBSET S
      PROVE  /\ IsFiniteSet(s) /\ Cardinality(s) \in Nat /\ Cardinality(s) <= N
             /\ s # {} => /\ Cardinality(s) # 0
                          /\ s \ {First(s)} \in SUBSET S
                          /\ Cardinality(s) = Cardinality(s \ {First(s)}) + 1
                          /\ Cardinality(s \ {First(s)}) \in Nat
  <2>1. IsFiniteSet(s) /\ Cardinality(s) <= N  BY <1>1, FS_Subset
  <2>2. Cardinality(s) \in Nat  BY <2>1, FS_CardinalityType
  <2>3. ASSUME s # {}
        PROVE  /\ Cardinality(s) # 0
               /\ s \ {First(s)} \in SUBSET S
               /\ Cardinality(s) = Cardinality(s \ {First(s)}) + 1
               /\ Cardinality(s \ {First(s)}) \in Nat
    <3>1. PICK x \in s : x = First(s)  BY <2>3 DEF First
    <3>2. Cardinality(s) = Cardinality(s \ {x}) + 1 /\ Cardinality(s \ {x}) \in Nat
      BY <2>1, Shrinks
    <3> QED  BY <2>2, <3>1, <3>2
  <2> QED  BY <2>1, <2>2, <2>3
<1>3. 0 \in Good
  <2>1. Small(0) = {{}}
    <3>1. Cardinality({}) = 0  BY FS_EmptySet
    <3>2. ASSUME NEW s \in SUBSET S, Cardinality(s) <= 0 PROVE s = {}
      <4>1. PICK c : c = Cardinality(s)  OBVIOUS
      <4>2. c \in Nat /\ (s # {} => c # 0)  BY <1>2, <4>1
      <4> QED  BY <3>2, <4>1, <4>2
    <3> QED  BY <3>1, <3>2
  <2>2. PICK sums : sums = [s \in {{}} |-> 0]  OBVIOUS
  <2>3. Fits(sums, 0)  BY <2>1, <2>2
  <2> HIDE DEF Fits
  <2> QED  BY <2>3
<1>4. ASSUME NEW k \in 1 .. N, k - 1 \in Good PROVE k \in Good
  <2>1. PICK old : Fits(old, k - 1)
    <3> HIDE DEF Fits
    <3> QED  BY <1>4
  <2>2. PICK sums : sums = [s \in Small(k) |-> term(old, s)]  OBVIOUS
  <2>3. ASSUME NEW s \in Small(k - 1) PROVE sums[s] = old[s]
    <3>1. s \in Small(k)
      <4>1. PICK c : c = Cardinality(s)  OBVIOUS
      <4>2. c \in Nat /\ c <= k - 1  BY <1>2, <4>1
      <4>3. c <= k  BY <4>2
      <4> QED  BY <4>1, <4>3
    <3>2. sums[s] = term(old, s)  BY <2>2, <3>1
    <3>3. old[s] = term(old, s)  BY <2>1
    <3> QED  BY <3>2, <3>3
  <2>4. ASSUME NEW s \in Small(k) PROVE sums[s] = term(sums, s)
    <3>1. ASSUME s # {} PROVE s \ {First(s)} \in Small(k - 1)
      <4>1. PICK r, c, d : r = s \ {First(s)} /\ c = Cardinality(s) /\ d = Cardinality(r)  OBVIOUS
      <4>2. r \in SUBSET S /\ d \in Nat /\ c = d + 1  BY <1>2, <3>1, <4>1
      <4>3. c <= k /\ k \in Nat  BY <4>1
      <4>4. d <= k - 1
        <5> HIDE DEF Small
        <5> QED  BY <4>2, <4>3
      <4> QED  BY <4>1, <4>2, <4>4
    <3>2. s # {} => sums[s \ {First(s)}] = old[s \ {First(s)}]  BY <2>3, <3>1
    <3>3. sums[s] = term(old, s)  BY <2>2
    <3> HIDE DEF Small
    <3> QED  BY <3>2, <3>3
  <2>5. DOMAIN sums = Small(k)  BY <2>2
  <2>6. Fits(sums, k)
    <3> HIDE DEF term, Small
    <3> QED  BY <2>4, <2>5
  <2>7. k \in 0 .. N  OBVIOUS
  <2> HIDE DEF Fits
  <2> QED  BY <2>6, <2>7
<1>5. PICK G : G = Good  OBVIOUS
<1>6. 0 .. N \subseteq G
  <2> HIDE DEF Good
  <2> QED  BY <1>3, <1>4, <1>5, FromTheFirst
<1>7. PICK sums : Fits(sums, N)
  <2> HIDE DEF Fits
  <2> QED  BY <1>5, <1>6
<1>8. Small(N) = SUBSET S  BY <1>2
<1> QED  BY <1>7, <1>8 DEF AreSums

LEMMA SumIs ==
  ASSUME NEW fun, NEW S, IsFiniteSet(S)
  PROVE  \E sums : AreSums(sums, fun, S) /\ SumFunctionOnSet(fun, S) = sums[S]
<1> DEFINE all == CHOOSE iter : iter = [s \in SUBSET S |->
                    IF s = {} THEN 0 ELSE LET x == CHOOSE y \in s : TRUE IN fun[x] + iter[s \ {x}]]
<1>1. SumFunctionOnSet(fun, S) = all[S]  BY DEF SumFunctionOnSet, FoldFunctionOnSet, MapThenFoldSet
<1>2. \E iter : iter = [s \in SUBSET S |->
                    IF s = {} THEN 0 ELSE LET x == CHOOSE y \in s : TRUE IN fun[x] + iter[s \ {x}]]
  <2>1. PICK sums : AreSums(sums, fun, S)  BY SumsExist
  <2>2. PICK iter : iter = [s \in SUBSET S |-> sums[s]]  OBVIOUS
  <2>3. ASSUME NEW s \in SUBSET S
        PROVE  sums[s] = IF s = {} THEN 0
                         ELSE LET x == CHOOSE y \in s : TRUE IN fun[x] + iter[s \ {x}]
    <3>1. s # {} => iter[s \ {First(s)}] = sums[s \ {First(s)}]  BY <2>2
    <3>2. sums[s] = IF s = {} THEN 0 ELSE fun[First(s)] + sums[s \ {First(s)}]  BY <2>1 DEF AreSums
    <3>3. sums[s] = IF s = {} THEN 0 ELSE fun[First(s)] + iter[s \ {First(s)}]  BY <3>1, <3>2
    <3> QED  BY <3>3 DEF First
  <2>4. iter = [s \in SUBSET S |->
                    IF s = {} THEN 0 ELSE LET x == CHOOSE y \in s : TRUE IN fun[x] + iter[s \ {x}]]
    BY <2>2, <2>3
  <2> QED  BY <2>4, Zenon
<1>3. all = [s \in SUBSET S |->
                IF s = {} THEN 0 ELSE LET x == CHOOSE y \in s : TRUE IN fun[x] + all[s \ {x}]]
  BY <1>2
<1>4. PICK sums : sums = all  OBVIOUS
<1> HIDE DEF all
<1>5. AreSums(sums, fun, S)
  <2>1. DOMAIN sums = SUBSET S  BY <1>3, <1>4
  <2>2. ASSUME NEW s \in SUBSET S
        PROVE  sums[s] = IF s = {} THEN 0 ELSE fun[First(s)] + sums[s \ {First(s)}]
    BY <1>3, <1>4 DEF First
  <2> QED  BY <2>1, <2>2 DEF AreSums
<1> QED  BY <1>1, <1>4, <1>5

\* What holds of the empty subset and of a subset once it holds of all it shrinks to, holds of all.
LEMMA BySubsets ==
  ASSUME NEW S, IsFiniteSet(S), NEW G, {} \in G,
         \A s \in SUBSET S : s # {} /\ (\A x \in s : s \ {x} \in G) => s \in G
  PROVE  \A s \in SUBSET S : s \in G
<1>1. PICK N \in Nat : N = Cardinality(S)  BY FS_CardinalityType
<1> DEFINE Good == {k \in 0 .. N : \A s \in SUBSET S : Cardinality(s) = k => s \in G}
<1>2. ASSUME NEW s \in SUBSET S
      PROVE  IsFiniteSet(s) /\ Cardinality(s) \in 0 .. N /\ (Cardinality(s) = 0 => s = {})
  <2>1. IsFiniteSet(s) /\ Cardinality(s) <= N  BY <1>1, FS_Subset
  <2> QED  BY <2>1, FS_CardinalityType, FS_EmptySet
<1>3. 0 \in Good
  <2>1. \A s \in SUBSET S : Cardinality(s) = 0 => s \in G  BY <1>2
  <2> QED  BY <2>1
<1>4. ASSUME NEW k \in 1 .. N, k - 1 \in Good PROVE k \in Good
  <2>1. ASSUME NEW s \in SUBSET S, Cardinality(s) = k PROVE s \in G
    <3>1. s # {}
      <4>1. Cardinality({}) = 0  BY FS_EmptySet
      <4> QED  BY <2>1, <4>1
    <3>2. ASSUME NEW x \in s PROVE s \ {x} \in G
      <4>1. s \ {x} \in SUBSET S  OBVIOUS
      <4>2. Cardinality(s) = Cardinality(s \ {x}) + 1 /\ Cardinality(s \ {x}) \in Nat
        BY <1>2, Shrinks
      <4>3. Cardinality(s \ {x}) = k - 1  BY <2>1, <4>2
      <4> QED  BY <1>4, <4>1, <4>3
    <3> QED  BY <3>1, <3>2
  <2> QED  BY <2>1
<1>5. PICK T : T = Good  OBVIOUS
<1>6. 0 .. N \subseteq T
  <2> HIDE DEF Good
  <2> QED  BY <1>3, <1>4, <1>5, FromTheFirst
<1> QED  BY <1>2, <1>5, <1>6

\* Any term may be taken up first.
LEMMA AnyTermFirst ==
  ASSUME NEW S, IsFiniteSet(S), NEW fun, \A x \in S : fun[x] \in Nat,
         NEW sums, AreSums(sums, fun, S)
  PROVE  \A s \in SUBSET S : /\ sums[s] \in Nat
                             /\ \A x \in s : sums[s] = fun[x] + sums[s \ {x}]
<1>1. /\ sums[{}] = 0
      /\ \A s \in SUBSET S : s # {} => \E c \in s : sums[s] = fun[c] + sums[s \ {c}]
  <2>1. ASSUME NEW s \in SUBSET S, s # {} PROVE First(s) \in s  BY <2>1 DEF First
  <2>2. \A s \in SUBSET S : s # {} => sums[s] = fun[First(s)] + sums[s \ {First(s)}]
    BY DEF AreSums
  <2>3. sums[{}] = 0  BY DEF AreSums
  <2> QED  BY <2>1, <2>2, <2>3
<1>2. ASSUME NEW s \in SUBSET S PROVE sums[s] \in Nat
  <2>1. PICK G : G = {t \in SUBSET S : sums[t] \in Nat}  OBVIOUS
  <2>2. {} \in G  BY <1>1, <2>1
  <2>3. \A t \in SUBSET S : t # {} /\ (\A x \in t : t \ {x} \in G) => t \in G
    <3>1. SUFFICES ASSUME NEW t \in SUBSET S, t # {}, \A x \in t : t \ {x} \in G PROVE t \in G
      OBVIOUS
    <3>2. PICK c \in t : sums[t] = fun[c] + sums[t \ {c}]  BY <1>1, <3>1
    <3>3. fun[c] \in Nat /\ sums[t \ {c}] \in Nat  BY <2>1, <3>1
    <3> QED  BY <2>1, <3>2, <3>3
  <2>4. \A t \in SUBSET S : t \in G  BY <2>2, <2>3, BySubsets
  <2> QED  BY <2>1, <2>4
<1> DEFINE Right(s) == \A x \in s : sums[s] = fun[x] + sums[s \ {x}]
<1>3. ASSUME NEW s \in SUBSET S PROVE Right(s)
  <2>1. PICK G : G = {t \in SUBSET S : Right(t)}  OBVIOUS
  <2>2. {} \in G  BY <2>1
  <2>3. \A t \in SUBSET S : t # {} /\ (\A x \in t : t \ {x} \in G) => t \in G
    <3>1. SUFFICES ASSUME NEW t \in SUBSET S, t # {}, \A x \in t : t \ {x} \in G PROVE t \in G
      OBVIOUS
    <3>2. PICK c \in t : sums[t] = fun[c] + sums[t \ {c}]  BY <1>1, <3>1
    <3>3. ASSUME NEW x \in t PROVE sums[t] = fun[x] + sums[t \ {x}]
      <4>1. CASE x = c  BY <3>2, <4>1
      <4>2. CASE x # c
        <5>1. x \in t \ {c} /\ c \in t \ {x}  BY <4>2
        <5>2. sums[t \ {c}] = fun[x] + sums[(t \ {c}) \ {x}]
          <6>1. PICK u : u = t \ {c}  OBVIOUS
          <6>2. Right(u)  BY <2>1, <3>1, <6>1
          <6> QED  BY <5>1, <6>1, <6>2
        <5>3. sums[t \ {x}] = fun[c] + sums[(t \ {x}) \ {c}]
          <6>1. PICK u : u = t \ {x}  OBVIOUS
          <6>2. Right(u)  BY <2>1, <3>1, <6>1
          <6> QED  BY <5>1, <6>1, <6>2
        <5>4. PICK rest : rest = (t \ {x}) \ {c} /\ rest = (t \ {c}) \ {x}  OBVIOUS
        <5>5. rest \in SUBSET S  BY <5>4
        <5>6. sums[rest] \in Nat  BY <1>2, <5>5
        <5>7. fun[c] \in Nat /\ fun[x] \in Nat  OBVIOUS
        <5>8. sums[t] = fun[c] + (fun[x] + sums[rest])  BY <3>2, <5>2, <5>4
        <5>9. sums[t \ {x}] = fun[c] + sums[rest]  BY <5>3, <5>4
        <5> QED  BY <5>6, <5>7, <5>8, <5>9
      <4> QED  BY <4>1, <4>2
    <3> QED  BY <2>1, <3>3
  <2>4. \A t \in SUBSET S : t \in G
    <3> HIDE DEF Right
    <3> QED  BY <2>2, <2>3, BySubsets
  <2> QED  BY <2>1, <2>4
<1> QED  BY <1>2, <1>3

\* Two sums of the same terms, under other names, are equal.
LEMMA SumsAgree ==
  ASSUME NEW D, IsFiniteSet(D), NEW E, IsFiniteSet(E), NEW f, NEW h, NEW g,
         \A i \in D : g[i] \in E /\ f[i] \in Nat /\ f[i] = h[g[i]],
         \A e \in E : h[e] \in Nat /\ \E i \in D : g[i] = e,
         \A i, j \in D : g[i] = g[j] => i = j
  PROVE  SumFunctionOnSet(f, D) = SumFunctionOnSet(h, E)
<1> DEFINE Named(s) == {g[i] : i \in s}
<1>1. PICK sf : AreSums(sf, f, D) /\ SumFunctionOnSet(f, D) = sf[D]  BY SumIs
<1>2. PICK sh : AreSums(sh, h, E) /\ SumFunctionOnSet(h, E) = sh[E]  BY SumIs
<1>3. \A s \in SUBSET D : sf[s] \in Nat /\ \A x \in s : sf[s] = f[x] + sf[s \ {x}]
  BY <1>1, AnyTermFirst
<1>4. \A s \in SUBSET E : sh[s] \in Nat /\ \A x \in s : sh[s] = h[x] + sh[s \ {x}]
  BY <1>2, AnyTermFirst
<1>5. PICK G : G = {s \in SUBSET D : sf[s] = sh[Named(s)]}  OBVIOUS
<1>6. {} \in G
  <2>1. Named({}) = {}  OBVIOUS
  <2>2. sf[{}] = 0 /\ sh[{}] = 0  BY <1>1, <1>2 DEF AreSums
  <2> HIDE DEF Named
  <2> QED  BY <1>5, <2>1, <2>2
<1>7. \A s \in SUBSET D : s # {} /\ (\A x \in s : s \ {x} \in G) => s \in G
  <2>1. SUFFICES ASSUME NEW s \in SUBSET D, s # {}, \A x \in s : s \ {x} \in G PROVE s \in G
    OBVIOUS
  <2>2. PICK x \in s : TRUE  BY <2>1
  <2>3. Named(s) \in SUBSET E /\ g[x] \in Named(s)  OBVIOUS
  <2>4. Named(s \ {x}) = Named(s) \ {g[x]}  OBVIOUS
  <2> HIDE DEF Named
  <2>5. sf[s \ {x}] = sh[Named(s \ {x})]  BY <1>5, <2>1
  <2>6. sf[s] = f[x] + sf[s \ {x}]  BY <1>3
  <2>7. sh[Named(s)] = h[g[x]] + sh[Named(s) \ {g[x]}]  BY <1>4, <2>3
  <2>8. f[x] = h[g[x]]  OBVIOUS
  <2>9. sf[s] = sh[Named(s)]  BY <2>4, <2>5, <2>6, <2>7, <2>8
  <2> QED  BY <1>5, <2>9
<1>8. \A s \in SUBSET D : s \in G  BY <1>6, <1>7, BySubsets
<1>9. Named(D) = E  OBVIOUS
<1> QED  BY <1>1, <1>2, <1>5, <1>8, <1>9

-----------------------------------------------------------------------------
(* Spend: what is recorded of the calls, and what a run is admitted on. *)

PartRecords == [type : {"step-start", "step-finish"}, message : Nat, of : SlotNumbers, cost : Nat,
                report : Reports \cup {"none"}]

SpendTypes ==
  /\ billing \in [basis : {"priced", "no-table", "unbilled"}, allowance : Nat \cup {None}]
  /\ billing.allowance # None => billing.basis = "unbilled"
  /\ policy \in PolicyRecords /\ authorizing \in PolicyRecords \cup {None}
  /\ ledger \in Ledgers \cup {None}
  /\ supervisor = "watching" => ledger # None
  /\ price \in Seq(Nat) /\ parts \in Seq(PartRecords)

\* A call has a start, at most one finish with what it cost, and a session that made it.
CallsInv ==
  /\ sessions = {} => price = <<>> /\ parts = <<>>
  /\ \A i \in DOMAIN parts : parts[i].message \in DOMAIN price
  /\ \A m \in DOMAIN price : \E i \in Starts(parts) : parts[i].message = m
  /\ \A i, j \in Finishes(parts) : parts[i].message = parts[j].message => i = j
  /\ \A i \in Finishes(parts) : /\ parts[i].cost = price[parts[i].message]
                                /\ parts[i].report \in Reports

SpendInv == SpendTypes /\ CallsInv

LEMMA EmptySum == ASSUME NEW fun PROVE SumFunctionOnSet(fun, {}) = 0
<1>1. IsFiniteSet({})  BY FS_EmptySet
<1>2. PICK sums : AreSums(sums, fun, {}) /\ SumFunctionOnSet(fun, {}) = sums[{}]  BY <1>1, SumIs
<1> QED  BY <1>2 DEF AreSums

LEMMA PlacesAreFinite ==
  ASSUME NEW S, NEW rows \in Seq(S)
  PROVE  /\ IsFiniteSet(DOMAIN rows)
         /\ \A s \in SUBSET (DOMAIN rows) :
              IsFiniteSet(s) /\ (Cardinality(s) = 0 <=> s = {})
<1>1. PICK n \in Nat : DOMAIN rows = 1 .. n  BY LenProperties
<1>2. IsFiniteSet(1 .. n)  BY FS_Interval
<1> QED  BY <1>1, <1>2, FS_Subset, FS_EmptySet

\* Where the starts and the finishes agree and no count is missing, what is summed is what the
\* calls cost.
LEMMA GeneratedIsReal ==
  ASSUME SpendInv, Reconciled(parts), \A i \in Finishes(parts) : parts[i].report \notin {"zero", "missing"}
  PROVE  Generated(parts) = Real
<1> DEFINE f == [i \in DOMAIN parts |-> Counted(parts[i])]
           g == [i \in DOMAIN parts |-> parts[i].message]
<1>1. /\ IsFiniteSet(DOMAIN price)
      /\ \A s \in SUBSET (DOMAIN parts) : IsFiniteSet(s) /\ (Cardinality(s) = 0 <=> s = {})
  BY PlacesAreFinite DEF SpendInv, SpendTypes
<1>2. Finishes(parts) \in SUBSET (DOMAIN parts)  BY DEF Finishes
<1>3. IsFiniteSet(Finishes(parts))  BY <1>1, <1>2
<1>4. \A m \in DOMAIN price : price[m] \in Nat  BY LenProperties, ElementOfSeq DEF SpendInv, SpendTypes
<1>5. ASSUME NEW i \in Finishes(parts)
      PROVE  g[i] \in DOMAIN price /\ f[i] = price[g[i]]
  <2>1. i \in DOMAIN parts  BY DEF Finishes
  <2>2. parts[i].message \in DOMAIN price /\ parts[i].cost = price[parts[i].message]
        /\ parts[i].report \in Reports
    BY <2>1 DEF SpendInv, CallsInv
  <2>3. Counted(parts[i]) = parts[i].cost  BY <2>2 DEF Counted, Reports
  <2> QED  BY <2>1, <2>2, <2>3
<1>6. \A i, j \in Finishes(parts) : g[i] = g[j] => i = j  BY <1>2 DEF SpendInv, CallsInv
<1>7. ASSUME NEW m \in DOMAIN price PROVE \E i \in Finishes(parts) : g[i] = m
  <2> DEFINE begun == {i \in Starts(parts) : parts[i].message = m}
             ended == {i \in Finishes(parts) : parts[i].message = m}
  <2>1. PICK i \in begun : TRUE  BY DEF SpendInv, CallsInv
  <2>2. i \in DOMAIN parts /\ parts[i].message = m  BY DEF Starts
  <2>3. Cardinality(begun) = Cardinality(ended)  BY <2>2 DEF Reconciled
  <2>4. begun \in SUBSET (DOMAIN parts) /\ ended \in SUBSET (DOMAIN parts)
    BY DEF Starts, Finishes
  <2>5. ended # {}
    <3> HIDE DEF begun, ended
    <3> QED  BY <1>1, <2>1, <2>3, <2>4
  <2> QED  BY <1>2, <2>5
<1>8. \A i \in Finishes(parts) : g[i] \in DOMAIN price /\ f[i] \in Nat /\ f[i] = price[g[i]]
  BY <1>4, <1>5
<1>9. \A m \in DOMAIN price : price[m] \in Nat /\ \E i \in Finishes(parts) : g[i] = m
  BY <1>4, <1>7
<1>10. SumFunctionOnSet(f, Finishes(parts)) = SumFunctionOnSet(price, DOMAIN price)
  <2> HIDE DEF f, g
  <2>1. PICK D, E, h : D = Finishes(parts) /\ E = DOMAIN price /\ h = price  OBVIOUS
  <2>2. IsFiniteSet(D) /\ IsFiniteSet(E)  BY <1>1, <1>3, <2>1
  <2>3. \A i \in D : g[i] \in E /\ f[i] \in Nat /\ f[i] = h[g[i]]  BY <1>8, <2>1
  <2>4. \A e \in E : h[e] \in Nat /\ \E i \in D : g[i] = e  BY <1>9, <2>1
  <2>5. \A i, j \in D : g[i] = g[j] => i = j  BY <1>6, <2>1
  <2>6. SumFunctionOnSet(f, D) = SumFunctionOnSet(h, E)  BY <2>2, <2>3, <2>4, <2>5, SumsAgree
  <2> QED  BY <2>1, <2>6
<1> QED  BY <1>10 DEF Generated, Real

LEMMA NoGapsMeansRecorded ==
  ASSUME NEW facts, ~TelemetryGaps(facts), ~Anomalies(parts)
  PROVE  Reconciled(parts) /\ \A i \in Finishes(parts) : parts[i].report \notin {"zero", "missing"}
BY DEF TelemetryGaps, Anomalies, Finishes

\* A figure called complete is what the calls cost, in money or in tokens.
LEMMA CompleteIsAll ==
  ASSUME SpendInv, NEW dirs, Spend(dirs).complete
  PROVE  /\ billing.basis # "no-table"
         /\ billing.basis = "priced" => Spend(dirs).derived = Real
         /\ billing.allowance # None => Generated(parts) = Real
<1>1. PICK facts : facts = LaunchFacts(dirs)  OBVIOUS
<1>2. PICK settled : settled = (~LifecycleGaps(facts) /\ ~TelemetryGaps(facts) /\ ~Unfinished)
  OBVIOUS
<1>3. settled => ~TelemetryGaps(facts)  BY <1>2
<1>4. PICK basis : basis = billing.basis  OBVIOUS
<1>5. PICK exists : exists = DatabaseExists  OBVIOUS
<1>6. PICK uncounted : uncounted = (Anomalies(parts) \/ CostRows(parts) = None)  OBVIOUS
<1>7. Spend(dirs) =
        CASE basis = "unbilled" -> Unbilled(facts)
          [] basis = "no-table" -> Unknown
          [] basis = "priced" ->
               IF exists THEN IF uncounted THEN Unknown
                              ELSE [derived |-> CostRows(parts), complete |-> settled]
               ELSE IF facts = {} THEN [derived |-> 0, complete |-> TRUE] ELSE Unknown
  BY <1>1, <1>2, <1>4, <1>5, <1>6 DEF Spend
<1>8. /\ basis = "unbilled" => Spend(dirs) = Unbilled(facts)
      /\ basis = "no-table" => Spend(dirs) = Unknown
      /\ basis = "priced" /\ ~exists =>
           Spend(dirs) = IF facts = {} THEN [derived |-> 0, complete |-> TRUE] ELSE Unknown
      /\ basis = "priced" /\ exists /\ uncounted => Spend(dirs) = Unknown
      /\ basis = "priced" /\ exists /\ ~uncounted =>
           Spend(dirs) = [derived |-> CostRows(parts), complete |-> settled]
  BY <1>7
<1>9. ~Unknown.complete  BY DEF Unknown
<1>10. ASSUME ~exists PROVE Real = 0 /\ Generated(parts) = Real
  <2>1. price = <<>> /\ parts = <<>>
    BY <1>5, <1>10 DEF SpendInv, CallsInv, DatabaseExists
  <2>2. DOMAIN price = {} /\ DOMAIN parts = {}  BY <2>1
  <2>3. Real = 0  BY <2>2, EmptySum DEF Real
  <2>4. Finishes(parts) = {}  BY <2>2 DEF Finishes
  <2> QED  BY <2>3, <2>4, EmptySum DEF Generated
<1>11. CASE basis = "unbilled"
  <2>1. ASSUME billing.allowance # None, exists PROVE Generated(parts) = Real
    <3>1. PICK idle : idle = (Anomalies(parts) \/ TelemetryGaps(facts) \/ Unfinished)  OBVIOUS
    <3>2. PICK life : life = LifecycleGaps(facts)  OBVIOUS
    <3>3. Unbilled(facts) =
            [derived |-> None, complete |-> ~life /\ (billing.allowance # None => ~idle)]
      BY <1>5, <2>1, <3>1, <3>2 DEF Unbilled
    <3>4. PICK c : c = (~life /\ (billing.allowance # None => ~idle))  OBVIOUS
    <3>5. Unbilled(facts) = [derived |-> None, complete |-> c]  BY <3>3, <3>4
    <3>6. c  BY <1>8, <1>11, <3>5
    <3>7. ~Anomalies(parts) /\ ~TelemetryGaps(facts)  BY <2>1, <3>1, <3>4, <3>6
    <3> QED  BY <3>7, NoGapsMeansRecorded, GeneratedIsReal
  <2> QED  BY <1>4, <1>10, <1>11, <2>1
<1>12. CASE basis = "priced"
  <2>1. billing.allowance = None  BY <1>4, <1>12 DEF SpendInv, SpendTypes
  <2>2. CASE ~exists
    <3>1. Spend(dirs).derived = 0  BY <1>8, <1>9, <1>12, <2>2
    <3> QED  BY <1>4, <1>10, <1>12, <2>1, <2>2, <3>1
  <2>3. CASE exists
    <3>1. ~uncounted  BY <1>8, <1>9, <1>12, <2>3
    <3>2. Spend(dirs).derived = CostRows(parts) /\ settled  BY <1>8, <1>12, <2>3, <3>1
    <3>3. CostRows(parts) = Generated(parts)  BY <1>6, <3>1 DEF CostRows
    <3>4. ~Anomalies(parts)  BY <1>6, <3>1
    <3>5. Generated(parts) = Real  BY <1>3, <3>2, <3>4, NoGapsMeansRecorded, GeneratedIsReal
    <3> QED  BY <1>4, <1>12, <2>1, <3>2, <3>3, <3>5
  <2> QED  BY <2>2, <2>3
<1>13. CASE basis = "no-table"
  <2>1. Spend(dirs) = Unknown  BY <1>8, <1>13
  <2> QED  BY <1>9, <2>1
<1> QED  BY <1>4, <1>11, <1>12, <1>13 DEF SpendInv, SpendTypes

LEMMA SpendStart == Init => SpendInv
<1> SUFFICES ASSUME Init PROVE SpendInv  OBVIOUS
<1>1. SpendTypes
  <2>1. billing \in [basis : {"priced", "no-table", "unbilled"}, allowance : Nat \cup {None}]
    BY SpendAssumption DEF Init
  <2>2. policy \in PolicyRecords  BY DEF Init, NoPolicy, PolicyRecords
  <2>3. price \in Seq(Nat) /\ parts \in Seq(PartRecords)  BY EmptySeq DEF Init
  <2> QED  BY <2>1, <2>2, <2>3 DEF Init, SpendTypes
<1>2. DOMAIN parts = {} /\ DOMAIN price = {}  BY DEF Init
<1> QED  BY <1>1, <1>2 DEF Init, SpendInv, CallsInv, Starts, Finishes

LEMMA SlotKept ==
  ASSUME NEW slots \in Seq(SlotRecords), NEW n, NEW slot \in SlotRecords
  PROVE  [slots EXCEPT ![n] = slot] \in Seq(SlotRecords) /\ Len([slots EXCEPT ![n] = slot]) = Len(slots)
<1>1. Len(slots) \in Nat /\ DOMAIN slots = 1 .. Len(slots)  BY LenProperties
<1>2. CASE n \in 1 .. Len(slots)  BY <1>2, ExceptSeq
<1>3. CASE n \notin 1 .. Len(slots)
  <2>1. [slots EXCEPT ![n] = slot] = slots
    BY <1>1, <1>3, LenProperties
  <2> QED  BY <2>1
<1> QED  BY <1>2, <1>3

\* A part is written of a call that begins, or of one that had only begun.
LEMMA PartAppended ==
  ASSUME SpendInv, NEW row \in PartRecords, parts' = Append(parts, row)
  PROVE  /\ parts' \in Seq(PartRecords)
         /\ DOMAIN parts' = DOMAIN parts \cup {Len(parts) + 1} /\ Len(parts) + 1 \notin DOMAIN parts
         /\ \A i \in DOMAIN parts : parts'[i] = parts[i]
         /\ parts'[Len(parts) + 1] = row
<1>1. parts \in Seq(PartRecords)  BY DEF SpendInv, SpendTypes
<1>2. Len(parts) \in Nat /\ DOMAIN parts = 1 .. Len(parts)  BY <1>1, LenProperties
<1> QED  BY <1>1, <1>2, AppendProperties

LEMMA SpendStutter ==
  SpendInv /\ UNCHANGED <<billing, policy, authorizing, ledger, supervisor, sessions, parts, price>>
    => SpendInv'
BY DEF SpendInv, SpendTypes, CallsInv, Starts, Finishes

LEMMA CallsKept ==
  CallsInv /\ UNCHANGED <<parts, price>> /\ (sessions' = {} => sessions = {}) => CallsInv'
BY DEF CallsInv, Starts, Finishes

LEMMA LimitsAre == SpendTypes => Limits \in PolicyRecords /\ Slots \in Seq(SlotRecords)
<1> SUFFICES ASSUME SpendTypes PROVE Limits \in PolicyRecords /\ Slots \in Seq(SlotRecords)
  OBVIOUS
<1>1. CASE ledger = None  BY <1>1, EmptySeq DEF Limits, Slots, SpendTypes
<1>2. CASE ledger # None  BY <1>2 DEF Limits, Slots, SpendTypes, Ledgers
<1> QED  BY <1>1, <1>2

LEMMA ReserveKeeps == SpendInv /\ ReserveSlot => SpendInv'
<1> SUFFICES ASSUME SpendInv, ReserveSlot PROVE SpendInv'  OBVIOUS
<1>1. PICK slot : slot = [class |-> "unresolved", event |-> None]  OBVIOUS
<1>2. slot \in SlotRecords  BY <1>1 DEF SlotRecords
<1>3. ledger' = [policy |-> Limits, slots |-> Append(Slots, slot)]  BY <1>1 DEF ReserveSlot
<1>4. Append(Slots, slot) \in Seq(SlotRecords)
  <2>1. Slots \in Seq(SlotRecords)  BY LimitsAre DEF SpendInv
  <2> QED  BY <1>2, <2>1, AppendProperties
<1>5. ledger' \in Ledgers  BY <1>3, <1>4, LimitsAre DEF Ledgers, SpendInv
<1>6. ledger' # None  BY <1>5, SpendAssumption
<1>7. SpendTypes'  BY <1>5, <1>6 DEF ReserveSlot, SpendInv, SpendTypes
<1>8. CallsInv'  BY CallsKept DEF ReserveSlot, SpendInv
<1> QED  BY <1>7, <1>8 DEF SpendInv

\* What Conclude writes: the same ledger, but for one slot.
LEMMA ConcludeWrites ==
  ASSUME SpendInv, Conclude
  PROVE  ledger' \in Ledgers /\ Len(ledger'.slots) = Len(Slots)
<1>1. ledger # None /\ ledger \in Ledgers  BY DEF Conclude, SpendInv, SpendTypes
<1>2. Slots = ledger.slots /\ ledger.slots \in Seq(SlotRecords) /\ ledger.policy \in PolicyRecords
  BY <1>1 DEF Slots, Ledgers
<1>3. Active \in Nat  BY <1>2, LenProperties DEF Active
<1>4. PICK slot \in SlotRecords : ledger' = [ledger EXCEPT !.slots[Active] = slot]
  <2>1. PICK slot : slot = IF attempts[Active].reservation
                             THEN [class |-> "executor-reached", event |-> Active]
                             ELSE [class |-> "pre-executor-failure", event |-> None]  OBVIOUS
  <2>2. slot \in SlotRecords
    <3>1. [class |-> "executor-reached", event |-> Active] \in SlotRecords  BY <1>3 DEF SlotRecords
    <3>2. [class |-> "pre-executor-failure", event |-> None] \in SlotRecords  BY DEF SlotRecords
    <3> QED  BY <2>1, <3>1, <3>2
  <2>3. ledger' = [ledger EXCEPT !.slots[Active] = slot]  BY <2>1 DEF Conclude
  <2> QED  BY <2>2, <2>3
<1>5. PICK slots : slots = [ledger.slots EXCEPT ![Active] = slot]  OBVIOUS
<1>6. slots \in Seq(SlotRecords) /\ Len(slots) = Len(ledger.slots)
  BY <1>2, <1>5, SlotKept
<1>7. ledger' = [policy |-> ledger.policy, slots |-> slots]
  BY <1>1, <1>4, <1>5 DEF Ledgers
<1> QED  BY <1>2, <1>6, <1>7 DEF Ledgers

LEMMA ConcludeKeeps == SpendInv /\ Conclude => SpendInv'
<1> SUFFICES ASSUME SpendInv, Conclude PROVE SpendInv'  OBVIOUS
<1>1. ledger' \in Ledgers  BY ConcludeWrites
<1>2. SpendTypes'  BY <1>1 DEF Conclude, SpendInv, SpendTypes
<1>3. CallsInv'  BY CallsKept DEF Conclude, SpendInv
<1> QED  BY <1>2, <1>3 DEF SpendInv

LEMMA StartCallKeeps ==
  ASSUME SpendInv, NEW a \in SlotNumbers, NEW c \in Costs, StartCall(a, c)
  PROVE  SpendInv'
<1>1. PICK m : m = Len(price) + 1  OBVIOUS
<1>2. PICK n : n = Len(parts) + 1  OBVIOUS
<1>3. PICK row : row = [type |-> "step-start", message |-> m, of |-> a, cost |-> 0, report |-> "none"]
  OBVIOUS
<1>4. price \in Seq(Nat) /\ Len(price) \in Nat /\ DOMAIN price = 1 .. Len(price) /\ c \in Nat
  BY LenProperties, SpendAssumption DEF SpendInv, SpendTypes
<1>5. row \in PartRecords  BY <1>1, <1>3, <1>4 DEF PartRecords
<1>6. parts' = Append(parts, row) /\ price' = Append(price, c)  BY <1>1, <1>3 DEF StartCall
<1>7. /\ parts' \in Seq(PartRecords)
      /\ DOMAIN parts' = DOMAIN parts \cup {n} /\ n \notin DOMAIN parts
      /\ \A i \in DOMAIN parts : parts'[i] = parts[i]
      /\ parts'[n] = row
  BY <1>2, <1>5, <1>6, PartAppended
<1>8. /\ price' \in Seq(Nat) /\ DOMAIN price' = DOMAIN price \cup {m}
      /\ \A k \in DOMAIN price : price'[k] = price[k]
  BY <1>1, <1>4, <1>6, AppendProperties
<1>9. Starts(parts') = Starts(parts) \cup {n} /\ Finishes(parts') = Finishes(parts)
      /\ Starts(parts) \subseteq DOMAIN parts /\ Finishes(parts) \subseteq DOMAIN parts
  BY <1>3, <1>7 DEF Starts, Finishes
<1>10. row.message = m  BY <1>3
<1>11. CallsInv'
  <2>1. sessions' # {}  BY DEF StartCall
  <2>2. \A i \in DOMAIN parts' : parts'[i].message \in DOMAIN price'
    BY <1>7, <1>8, <1>10 DEF SpendInv, CallsInv
  <2>3. \A k \in DOMAIN price' : \E i \in Starts(parts') : parts'[i].message = k
    <3>1. SUFFICES ASSUME NEW k \in DOMAIN price' PROVE \E i \in Starts(parts') : parts'[i].message = k
      OBVIOUS
    <3>2. CASE k = m  BY <1>7, <1>9, <1>10, <3>2
    <3>3. CASE k \in DOMAIN price
      <4>1. PICK i \in Starts(parts) : parts[i].message = k  BY <3>3 DEF SpendInv, CallsInv
      <4> QED  BY <1>7, <1>9, <4>1
    <3> QED  BY <1>8, <3>2, <3>3
  <2>4. \A i, j \in Finishes(parts') : parts'[i].message = parts'[j].message => i = j
    BY <1>7, <1>9 DEF SpendInv, CallsInv
  <2>5. ASSUME NEW i \in Finishes(parts')
        PROVE  parts'[i].cost = price'[parts'[i].message] /\ parts'[i].report \in Reports
    <3>1. i \in Finishes(parts) /\ i \in DOMAIN parts /\ parts'[i] = parts[i]  BY <1>7, <1>9
    <3>2. parts[i].message \in DOMAIN price /\ parts[i].cost = price[parts[i].message]
          /\ parts[i].report \in Reports
      BY <3>1 DEF SpendInv, CallsInv
    <3> QED  BY <1>8, <3>1, <3>2
  <2> QED  BY <2>1, <2>2, <2>3, <2>4, <2>5 DEF CallsInv, Reports
<1>12. SpendTypes'  BY <1>7, <1>8 DEF StartCall, SpendInv, SpendTypes
<1> QED  BY <1>11, <1>12 DEF SpendInv

LEMMA FinishCallKeeps ==
  ASSUME SpendInv, NEW a \in SlotNumbers, NEW r \in Reports, FinishCall(a, r)
  PROVE  SpendInv'
<1>1. PICK b \in DOMAIN parts :
        /\ parts[b].of = a /\ parts[b].type = "step-start"
        /\ \A j \in DOMAIN parts : ~(parts[j].message = parts[b].message /\ parts[j].type = "step-finish")
        /\ parts' = Append(parts, [type |-> "step-finish", message |-> parts[b].message, of |-> a,
                                   cost |-> price[parts[b].message], report |-> r])
  BY Zenon DEF FinishCall
<1>2. PICK m : m = parts[b].message  OBVIOUS
<1>3. PICK n : n = Len(parts) + 1  OBVIOUS
<1>4. PICK row : row = [type |-> "step-finish", message |-> m, of |-> a, cost |-> price[m], report |-> r]
  OBVIOUS
<1>5. m \in DOMAIN price  BY <1>2 DEF SpendInv, CallsInv
<1>6. m \in Nat /\ price[m] \in Nat
  <2>1. price \in Seq(Nat)  BY DEF SpendInv, SpendTypes
  <2> QED  BY <1>5, <2>1, LenProperties
<1>7. row \in PartRecords  BY <1>4, <1>6 DEF PartRecords
<1>8. parts' = Append(parts, row)  BY <1>1, <1>2, <1>4
<1>9. /\ parts' \in Seq(PartRecords)
      /\ DOMAIN parts' = DOMAIN parts \cup {n} /\ n \notin DOMAIN parts
      /\ \A i \in DOMAIN parts : parts'[i] = parts[i]
      /\ parts'[n] = row
  BY <1>3, <1>7, <1>8, PartAppended
<1>10. Starts(parts') = Starts(parts) /\ Finishes(parts') = Finishes(parts) \cup {n}
      /\ Starts(parts) \subseteq DOMAIN parts /\ Finishes(parts) \subseteq DOMAIN parts
  BY <1>4, <1>9 DEF Starts, Finishes
<1>11. row.message = m /\ row.cost = price[m] /\ row.report = r  BY <1>4
<1>12. \A j \in Finishes(parts) : parts[j].message # m
  <2>1. ASSUME NEW j \in Finishes(parts) PROVE j \in DOMAIN parts /\ parts[j].type = "step-finish"
    BY DEF Finishes
  <2> QED  BY <1>1, <1>2, <2>1
<1>13. price' = price /\ sessions' = sessions  BY DEF FinishCall
<1>14. CallsInv'
  <2>1. sessions' # {}
    <3>1. parts # <<>>  BY <1>1
    <3> QED  BY <1>13, <3>1 DEF SpendInv, CallsInv
  <2>2. \A i \in DOMAIN parts' : parts'[i].message \in DOMAIN price'
    BY <1>5, <1>9, <1>11, <1>13 DEF SpendInv, CallsInv
  <2>3. \A k \in DOMAIN price' : \E i \in Starts(parts') : parts'[i].message = k
    BY <1>9, <1>10, <1>13 DEF SpendInv, CallsInv
  <2>4. ASSUME NEW i \in Finishes(parts'), NEW j \in Finishes(parts'),
               parts'[i].message = parts'[j].message
        PROVE  i = j
    <3>1. CASE i \in Finishes(parts) /\ j \in Finishes(parts)
      BY <1>9, <1>10, <2>4, <3>1 DEF SpendInv, CallsInv
    <3>2. CASE i = n /\ j \in Finishes(parts)  BY <1>9, <1>10, <1>11, <1>12, <2>4, <3>2
    <3>3. CASE i \in Finishes(parts) /\ j = n  BY <1>9, <1>10, <1>11, <1>12, <2>4, <3>3
    <3> QED  BY <1>10, <3>1, <3>2, <3>3
  <2>5. ASSUME NEW i \in Finishes(parts')
        PROVE  parts'[i].cost = price'[parts'[i].message] /\ parts'[i].report \in Reports
    <3>1. CASE i = n  BY <1>9, <1>11, <1>13, <3>1
    <3>2. CASE i \in Finishes(parts)
      BY <1>9, <1>10, <1>13, <3>2 DEF SpendInv, CallsInv
    <3> QED  BY <1>10, <3>1, <3>2
  <2> QED  BY <2>1, <2>2, <2>3, <2>4, <2>5 DEF CallsInv, Reports
<1>15. SpendTypes'  BY <1>9, <1>13 DEF FinishCall, SpendInv, SpendTypes
<1> QED  BY <1>14, <1>15 DEF SpendInv

LEMMA SpendStep == SpendInv /\ [Next]_vars => SpendInv'
<1> SUFFICES ASSUME SpendInv, [Next]_vars PROVE SpendInv'  OBVIOUS
<1>1. ASSUME NEW p \in Policies, AuthorizeCheck(p) PROVE SpendInv'
  <2>1. SpendTypes'  BY <1>1, SpendAssumption DEF AuthorizeCheck, SpendInv, SpendTypes
  <2>2. CallsInv'  BY <1>1, CallsKept DEF AuthorizeCheck, SpendInv
  <2> QED  BY <2>1, <2>2 DEF SpendInv
<1>2. ASSUME AuthorizeWrite PROVE SpendInv'
  <2>1. SpendTypes'  BY <1>2 DEF AuthorizeWrite, SpendInv, SpendTypes
  <2>2. CallsInv'  BY <1>2, CallsKept DEF AuthorizeWrite, SpendInv
  <2> QED  BY <2>1, <2>2 DEF SpendInv
<1>3. ASSUME NEW a \in SlotNumbers, OpenSession(a) PROVE SpendInv'
  <2>1. sessions' # {}  BY <1>3 DEF OpenSession
  <2>2. SpendTypes'  BY <1>3 DEF OpenSession, SpendInv, SpendTypes
  <2>3. CallsInv'  BY <1>3, <2>1, CallsKept DEF OpenSession, SpendInv
  <2> QED  BY <2>2, <2>3 DEF SpendInv
<1>4. ASSUME NEW a \in SlotNumbers, Launch(a) PROVE SpendInv'
  BY <1>4, SpendStutter DEF Launch
<1>5. ASSUME NEW a \in SlotNumbers, StartWorker(a) PROVE SpendInv'
  BY <1>5, SpendStutter DEF StartWorker
<1>6. ASSUME NEW a \in SlotNumbers, NEW s, NEW id, Terminate(a, s, id) PROVE SpendInv'
  BY <1>6, SpendStutter DEF Terminate
<1>7. ASSUME NEW a \in SlotNumbers, Spoil(a) PROVE SpendInv'
  BY <1>7, SpendStutter DEF Spoil
<1>8. CASE UNCHANGED vars  BY <1>8, SpendStutter DEF vars
<1>9. CASE Next
  BY <1>1, <1>2, <1>3, <1>4, <1>5, <1>6, <1>7, <1>9, ReserveKeeps, ConcludeKeeps, StartCallKeeps,
     FinishCallKeeps DEF Next
<1> QED  BY <1>8, <1>9

\* The rows of the database are those of the calls the run has made, each with what it cost.
THEOREM SpendInvariant == Spec => []SpendInv
<1>1. Init => SpendInv  BY SpendStart
<1>2. SpendInv /\ [Next]_vars => SpendInv'  BY SpendStep
<1> QED  BY <1>1, <1>2, PTL DEF Spec

\* A figure that is called complete is what the calls of the run really cost, however many there
\* were, whatever was killed and whatever usage a server left out (spend, _launch_budget.py).
THEOREM CompleteSpendIsReal == Spec => []CompleteMeansAll
<1>1. SpendInv => CompleteMeansAll
  BY CompleteIsAll DEF CompleteMeansAll, Account
<1> QED  BY <1>1, SpendInvariant, PTL

\* Only a reservation adds a slot.
LEMMA OnlyReserveAdds ==
  ASSUME SpendInv, [Next]_vars, Len(Slots') > Len(Slots) PROVE ReserveSlot
<1>1. Len(Slots) \in Nat  BY LimitsAre, LenProperties DEF SpendInv
<1>2. ledger' # ledger  BY <1>1 DEF Slots
<1>3. ~Conclude
  <2>1. SUFFICES ASSUME Conclude PROVE FALSE  OBVIOUS
  <2>2. ledger' \in Ledgers /\ Len(ledger'.slots) = Len(Slots)  BY <2>1, ConcludeWrites
  <2>3. ledger' # None  BY <2>2, SpendAssumption
  <2>4. Slots' = ledger'.slots  BY <2>3 DEF Slots
  <2> QED  BY <1>1, <2>2, <2>4
<1>4. ~UNCHANGED vars  BY <1>2 DEF vars
<1>5. \A p \in Policies : ~AuthorizeCheck(p)  BY <1>2 DEF AuthorizeCheck
<1>6. ~AuthorizeWrite  BY <1>2 DEF AuthorizeWrite
<1>7. ASSUME NEW a \in SlotNumbers
      PROVE  ~Launch(a) /\ ~StartWorker(a) /\ ~OpenSession(a) /\ ~Spoil(a)
  BY <1>2 DEF Launch, StartWorker, OpenSession, Spoil
<1>8. ASSUME NEW a \in SlotNumbers, NEW x, NEW y
      PROVE  ~StartCall(a, x) /\ ~FinishCall(a, x) /\ ~Terminate(a, x, y)
  BY <1>2 DEF StartCall, FinishCall, Terminate
<1>9. Next  BY <1>4
<1> QED  BY <1>3, <1>5, <1>6, <1>7, <1>8, <1>9 DEF Next

\* A slot is reserved only when the calls already made and the reserve fit the limit that is in
\* force, or the tokens already generated are below the allowance (LaunchLedger.admit).
THEOREM AdmissionsFitTheBudget == Spec => AdmittedWithinBudget
<1> DEFINE Fits == Len(Slots') > Len(Slots) =>
             /\ billing.basis # "no-table"
             /\ billing.basis = "priced" => Real + ledger'.policy.reserve <= ledger'.policy.limit
             /\ billing.allowance # None => Real < billing.allowance
<1>1. SpendInv /\ [Next]_vars => Fits
  <2>1. SUFFICES ASSUME SpendInv, [Next]_vars, Len(Slots') > Len(Slots)
                 PROVE  /\ billing.basis # "no-table"
                        /\ billing.basis = "priced" =>
                             Real + ledger'.policy.reserve <= ledger'.policy.limit
                        /\ billing.allowance # None => Real < billing.allowance
    OBVIOUS
  <2>2. ReserveSlot  BY <2>1, OnlyReserveAdds
  <2>3. Admits /\ ledger'.policy = Limits  BY <2>2 DEF ReserveSlot
  <2>4. /\ Account.complete
        /\ billing.basis # "unbilled" => Account.derived + Limits.reserve <= Limits.limit
        /\ billing.basis = "unbilled" /\ billing.allowance # None => Generated(parts) < billing.allowance
    BY <2>3 DEF Admits
  <2>5. /\ billing.basis # "no-table"
        /\ billing.basis = "priced" => Account.derived = Real
        /\ billing.allowance # None => Generated(parts) = Real
    BY <2>1, <2>4, CompleteIsAll DEF Account
  <2>6. billing.allowance # None => billing.basis = "unbilled"  BY <2>1 DEF SpendInv, SpendTypes
  <2> QED  BY <2>3, <2>4, <2>5, <2>6
<1>2. SpendInv /\ [Next]_vars => [Fits]_vars  BY <1>1
<1> QED  BY <1>2, SpendInvariant, PTL DEF Spec, AdmittedWithinBudget
=============================================================================
