------------------------ MODULE LaunchSupervisionProofs ------------------------
(***************************************************************************)
(* Proofs about LaunchSupervision, for every number of callers, supervisors *)
(* and launches: its types, that one supervisor acts at a time, and what    *)
(* that makes of the ledger.                                                *)
(***************************************************************************)
EXTENDS LaunchSupervision, FiniteSetTheorems, SequenceTheorems, TLAPS

-----------------------------------------------------------------------------
(* The ledger's operators *)

\* Reserving keeps a ledger a ledger: one more slot, the others as they were.
LEMMA ReserveTyped ==
  ASSUME NEW slots \in Seq(Slot)
  PROVE  /\ Reserve(slots) \in Seq(Slot)
         /\ Len(Reserve(slots)) = Len(slots) + 1
         /\ Reserve(slots)[Len(slots) + 1] = [class |-> Unresolved, event |-> NONE]
         /\ \A i \in 1 .. Len(slots) : Reserve(slots)[i] = slots[i]
<1>1. [class |-> Unresolved, event |-> NONE] \in Slot
  BY DEF Slot, Class, Event
<1> QED BY <1>1, AppendProperties DEF Reserve

\* Classifying keeps a ledger a ledger, of the same length.
LEMMA ClassifyTyped ==
  ASSUME NEW slots \in Seq(Slot), NEW i, NEW e \in Event
  PROVE  /\ Classify(slots, i, e) \in Seq(Slot)
         /\ Len(Classify(slots, i, e)) = Len(slots)
<1> DEFINE r == [class |-> IF e \in reserved THEN ExecutorReached ELSE PreExecutorFailure,
                 event |-> e]
<1>1. r \in Slot
  BY DEF Slot, Class
<1>2. CASE i \in DOMAIN slots
  <2>1. i \in 1 .. Len(slots)
    BY <1>2, LenProperties
  <2> QED BY <1>1, <2>1, ExceptSeq DEF Classify
<1>3. CASE i \notin DOMAIN slots
  <2>1. Classify(slots, i, e) = slots
    BY <1>3, LenProperties DEF Classify
  <2> QED BY <2>1
<1> QED BY <1>2, <1>3

LEMMA UnresolvedSlotsTyped ==
  ASSUME NEW slots \in Seq(Slot)
  PROVE  UnresolvedSlots(slots) \subseteq Nat
<1>1. DOMAIN slots = 1 .. Len(slots) /\ Len(slots) \in Nat
  BY LenProperties
<1> QED BY <1>1 DEF UnresolvedSlots, SlotsOf

-----------------------------------------------------------------------------
(* Type correctness *)

LEMMA TypeOKSpawn ==
  ASSUME TypeOK, NEW c \in Caller, NEW mode \in Mode, NEW slot \in Nat, NEW event \in Event,
         Spawn(c, mode, slot, event)
  PROVE  TypeOK'
<1>1. PICK t \in Token, started \in BOOLEAN :
        /\ spc' = [spc EXCEPT ![t] = "polling"]
        /\ cpc' = [cpc EXCEPT ![c] = "recording"]
        /\ cseen' = [cseen EXCEPT ![c] = [token |-> t, mode |-> mode, slot |-> slot,
                                         event |-> event, started |-> started,
                                         request |-> cplan[c].request]]
        /\ UNCHANGED <<lock, cplan, smem, swork, fileVars, procVars, evidenceVars>>
  BY DEF Spawn
<1>2. cplan[c].request \in Event
  BY DEF TypeOK, Plan
<1>3. cseen' \in [Caller -> Record \cup {NONE}]
  BY <1>1, <1>2 DEF TypeOK, Record
<1>5. cseen'[c] # NONE
  BY <1>1, <1>2, NoneIsNoRecord DEF TypeOK, Record
<1>4. cpc' \in [Caller -> CallerState] /\ spc' \in [Token -> SupervisorState]
  BY <1>1 DEF TypeOK, CallerState, SupervisorState
<1> QED
  BY <1>1, <1>3, <1>4, <1>5 DEF TypeOK, fileVars, procVars, evidenceVars

LEMMA TypeOKContinue ==
  ASSUME TypeOK, NEW c \in Caller, ContinueStep(c)
  PROVE  TypeOK'
<1> USE DEF Event, CallerState
<1>0. NoPlan \in Plan
  BY EmptySeq DEF NoPlan, Plan
<1>r. \A p \in Plan, e \in Event : [p EXCEPT !.request = e] \in Plan
  BY DEF Plan
<1>1. CASE Attach(c)
  BY <1>1 DEF TypeOK, Attach, fileVars, supVars, procVars, evidenceVars
<1>2. CASE Propose(c)
  <2>1. cplan' \in [Caller -> Plan]
    <3>1. cplan' = [cplan EXCEPT ![c] = [cplan[c] EXCEPT !.request = current]]
      BY <1>2 DEF Propose
    <3> QED BY <3>1, <1>r DEF TypeOK
  <2> QED
    BY <1>2, <2>1 DEF TypeOK, Propose, fileVars, supVars, procVars, evidenceVars
<1>3. CASE TakeLaunchLock(c)
  BY <1>3 DEF TypeOK, TakeLaunchLock, fileVars, supVars, procVars, evidenceVars
<1>4. CASE AttachOrRefuse(c)
  BY <1>0, <1>4 DEF TypeOK, AttachOrRefuse, Return, Release, fileVars, supVars, procVars,
              evidenceVars
<1>5. CASE SpawnLaunch(c)
  BY <1>5, TypeOKSpawn DEF SpawnLaunch, Mode
<1>6. CASE RecordSpawn(c)
  BY <1>6 DEF TypeOK, RecordSpawn, Release, supVars, procVars, evidenceVars
<1>7. CASE Await(c)
  BY <1>0, <1>7 DEF TypeOK, Await, Return, Release, fileVars, supVars, procVars, evidenceVars
<1>8. CASE CallerDies(c)
  BY <1>0, <1>8 DEF TypeOK, CallerDies, Return, Release, fileVars, supVars, procVars,
              evidenceVars
<1> QED
  BY <1>1, <1>2, <1>3, <1>4, <1>5, <1>6, <1>7, <1>8 DEF ContinueStep

LEMMA TypeOKRecover ==
  ASSUME TypeOK, NEW c \in Caller, RecoverStep(c)
  PROVE  TypeOK'
<1> USE DEF Event, CallerState
<1>0. NoPlan \in Plan
  BY EmptySeq DEF NoPlan, Plan
<1>1. CASE TakeRecoverLock(c)
  BY <1>1 DEF TypeOK, TakeRecoverLock, fileVars, supVars, procVars, evidenceVars
<1>2. CASE ReadEvidence(c)
  <2>1. UnresolvedSlots(ledger) \subseteq Nat
    BY UnresolvedSlotsTyped DEF TypeOK
  <2>2. [request |-> NONE, live |-> active # NONE /\ Alive(active),
         pending |-> UnresolvedSlots(ledger), found |-> reserved \ Claimed(ledger),
         slots |-> <<>>] \in Plan
    BY <2>1, EmptySeq DEF TypeOK, Plan, Alive
  <2>3. cplan' \in [Caller -> Plan]
    BY <1>2, <2>2 DEF TypeOK, ReadEvidence
  <2> QED
    BY <1>2, <2>3 DEF TypeOK, ReadEvidence, fileVars, supVars, procVars, evidenceVars
<1>3. CASE NothingToApply(c)
  BY <1>0, <1>3 DEF TypeOK, NothingToApply, Return, Release, fileVars, supVars, procVars,
                    evidenceVars
<1>4. CASE ArchiveRecord(c)
  BY <1>4 DEF TypeOK, ArchiveRecord, fileVars, supVars, procVars, evidenceVars
<1>5. CASE Adopt(c)
  <2>1. PendingSlot(cplan[c]) \in Nat
    BY <1>5 DEF TypeOK, Adopt, PendingSlot, Plan
  <2>2. FoundEvent(cplan[c]) \in Event
    BY DEF TypeOK, FoundEvent, Plan
  <2> QED
    BY <1>5, <2>1, <2>2, TypeOKSpawn DEF Adopt, Mode
<1>6. CASE Finalize(c)
  <2>1. \A p \in Plan, l \in Seq(Slot) : [p EXCEPT !.slots = l] \in Plan
    BY DEF Plan
  <2>2. cplan' = [cplan EXCEPT ![c] = [cplan[c] EXCEPT !.slots = ledger]]
    BY <1>6 DEF Finalize
  <2>3. cplan' \in [Caller -> Plan]
    BY <2>1, <2>2 DEF TypeOK
  <2> QED
    BY <1>6, <2>3 DEF TypeOK, Finalize, fileVars, supVars, procVars, evidenceVars
<1>7. CASE FinalizeSweep(c)
  BY <1>7 DEF TypeOK, FinalizeSweep, StopAttempt, ProcessState, fileVars, supVars, evidenceVars
<1>8. CASE FinalizeClassify(c)
  <2>1. FoundEvent(cplan[c]) \in Event /\ cplan[c].slots \in Seq(Slot)
    BY DEF TypeOK, FoundEvent, Plan
  <2>2. ledger' \in Seq(Slot)
    BY <1>8, <2>1, ClassifyTyped DEF FinalizeClassify
  <2> QED
    BY <1>0, <1>8, <2>2 DEF TypeOK, FinalizeClassify, Return, Release, supVars, procVars,
                            evidenceVars
<1>9. CASE ConcludeLost(c)
  <2>1. result' \subseteq Token
    BY <1>9 DEF TypeOK, ConcludeLost, Record
  <2> QED
    BY <1>9, <2>1 DEF TypeOK, ConcludeLost, supVars, procVars, evidenceVars
<1>10. CASE UnlinkLost(c)
  BY <1>0, <1>10 DEF TypeOK, UnlinkLost, Return, Release, supVars, procVars, evidenceVars
<1> QED
  BY <1>1, <1>2, <1>3, <1>4, <1>5, <1>6, <1>7, <1>8, <1>9, <1>10 DEF RecoverStep

LEMMA TypeOKSupervise ==
  ASSUME TypeOK, NEW t \in Token, SuperviseStep(t) \/ Raise(t) \/ Lose(t)
  PROVE  TypeOK'
<1> USE DEF SupervisorState
<1>0. NoWork \in Work /\ <<>> \in Seq(Slot)
  BY EmptySeq DEF NoWork, Work, Mode, Event
<1>w. /\ \A w \in Work, e \in Event : [w EXCEPT !.event = e] \in Work
      /\ \A w \in Work, i \in Nat : [w EXCEPT !.slot = i] \in Work
      /\ \A w \in Work, b \in SUBSET Token : [w EXCEPT !.before = b] \in Work
  BY DEF Work
<1>1. CASE SeeRecord(t)
  <2>1. [mode |-> active.mode, request |-> active.request, slot |-> active.slot,
         event |-> active.event, before |-> {}] \in Work
    BY <1>1 DEF TypeOK, SeeRecord, Owns, Record, Work
  <2> QED
    BY <1>1, <2>1 DEF TypeOK, SeeRecord, Goes, fileVars, callerVars, procVars, evidenceVars
<1>2. CASE GiveUpPolling(t)
  BY <1>2 DEF TypeOK, GiveUpPolling, Goes, fileVars, callerVars, procVars, evidenceVars
<1>3. CASE AdmitLaunch(t)
  <2>1. swork' = [swork EXCEPT ![t] = [swork[t] EXCEPT !.before = reserved]]
    BY <1>3 DEF AdmitLaunch
  <2>2. swork' \in [Token -> Work]
    BY <1>w, <2>1 DEF TypeOK
  <2> QED
    BY <1>3, <2>2 DEF TypeOK, AdmitLaunch, Goes, fileVars, callerVars, procVars, evidenceVars
<1>4. CASE RefuseLaunch(t)
  BY <1>4 DEF TypeOK, RefuseLaunch, Goes, fileVars, callerVars, procVars, evidenceVars
<1>5. CASE ReserveSlot(t)
  <2>1. smem[t] \in Seq(Slot) /\ Len(smem[t]) + 1 \in Nat
    BY LenProperties DEF TypeOK
  <2>2. swork' = [swork EXCEPT ![t] = [swork[t] EXCEPT !.slot = Len(smem[t]) + 1]]
    BY <1>5 DEF ReserveSlot
  <2>3. swork' \in [Token -> Work]
    BY <1>w, <2>1, <2>2 DEF TypeOK
  <2>4. smem' \in [Token -> Seq(Slot)] /\ ledger' \in Seq(Slot)
    BY <1>5, <2>1, ReserveTyped DEF TypeOK, ReserveSlot
  <2> QED
    BY <1>5, <2>3, <2>4 DEF TypeOK, ReserveSlot, Goes, callerVars, procVars, evidenceVars
<1>6. CASE StartLauncher(t)
  BY <1>6 DEF TypeOK, StartLauncher, Goes, LauncherState, fileVars, callerVars, evidenceVars
<1>7. CASE LauncherNotCreated(t)
  <2>1. smem[t] \in Seq(Slot) /\ NONE \in Event
    BY DEF TypeOK, Event
  <2>2. smem' \in [Token -> Seq(Slot)] /\ ledger' \in Seq(Slot)
    BY <1>7, <2>1, ClassifyTyped DEF TypeOK, LauncherNotCreated, WriteClass
  <2> QED
    BY <1>7, <2>2 DEF TypeOK, LauncherNotCreated, Goes, callerVars, procVars, evidenceVars
<1>8. CASE LauncherGone(t)
  <2>1. PICK e \in Event : swork' = [swork EXCEPT ![t] = [swork[t] EXCEPT !.event = e]]
    BY <1>8 DEF LauncherGone, Event
  <2>2. swork' \in [Token -> Work]
    BY <1>w, <2>1 DEF TypeOK
  <2> QED
    BY <1>8, <2>2 DEF TypeOK, LauncherGone, Goes, LauncherState, fileVars, callerVars,
                      evidenceVars
<1>9. CASE StopLauncher(t)
  BY <1>9 DEF TypeOK, StopLauncher, Goes, LauncherState, fileVars, callerVars, evidenceVars
<1>10. CASE LookForReservation(t)
  <2>1. CASE UNCHANGED swork
    BY <1>10, <2>1 DEF TypeOK, LookForReservation, Goes, fileVars, callerVars, procVars,
                       evidenceVars
  <2>2. CASE swork' # swork
    <3>1. reserved \ Claimed(smem[t]) \subseteq Token
      BY DEF TypeOK
    <3>2. reserved \ Claimed(smem[t]) # {}
      BY <1>10, <2>2, FS_EmptySet DEF LookForReservation
    <3>3. PICK e \in Event : swork' = [swork EXCEPT ![t] = [swork[t] EXCEPT !.event = e]]
      BY <1>10, <2>2, <3>1, <3>2 DEF LookForReservation, Event
    <3>4. swork' \in [Token -> Work]
      BY <1>w, <3>3 DEF TypeOK
    <3> QED
      BY <1>10, <3>4 DEF TypeOK, LookForReservation, Goes, fileVars, callerVars, procVars,
                         evidenceVars
  <2> QED BY <2>1, <2>2
<1>11. CASE KeepWatching(t)
  BY <1>11 DEF TypeOK, KeepWatching, Goes, fileVars, callerVars, procVars, evidenceVars
<1>12. CASE StopWatching(t)
  BY <1>12 DEF TypeOK, StopWatching, Goes, fileVars, callerVars, procVars, evidenceVars
<1>13. CASE Sweep(t)
  BY <1>13 DEF TypeOK, Sweep, StopAttempt, ProcessState, Goes, fileVars, callerVars, evidenceVars
<1>14. CASE Identify(t)
  <2>1. CASE UNCHANGED swork
    BY <1>14, <2>1 DEF TypeOK, Identify, Goes, fileVars, callerVars, procVars, evidenceVars
  <2>2. CASE swork' # swork
    <3>1. NewEvents(t) \subseteq Event
      BY DEF TypeOK, NewEvents, Work, Event
    <3>2. PICK e \in Event : swork' = [swork EXCEPT ![t] = [swork[t] EXCEPT !.event = e]]
      BY <1>14, <2>2, <3>1 DEF Identify, Event
    <3>3. swork' \in [Token -> Work]
      BY <1>w, <3>2 DEF TypeOK
    <3> QED
      BY <1>14, <3>3 DEF TypeOK, Identify, Goes, fileVars, callerVars, procVars, evidenceVars
  <2> QED BY <2>1, <2>2
<1>15. CASE ClassifySlot(t)
  <2>1. smem[t] \in Seq(Slot) /\ swork[t].event \in Event
    BY DEF TypeOK, Work
  <2>2. smem' \in [Token -> Seq(Slot)] /\ ledger' \in Seq(Slot)
    BY <1>15, <2>1, ClassifyTyped DEF TypeOK, ClassifySlot, WriteClass
  <2> QED
    BY <1>15, <2>2 DEF TypeOK, ClassifySlot, Goes, callerVars, procVars, evidenceVars
<1>16. CASE WriteResult(t)
  BY <1>16 DEF TypeOK, WriteResult, Goes, callerVars, procVars, evidenceVars
<1>17. CASE UnlinkRecord(t)
  BY <1>0, <1>17 DEF TypeOK, UnlinkRecord, Forget, Goes, callerVars, procVars, evidenceVars
<1>18. CASE Raise(t)
  BY <1>18 DEF TypeOK, Raise, fileVars, callerVars, procVars, evidenceVars
<1>19. CASE Lose(t)
  BY <1>0, <1>19 DEF TypeOK, Lose, Forget, fileVars, callerVars, procVars, evidenceVars
<1> QED
  BY <1>1, <1>2, <1>3, <1>4, <1>5, <1>6, <1>7, <1>8, <1>9, <1>10, <1>11, <1>12, <1>13, <1>14,
     <1>15, <1>16, <1>17, <1>18, <1>19 DEF SuperviseStep

LEMMA TypeOKAttempt ==
  ASSUME TypeOK, NEW a \in Token, AttemptStep(a)
  PROVE  TypeOK'
<1> USE DEF Event, LauncherState, ProcessState
<1>1. CASE StartHelper(a)
  BY <1>1 DEF TypeOK, StartHelper, fileVars, callerVars, supVars, evidenceVars
<1>2. CASE PrepareFails(a)
  BY <1>2 DEF TypeOK, PrepareFails, fileVars, callerVars, supVars, evidenceVars
<1>3. CASE HelperReserves(a)
  BY <1>3 DEF TypeOK, HelperReserves, fileVars, callerVars, supVars, procVars
<1>4. CASE HelperFails(a)
  BY <1>4 DEF TypeOK, HelperFails, fileVars, callerVars, supVars, evidenceVars
<1>5. CASE HelperDetaches(a)
  BY <1>5 DEF TypeOK, HelperDetaches, fileVars, callerVars, supVars
<1>6. CASE LauncherBinds(a)
  BY <1>6 DEF TypeOK, LauncherBinds, fileVars, callerVars, supVars
<1>7. CASE LauncherReturns(a)
  BY <1>7 DEF TypeOK, LauncherReturns, fileVars, callerVars, supVars
<1>8. CASE MonitorStartsWorker(a)
  BY <1>8 DEF TypeOK, MonitorStartsWorker, fileVars, callerVars, supVars
<1>9. CASE WorkerEnds(a)
  BY <1>9 DEF TypeOK, WorkerEnds, fileVars, callerVars, supVars, evidenceVars
<1>10. CASE MonitorConcludes(a)
  BY <1>10 DEF TypeOK, MonitorConcludes, fileVars, callerVars, supVars
<1>11. CASE MonitorGivesUp(a)
  BY <1>11 DEF TypeOK, MonitorGivesUp, fileVars, callerVars, supVars
<1> QED
  BY <1>1, <1>2, <1>3, <1>4, <1>5, <1>6, <1>7, <1>8, <1>9, <1>10, <1>11 DEF AttemptStep

\* Every file, record and process table entry holds what the code can put there.
THEOREM TypeCorrect == Spec => []TypeOK
<1>0. /\ NoPlan \in Plan
      /\ NoWork \in Work
      /\ <<>> \in Seq(Slot)
  BY EmptySeq DEF NoPlan, Plan, NoWork, Work, Mode, Event
<1>1. Init => TypeOK
  BY <1>0 DEF Init, TypeOK, Event, CallerState, SupervisorState, LauncherState, ProcessState
<1>2. TypeOK /\ [Next]_vars => TypeOK'
  <2> SUFFICES ASSUME TypeOK, [Next]_vars
               PROVE  TypeOK'
    OBVIOUS
  <2>1. ASSUME NEW c \in Caller, ContinueStep(c) \/ RecoverStep(c)
        PROVE  TypeOK'
    BY <2>1, TypeOKContinue, TypeOKRecover
  <2>2. ASSUME NEW t \in Token, SuperviseStep(t) \/ Raise(t) \/ Lose(t) \/ AttemptStep(t)
        PROVE  TypeOK'
    BY <2>2, TypeOKSupervise, TypeOKAttempt
  <2>3. CASE HostRestart
    BY <1>0, <2>3 DEF TypeOK, HostRestart, Event, CallerState, SupervisorState, LauncherState,
                      ProcessState, fileVars, evidenceVars
  <2>4. CASE UNCHANGED vars
    BY <2>4 DEF TypeOK, vars, fileVars, callerVars, supVars, procVars, evidenceVars
  <2> QED
    BY <2>1, <2>2, <2>3, <2>4 DEF Next
<1> QED
  BY <1>1, <1>2, PTL DEF Spec

-----------------------------------------------------------------------------
(* One supervisor *)

\* What SupervisionInv depends on besides spc.
decisionVars == <<lock, cpc, cseen, cplan, active>>

\* A supervisor's own step: it neither comes back nor starts to act without the record.
LEMMA SupervisorMoves ==
  ASSUME TypeOK, SupervisionInv, NEW t \in Token, NEW s \in SupervisorState \ {"unborn"},
         spc' = [spc EXCEPT ![t] = s], UNCHANGED decisionVars, spc[t] # "unborn",
         s \in LiveState => Live(t),
         s \in LiveState \ {"polling"} => Acting(t) \/ Owns(t)
  PROVE  SupervisionInv'
<1> USE DEF decisionVars, SupervisionInv
<1>1. \A u \in Token : spc'[u] = "unborn" <=> spc[u] = "unborn"
  BY DEF TypeOK
<1>2. \A u \in Token : Live(u)' => Live(u)
  BY DEF TypeOK, Live
<1>3. \A u \in Token : Acting(u)' => Owns(u)'
  BY DEF TypeOK, Acting, Live, Owns
<1>4. Orphaned => Orphaned'
  BY <1>2, NoneIsNoRecord DEF TypeOK, Orphaned, Record
<1>5. \A c \in Caller : FoundOrphaned(c)' => FoundOrphaned(c)
  BY DEF FoundOrphaned, Recovering
<1>6. \A c \in Caller : InLockedSection(c)' => InLockedSection(c)
  BY DEF InLockedSection
<1> QED
  BY <1>1, <1>3, <1>4, <1>5, <1>6 DEF TypeOK, Record

LEMMA SupervisionInvSupervise ==
  ASSUME TypeOK, SupervisionInv, NEW t \in Token, SuperviseStep(t) \/ Raise(t) \/ Lose(t)
  PROVE  SupervisionInv'
<1> USE DEF SupervisorState, LiveState, Live, Acting
<1> DEFINE
      Moves ==
        /\ UNCHANGED decisionVars
        /\ \E s \in SupervisorState \ {"unborn"} :
             /\ spc' = [spc EXCEPT ![t] = s] /\ spc[t] # "unborn"
             /\ s \in LiveState => Live(t)
             /\ s \in LiveState \ {"polling"} => Acting(t) \/ Owns(t)
<1>0. Moves => SupervisionInv'
  BY SupervisorMoves
<1> USE DEF decisionVars, fileVars, callerVars, Goes
<1>1. CASE SeeRecord(t) \/ GiveUpPolling(t)
  BY <1>0, <1>1 DEF SeeRecord, GiveUpPolling
<1>2. CASE AdmitLaunch(t) \/ RefuseLaunch(t) \/ ReserveSlot(t)
  BY <1>0, <1>2 DEF AdmitLaunch, RefuseLaunch, ReserveSlot
<1>3. CASE StartLauncher(t) \/ LauncherNotCreated(t) \/ LauncherGone(t) \/ StopLauncher(t)
  BY <1>0, <1>3 DEF StartLauncher, LauncherNotCreated, LauncherGone, StopLauncher
<1>4. CASE LookForReservation(t) \/ KeepWatching(t) \/ StopWatching(t)
  BY <1>0, <1>4 DEF LookForReservation, KeepWatching, StopWatching
<1>5. CASE Sweep(t) \/ Identify(t) \/ ClassifySlot(t) \/ WriteResult(t)
  BY <1>0, <1>5 DEF Sweep, Identify, ClassifySlot, WriteResult
<1>6. CASE Raise(t) \/ Lose(t)
  BY <1>0, <1>6 DEF Raise, Lose
<1>7. CASE UnlinkRecord(t)
  <2>1. Owns(t)
    BY <1>7 DEF SupervisionInv, UnlinkRecord
  <2>2. \A u \in Token : ~Acting(u)'
    BY <1>7, <2>1 DEF SupervisionInv, UnlinkRecord, Owns, TypeOK
  <2>3. \A u \in Token : spc'[u] = "unborn" <=> spc[u] = "unborn"
    BY <1>7 DEF TypeOK, UnlinkRecord
  <2> QED
    BY <1>7, <2>2, <2>3
    DEF SupervisionInv, UnlinkRecord, Orphaned, InLockedSection, FoundOrphaned, TypeOK, Record
<1> QED
  BY <1>1, <1>2, <1>3, <1>4, <1>5, <1>6, <1>7 DEF SuperviseStep

\* While a caller is in the locked section, no other is; and none has decided outside it.
LEMMA LockExcludes ==
  ASSUME SupervisionInv, NEW c \in Caller, NEW d \in Caller, c # d,
         lock \in {c, NONE}, NONE \notin Caller
  PROVE  ~InLockedSection(d) /\ ~FoundOrphaned(d)
BY DEF SupervisionInv, InLockedSection, FoundOrphaned, Recovering

\* A caller leaves: its lock, if it had it, is free.
LEMMA SupervisionInvReturn ==
  ASSUME TypeOK, SupervisionInv, NEW c \in Caller, Return(c), spc' = spc,
         active' # active => active' = NONE /\ Orphaned
  PROVE  SupervisionInv'
<1>1. \A d \in Caller \ {c} : cpc'[d] = cpc[d] /\ cseen'[d] = cseen[d] /\ cplan'[d] = cplan[d]
  BY DEF Return, TypeOK
<1>2. cpc'[c] = "idle" /\ cseen'[c] = NONE
  BY DEF Return, TypeOK
<1>3. \A d \in Caller : InLockedSection(d)' => lock' = d
  BY <1>1, <1>2, LockExcludes DEF SupervisionInv, InLockedSection, Return, Release
<1>4. Orphaned => Orphaned'
  BY DEF Orphaned, Live
<1>5. \A d \in Caller : FoundOrphaned(d)' => FoundOrphaned(d)
  BY <1>1, <1>2 DEF FoundOrphaned, Recovering
<1>6. \A t \in Token : Acting(t)' => Owns(t)'
  BY DEF SupervisionInv, Orphaned, Acting, Owns, Live
<1> QED
  BY <1>1, <1>2, <1>3, <1>4, <1>5, <1>6 DEF SupervisionInv

\* A caller that found nobody supervising creates a supervisor, which does not act yet.
LEMMA SupervisionInvSpawn ==
  ASSUME TypeOK, SupervisionInv, SpawnPsMayFail = FALSE,
         NEW c \in Caller, NEW mode, NEW slot, NEW event, Spawn(c, mode, slot, event),
         FoundOrphaned(c)
  PROVE  SupervisionInv'
<1>1. PICK t \in Token :
        /\ spc[t] = "unborn"
        /\ spc' = [spc EXCEPT ![t] = "polling"]
        /\ cpc' = [cpc EXCEPT ![c] = "recording"]
        /\ \E r : r.token = t /\ r.started = TRUE /\ cseen' = [cseen EXCEPT ![c] = r]
        /\ UNCHANGED <<lock, cplan, active>>
  BY DEF Spawn, fileVars
<1>2. \A u \in Token \ {t} : spc'[u] = spc[u]
  BY <1>1 DEF TypeOK
<1>3. spc'[t] = "polling"
  BY <1>1 DEF TypeOK
<1>4. \A d \in Caller \ {c} : cpc'[d] = cpc[d] /\ cseen'[d] = cseen[d]
  BY <1>1 DEF TypeOK
<1>5. cpc'[c] = "recording" /\ cseen'[c].token = t /\ cseen'[c].started
  BY <1>1 DEF TypeOK
<1>6. Orphaned'
  <2>1. active # NONE => active.token \in Token /\ active.token # t
    BY <1>1 DEF SupervisionInv, TypeOK, Record
  <2> QED
    BY <1>1, <1>2, <2>1 DEF SupervisionInv, Orphaned, Live
<1>7. \A u \in Token : Acting(u)' => Owns(u)'
  BY <1>1, <1>2, <1>3 DEF SupervisionInv, Acting, Live, Owns
<1>8. \A d \in Caller : InLockedSection(d)' => lock' = d
  BY <1>1, <1>4, <1>5 DEF SupervisionInv, InLockedSection, FoundOrphaned, Recovering
<1>9. /\ active' # NONE => active'.started /\ spc'[active'.token] # "unborn"
      /\ \A d \in Caller : cpc'[d] = "recording" => spc'[cseen'[d].token] # "unborn"
  BY <1>1, <1>2, <1>3, <1>4, <1>5 DEF SupervisionInv, TypeOK, Record
<1> QED
  BY <1>4, <1>5, <1>6, <1>7, <1>8, <1>9 DEF SupervisionInv

\* A caller's step from one point of its command to another, with the record, the lock and its
\* supervisors as they are.
LEMMA SupervisionInvAdvance ==
  ASSUME TypeOK, SupervisionInv, NEW c \in Caller, UNCHANGED <<spc, active>>,
         \/ UNCHANGED lock /\ (InLockedSection(c)' => lock = c)
         \/ lock = NONE /\ lock' = c
         \/ Release(c) /\ lock = c /\ ~InLockedSection(c)',
         \A d \in Caller \ {c} : cpc'[d] = cpc[d] /\ cseen'[d] = cseen[d] /\ cplan'[d] = cplan[d],
         cseen'[c] \in {cseen[c], active}, cpc'[c] # "recording",
         FoundOrphaned(c)' => Orphaned
  PROVE  SupervisionInv'
<1> USE ConstantsAssumption
<1>1. \A d \in Caller : InLockedSection(d)' => lock' = d
  BY DEF SupervisionInv, InLockedSection, Release
<1>2. Orphaned => Orphaned'
  BY DEF Orphaned, Live
<1>3. \A d \in Caller : FoundOrphaned(d)' => Orphaned
  BY DEF SupervisionInv, FoundOrphaned, Recovering
<1>4. \A t \in Token : Acting(t)' => Owns(t)'
  BY DEF SupervisionInv, Acting, Owns, Live
<1> QED
  BY <1>1, <1>2, <1>3, <1>4 DEF SupervisionInv

LEMMA SupervisionInvContinue ==
  ASSUME TypeOK, SupervisionInv, SpawnPsMayFail = FALSE, NEW c \in Caller, ContinueStep(c)
  PROVE  SupervisionInv'
<1> USE DEF fileVars, supVars
<1>1. CASE Attach(c)
  BY <1>1, SupervisionInvAdvance DEF Attach, TypeOK, InLockedSection, FoundOrphaned, Recovering
<1>2. CASE Propose(c)
  BY <1>2, SupervisionInvAdvance DEF Propose, TypeOK, InLockedSection, FoundOrphaned, Recovering
<1>3. CASE TakeLaunchLock(c)
  BY <1>3, SupervisionInvAdvance
  DEF TakeLaunchLock, TypeOK, InLockedSection, FoundOrphaned, Recovering, Orphaned
<1>4. CASE AttachOrRefuse(c)
  <2>1. CASE Return(c)
    <3>1. spc' = spc /\ active' = active
      BY <1>4 DEF AttachOrRefuse
    <3> QED BY <2>1, <3>1, SupervisionInvReturn
  <2>2. CASE ~Return(c)
    BY <1>4, <2>2, SupervisionInvAdvance
    DEF AttachOrRefuse, TypeOK, InLockedSection, FoundOrphaned, Recovering, SupervisionInv
  <2> QED BY <2>1, <2>2
<1>5. CASE SpawnLaunch(c)
  BY <1>5, SupervisionInvSpawn DEF SpawnLaunch, FoundOrphaned
<1>6. CASE RecordSpawn(c)
  <2>1. /\ lock = c /\ Orphaned /\ cseen[c] \in Record /\ spc[cseen[c].token] # "unborn"
        /\ cseen[c].started /\ active' = cseen[c] /\ spc' = spc /\ cseen' = cseen
        /\ lock' = NONE
    BY <1>6 DEF RecordSpawn, SupervisionInv, InLockedSection, FoundOrphaned, TypeOK, Release
  <2>2. \A t \in Token : ~Acting(t)'
    BY <2>1 DEF SupervisionInv, Orphaned, Acting, Owns, Live
  <2>3. \A d \in Caller : ~InLockedSection(d)' /\ ~FoundOrphaned(d)'
    <3>1. cpc'[c] = "waiting"
      BY <1>6 DEF RecordSpawn, TypeOK
    <3>2. \A d \in Caller \ {c} : ~InLockedSection(d) /\ cpc'[d] = cpc[d]
      BY <1>6, <2>1 DEF SupervisionInv, RecordSpawn, TypeOK
    <3> QED BY <3>1, <3>2 DEF InLockedSection, FoundOrphaned, Recovering
  <2> QED
    BY <2>1, <2>2, <2>3 DEF SupervisionInv, InLockedSection
<1>7. CASE Await(c) \/ CallerDies(c)
  <2>1. Return(c) /\ spc' = spc /\ active' = active
    BY <1>7 DEF Await, CallerDies
  <2> QED BY <2>1, SupervisionInvReturn
<1> QED
  BY <1>1, <1>2, <1>3, <1>4, <1>5, <1>6, <1>7 DEF ContinueStep

LEMMA SupervisionInvRecover ==
  ASSUME TypeOK, SupervisionInv, SpawnPsMayFail = FALSE, NEW c \in Caller, RecoverStep(c)
  PROVE  SupervisionInv'
<1> USE DEF fileVars, supVars
<1> USE DEF InLockedSection, FoundOrphaned, Recovering
<1>1. CASE TakeRecoverLock(c)
  BY <1>1, SupervisionInvAdvance DEF TakeRecoverLock, TypeOK
<1>2. CASE ReadEvidence(c)
  <2>1. FoundOrphaned(c)' => Orphaned
    BY <1>2 DEF ReadEvidence, TypeOK, SupervisionInv, Orphaned, Alive
  <2> QED
    BY <1>2, <2>1, SupervisionInvAdvance DEF ReadEvidence, TypeOK, SupervisionInv
<1>3. CASE NothingToApply(c)
  <2>1. Return(c) /\ spc' = spc /\ active' = active
    BY <1>3 DEF NothingToApply
  <2> QED BY <2>1, SupervisionInvReturn
<1>4. CASE ArchiveRecord(c)
  BY <1>4, SupervisionInvAdvance DEF ArchiveRecord, TypeOK, SupervisionInv
<1>5. CASE Adopt(c)
  BY <1>5, SupervisionInvSpawn DEF Adopt
<1>6. CASE Finalize(c)
  BY <1>6, SupervisionInvAdvance DEF Finalize, TypeOK, SupervisionInv
<1>7. CASE FinalizeSweep(c)
  BY <1>7, SupervisionInvAdvance DEF FinalizeSweep, TypeOK, SupervisionInv
<1>8. CASE FinalizeClassify(c)
  <2>1. CASE Return(c)
    <3>1. spc' = spc /\ active' = active
      BY <1>8 DEF FinalizeClassify
    <3> QED BY <2>1, <3>1, SupervisionInvReturn
  <2>2. CASE ~Return(c)
    BY <1>8, <2>2, SupervisionInvAdvance DEF FinalizeClassify, TypeOK, SupervisionInv
  <2> QED BY <2>1, <2>2
<1>9. CASE ConcludeLost(c)
  BY <1>9, SupervisionInvAdvance DEF ConcludeLost, TypeOK, SupervisionInv
<1>10. CASE UnlinkLost(c)
  <2>1. Orphaned
    BY <1>10 DEF UnlinkLost, SupervisionInv
  <2> QED
    BY <1>10, <2>1, SupervisionInvReturn DEF UnlinkLost
<1> QED
  BY <1>1, <1>2, <1>3, <1>4, <1>5, <1>6, <1>7, <1>8, <1>9, <1>10 DEF RecoverStep

\* The lock, the record and the supervisors are consistent, if no start time was missed.
LEMMA SupervisionInvHolds ==
  ASSUME SpawnPsMayFail = FALSE
  PROVE  Spec => []SupervisionInv
<1>1. Init => SupervisionInv
  BY ConstantsAssumption
  DEF Init, SupervisionInv, InLockedSection, FoundOrphaned, Recovering, Orphaned, Acting, Live,
      LiveState
<1>2. TypeOK /\ SupervisionInv /\ [Next]_vars => SupervisionInv'
  <2> SUFFICES ASSUME TypeOK, SupervisionInv, [Next]_vars
               PROVE  SupervisionInv'
    OBVIOUS
  <2> DEFINE Frame == UNCHANGED <<spc, lock, cpc, cseen, cplan, active>>
  <2>1. Frame => SupervisionInv'
    BY DEF SupervisionInv, InLockedSection, FoundOrphaned, Recovering, Orphaned, Acting, Owns,
           Live
  <2>2. ASSUME NEW c \in Caller, ContinueStep(c) \/ RecoverStep(c)
        PROVE  SupervisionInv'
    BY <2>2, SupervisionInvContinue, SupervisionInvRecover
  <2>3. ASSUME NEW t \in Token, SuperviseStep(t) \/ Raise(t) \/ Lose(t)
        PROVE  SupervisionInv'
    BY <2>3, SupervisionInvSupervise
  <2>4. ASSUME NEW a \in Token, AttemptStep(a)
        PROVE  Frame
    BY <2>4
    DEF AttemptStep, StartHelper, PrepareFails, HelperReserves, HelperFails, HelperDetaches,
        LauncherBinds, LauncherReturns, MonitorStartsWorker, WorkerEnds, MonitorConcludes,
        MonitorGivesUp, fileVars, callerVars, supVars
  <2>5. CASE HostRestart
    <3>1. \A t \in Token : ~Live(t)' /\ (spc'[t] = "unborn" <=> spc[t] = "unborn")
      BY <2>5 DEF HostRestart, Live, LiveState, SupervisorState, TypeOK
    <3>2. active' = active /\ Orphaned' /\ \A c \in Caller : cpc'[c] = "idle" /\ cseen'[c] = NONE
      BY <2>5, <3>1 DEF HostRestart, fileVars, Orphaned, TypeOK, Record
    <3> QED
      BY <3>1, <3>2
      DEF SupervisionInv, InLockedSection, FoundOrphaned, Recovering, Acting, TypeOK, Record
  <2>6. CASE UNCHANGED vars
    BY <2>1, <2>6 DEF vars, fileVars, callerVars, supVars
  <2> QED
    BY <2>1, <2>2, <2>3, <2>4, <2>5, <2>6 DEF Next
<1> QED
  BY <1>1, <1>2, TypeCorrect, PTL DEF Spec

\* However callers, crashes, host restarts and recoveries interleave, at most one supervisor acts.
THEOREM AtMostOneSupervisor ==
  ASSUME SpawnPsMayFail = FALSE
  PROVE  Spec => []OneSupervisor
<1>1. SupervisionInv => OneSupervisor
  BY DEF SupervisionInv, OneSupervisor, Owns
<1> QED
  BY <1>1, SupervisionInvHolds, PTL

\* A reader that looks for an acting supervisor finds its record or its result.
THEOREM ReaderNeverSeesNeither ==
  ASSUME SpawnPsMayFail = FALSE
  PROVE  Spec => []NeverNeither
<1>1. SupervisionInv => NeverNeither
  BY DEF SupervisionInv, NeverNeither
<1> QED
  BY <1>1, SupervisionInvHolds, PTL

\* While recovery sweeps, classifies or removes a record, no supervisor acts.
THEOREM RecoveryActsAlone ==
  ASSUME SpawnPsMayFail = FALSE
  PROVE  Spec => []RecoveryAloneActs
<1>1. SupervisionInv => RecoveryAloneActs
  BY DEF SupervisionInv, RecoveryAloneActs, FoundOrphaned, Orphaned, Acting, Owns
<1> QED
  BY <1>1, SupervisionInvHolds, PTL

-----------------------------------------------------------------------------
(* The ledger: what reserving and classifying do to its slots, why whoever acts has it in memory *)
(* as it is on disk, and that it implements LaunchSlots.                                        *)

\* Reserving adds one unresolved slot, the last.
LEMMA ReserveEffect ==
  ASSUME NEW slots \in Seq(Slot)
  PROVE  UnresolvedSlots(Reserve(slots)) = UnresolvedSlots(slots) \cup {Len(slots) + 1}
<1>1. DOMAIN slots = 1 .. Len(slots) /\ Len(slots) \in Nat
  BY LenProperties
<1>2. DOMAIN Reserve(slots) = 1 .. (Len(slots) + 1)
  BY ReserveTyped, LenProperties
<1>3. Reserve(slots)[Len(slots) + 1].class = Unresolved
  BY ReserveTyped
<1>4. \A i \in 1 .. Len(slots) : Reserve(slots)[i] = slots[i]
  BY ReserveTyped
<1>5. 1 .. (Len(slots) + 1) = (1 .. Len(slots)) \cup {Len(slots) + 1}
  BY <1>1
<1> HIDE DEF Unresolved
<1> QED
  BY <1>1, <1>2, <1>3, <1>4, <1>5 DEF UnresolvedSlots, SlotsOf

\* Classifying resolves that slot and leaves every other as it was.
LEMMA ClassifyEffect ==
  ASSUME NEW slots \in Seq(Slot), NEW i \in DOMAIN slots, NEW e \in Event
  PROVE  /\ UnresolvedSlots(Classify(slots, i, e)) = UnresolvedSlots(slots) \ {i}
         /\ DOMAIN Classify(slots, i, e) = DOMAIN slots
<1>1. DOMAIN Classify(slots, i, e) = DOMAIN slots
  BY ClassifyTyped, LenProperties
<1>2. \A j \in DOMAIN slots \ {i} : Classify(slots, i, e)[j] = slots[j]
  BY DEF Classify
<1>3. Classify(slots, i, e)[i].class \in {ExecutorReached, PreExecutorFailure}
  BY DEF Classify
<1> QED
  BY <1>1, <1>2, <1>3
  DEF UnresolvedSlots, SlotsOf, Unresolved, ExecutorReached, PreExecutorFailure

\* When none is unresolved, the slots counted against the ceiling are all of them.
LEMMA CountedSlots ==
  ASSUME NEW slots \in Seq(Slot), UnresolvedSlots(slots) = {}
  PROVE  SpentSlots(slots) + PreExecutorFailures(slots) = Len(slots)
<1> DEFINE R == SlotsOf(slots, ExecutorReached)
           P == SlotsOf(slots, PreExecutorFailure)
<1>1. DOMAIN slots = 1 .. Len(slots) /\ Len(slots) \in Nat
  BY LenProperties
<1>2. \A i \in 1 .. Len(slots) : slots[i] \in Slot
  BY ElementOfSeq
<1>3. \A i \in 1 .. Len(slots) :
        slots[i].class \in {Unresolved, PreExecutorFailure, ExecutorReached}
  BY <1>2 DEF Slot, Class
<1>4. R \cup P = 1 .. Len(slots) /\ R \cap P = {}
  <2>1. /\ R = {i \in 1 .. Len(slots) : slots[i].class = ExecutorReached}
        /\ P = {i \in 1 .. Len(slots) : slots[i].class = PreExecutorFailure}
        /\ {i \in 1 .. Len(slots) : slots[i].class = Unresolved} = {}
    BY <1>1 DEF UnresolvedSlots, SlotsOf
  <2>2. ExecutorReached # PreExecutorFailure
    BY DEF ExecutorReached, PreExecutorFailure
  <2> HIDE DEF R, P
  <2>3. \A i \in 1 .. Len(slots) : i \in R \/ i \in P
    BY <1>3, <2>1
  <2>4. \A i : i \in R => i \in 1 .. Len(slots) /\ i \notin P
    BY <2>1, <2>2
  <2>5. \A i : i \in P => i \in 1 .. Len(slots)
    BY <2>1
  <2> QED
    BY <2>3, <2>4, <2>5
<1>5. IsFiniteSet(1 .. Len(slots)) /\ Cardinality(1 .. Len(slots)) = Len(slots)
  BY <1>1, FS_Interval
<1>6. IsFiniteSet(R) /\ IsFiniteSet(P)
  BY <1>4, <1>5, FS_Subset
<1>7. Cardinality(R \cup P) = Cardinality(R) + Cardinality(P) - Cardinality(R \cap P)
  BY <1>6, FS_Union
<1>8. Cardinality(R \cap P) = 0 /\ Cardinality(R \cup P) = Len(slots)
  BY <1>4, <1>5, FS_EmptySet
<1>9. Cardinality(R) \in Nat /\ Cardinality(P) \in Nat
  BY <1>6, FS_CardinalityType
<1> HIDE DEF R, P
<1>10. Cardinality(R) + Cardinality(P) = Len(slots)
  BY <1>1, <1>7, <1>8, <1>9
<1> QED
  BY <1>10 DEF SpentSlots, PreExecutorFailures, R, P

LEMMA HoldingActs ==
  ASSUME NEW t
  PROVE  /\ Holding(t) => Acting(t)
         /\ spc[t] = "admitted" => Acting(t)
BY DEF Holding, Acting, Live, LiveState, SupervisorState

\* While a supervisor acts, it is alone, and no caller has found the run without one.
LEMMA ActingAlone ==
  ASSUME SupervisionInv, NEW t \in Token, Acting(t)
  PROVE  /\ active # NONE /\ active.token = t
         /\ \A u \in Token : Acting(u) => u = t
         /\ \A c \in Caller : ~FoundOrphaned(c)
BY DEF SupervisionInv, Owns, Orphaned, Acting

-----------------------------------------------------------------------------
(* The invariant: a step that leaves the ledger as it is *)

\* What must hold of a supervisor for LedgerInv, given the ledger as it is.
Grounded(t) ==
  /\ Acting(t) => smem[t] = ledger
  /\ spc[t] = "admitted" => UnresolvedSlots(ledger) = {} /\ Len(ledger) < Ceiling
  /\ Holding(t) => swork[t].slot \in UnresolvedSlots(ledger)

\* A supervisor's step that does not touch the ledger, or its record other than by removing it.
LEMMA LedgerInvKept ==
  ASSUME TypeOK, LedgerInv, NEW t \in Token,
         ledger' = ledger, UNCHANGED callerVars,
         active' # active => active' = NONE,
         \A u \in Token \ {t} : spc'[u] = spc[u] /\ smem'[u] = smem[u] /\ swork'[u] = swork[u],
         spc'[t] = "polling" => spc[t] = "polling",
         Grounded(t)'
  PROVE  LedgerInv'
<1>1. \A u \in Token \ {t} : Grounded(u)'
  BY DEF LedgerInv, Grounded, Acting, Live, Holding
<1>2. \A u \in Token : Grounded(u)'
  BY <1>1
<1>3. active' # NONE => active' = active /\ active.token \in Token
  BY DEF TypeOK, Record
<1>5. active' # NONE /\ active'.mode = "adopt" /\ spc'[active'.token] = "polling" =>
        active'.slot \in UnresolvedSlots(ledger)
  BY <1>3 DEF LedgerInv
<1>4. UnresolvedSlots(ledger)' = UnresolvedSlots(ledger)
  BY DEF UnresolvedSlots, SlotsOf
<1> QED
  BY <1>2, <1>4, <1>5 DEF LedgerInv, Grounded, callerVars

\* Finding the event directory does not move the attempt to another slot.
LEMMA SlotKept ==
  ASSUME TypeOK, NEW t \in Token,
         LauncherGone(t) \/ LookForReservation(t) \/ Identify(t)
  PROVE  swork'[t].slot = swork[t].slot
<1> SUFFICES ASSUME swork' # swork
             PROVE  swork'[t].slot = swork[t].slot
  OBVIOUS
<1>1. PICK e : swork' = [swork EXCEPT ![t] = [swork[t] EXCEPT !.event = e]]
  <2>1. CASE LauncherGone(t)
    BY <2>1 DEF LauncherGone
  <2>2. CASE LookForReservation(t)
    BY <2>2 DEF LookForReservation
  <2>3. CASE Identify(t)
    BY <2>3 DEF Identify
  <2> QED BY <2>1, <2>2, <2>3
<1> QED
  BY <1>1 DEF TypeOK, Work

\* Of a supervisor's steps, those that do not write the ledger.
QuietStep(t) ==
  \/ SeeRecord(t) \/ GiveUpPolling(t) \/ AdmitLaunch(t) \/ RefuseLaunch(t)
  \/ StartLauncher(t) \/ LauncherGone(t) \/ StopLauncher(t)
  \/ LookForReservation(t) \/ KeepWatching(t) \/ StopWatching(t) \/ Sweep(t) \/ Identify(t)
  \/ WriteResult(t) \/ UnlinkRecord(t) \/ Raise(t) \/ Lose(t)

LEMMA LedgerInvSupervise ==
  ASSUME TypeOK, SupervisionInv, LedgerInv, NEW t \in Token, QuietStep(t)
  PROVE  LedgerInv'
<1>1. /\ UNCHANGED callerVars /\ ledger' = ledger
      /\ active' # active => active' = NONE
      /\ \A u \in Token \ {t} :
           spc'[u] = spc[u] /\ smem'[u] = smem[u] /\ swork'[u] = swork[u]
      /\ spc'[t] # "polling"
  BY DEF QuietStep, Raise, Lose, SeeRecord, GiveUpPolling, AdmitLaunch, RefuseLaunch,
         StartLauncher, LauncherGone, StopLauncher, LookForReservation, KeepWatching,
         StopWatching, Sweep, Identify, WriteResult, UnlinkRecord, Goes, Forget, fileVars,
         callerVars, TypeOK
<1>g. Grounded(t)
  BY DEF LedgerInv, Grounded
<1>u. UnresolvedSlots(ledger)' = UnresolvedSlots(ledger) /\ Len(ledger)' = Len(ledger)
  BY <1>1 DEF UnresolvedSlots, SlotsOf
<1> USE DEF Acting, Live, LiveState, SupervisorState, Holding
<1>2. CASE SeeRecord(t)
  <2>1. /\ spc[t] = "polling" /\ active # NONE /\ active.token = t
        /\ spc'[t] = IF active.mode = "adopt" THEN "looking" ELSE "loaded"
        /\ smem'[t] = ledger /\ swork'[t].slot = active.slot
    BY <1>2 DEF SeeRecord, Goes, Owns, TypeOK
  <2> QED
    BY <1>1, <1>u, <2>1, LedgerInvKept DEF LedgerInv, Grounded
<1>3. CASE AdmitLaunch(t)
  <2>1. /\ spc[t] = "loaded" /\ spc'[t] = "admitted" /\ smem'[t] = smem[t]
        /\ Admits(smem[t])
    BY <1>3 DEF AdmitLaunch, Goes, TypeOK
  <2>2. smem[t] = ledger /\ ledger \in Seq(Slot)
    BY <1>g, <2>1 DEF Grounded, TypeOK
  <2>3. UnresolvedSlots(ledger) = {} /\ SpentSlots(ledger) + PreExecutorFailures(ledger) + 1 <= Ceiling
    BY <2>1, <2>2 DEF Admits
  <2>4. Len(ledger) < Ceiling
    BY <2>2, <2>3, CountedSlots, LenProperties, ConstantsAssumption
  <2> QED
    BY <1>1, <1>u, <2>1, <2>2, <2>3, <2>4, LedgerInvKept DEF Grounded
<1>4. CASE StartLauncher(t) \/ LauncherGone(t) \/ StopLauncher(t) \/ LookForReservation(t)
           \/ KeepWatching(t) \/ StopWatching(t) \/ Sweep(t)
  <2>1. Holding(t) /\ spc'[t] # "admitted" /\ smem'[t] = smem[t]
    BY <1>4 DEF StartLauncher, LauncherGone, StopLauncher, LookForReservation, KeepWatching,
                StopWatching, Sweep, Goes, TypeOK
  <2>2. swork'[t].slot = swork[t].slot
    BY <1>4, SlotKept DEF StartLauncher, StopLauncher, KeepWatching, StopWatching, Sweep
  <2> QED
    BY <1>1, <1>g, <1>u, <2>1, <2>2, LedgerInvKept DEF Grounded
<1>5. CASE Identify(t)
  <2>1. spc[t] = "identifying" /\ spc'[t] \in {"finalizing", "closing"} /\ smem'[t] = smem[t]
    BY <1>5 DEF Identify, Goes, TypeOK
  <2>2. swork'[t].slot = swork[t].slot
    BY <1>5, SlotKept
  <2> QED
    BY <1>1, <1>g, <1>u, <2>1, <2>2, LedgerInvKept DEF Grounded
<1>6. CASE RefuseLaunch(t) \/ WriteResult(t) \/ Raise(t)
  <2>1. Acting(t) /\ spc'[t] \in {"closing", "resulted"} /\ smem'[t] = smem[t]
    BY <1>6 DEF RefuseLaunch, WriteResult, Raise, Goes, TypeOK
  <2> QED
    BY <1>1, <1>g, <1>u, <2>1, LedgerInvKept DEF Grounded
<1>7. CASE GiveUpPolling(t) \/ UnlinkRecord(t) \/ Lose(t)
  <2>1. spc'[t] = "gone"
    BY <1>7 DEF GiveUpPolling, UnlinkRecord, Lose, Goes, TypeOK
  <2> QED
    BY <1>1, <2>1, LedgerInvKept DEF Grounded
<1> QED
  BY <1>2, <1>3, <1>4, <1>5, <1>6, <1>7 DEF QuietStep

-----------------------------------------------------------------------------
(* The invariant: a step that writes the ledger *)

\* How a step may change the ledger.
LedgerMove ==
  \/ /\ ledger' = Reserve(ledger)
     /\ UnresolvedSlots(ledger) = {} /\ Len(ledger) < Ceiling
  \/ \E i \in UnresolvedSlots(ledger), e \in Event : ledger' = Classify(ledger, i, e)

\* Such a change keeps the ceiling, and at most its last slot unresolved.
LEMMA LedgerMoveKept ==
  ASSUME TypeOK, LedgerInv, LedgerMove
  PROVE  /\ \A i \in DOMAIN ledger' : ledger'[i].class = Unresolved => i = Len(ledger')
         /\ Len(ledger') <= Ceiling
<1>1. ledger \in Seq(Slot) /\ Len(ledger) \in Nat /\ Len(ledger) <= Ceiling
  BY LenProperties DEF TypeOK, LedgerInv
<1>2. CASE ledger' = Reserve(ledger) /\ UnresolvedSlots(ledger) = {} /\ Len(ledger) < Ceiling
  <2>1. UnresolvedSlots(ledger') = {Len(ledger) + 1} /\ Len(ledger') = Len(ledger) + 1
    BY <1>1, <1>2, ReserveEffect, ReserveTyped
  <2> QED
    BY <1>1, <1>2, <2>1, ConstantsAssumption DEF UnresolvedSlots, SlotsOf
<1>3. CASE \E i \in UnresolvedSlots(ledger), e \in Event : ledger' = Classify(ledger, i, e)
  <2>1. PICK i \in UnresolvedSlots(ledger), e \in Event : ledger' = Classify(ledger, i, e)
    BY <1>3
  <2>2. i \in DOMAIN ledger
    BY DEF UnresolvedSlots, SlotsOf
  <2>3. UnresolvedSlots(ledger') = UnresolvedSlots(ledger) \ {i} /\ Len(ledger') = Len(ledger)
    BY <1>1, <2>1, <2>2, ClassifyEffect, ClassifyTyped
  <2> QED
    BY <1>1, <2>3 DEF LedgerInv, UnresolvedSlots, SlotsOf
<1> QED
  BY <1>2, <1>3 DEF LedgerMove

\* A supervisor that writes the ledger is alone, so nobody else's view of it becomes stale.
LEMMA LedgerInvWrites ==
  ASSUME TypeOK, SupervisionInv, LedgerInv, NEW t \in Token, Acting(t), LedgerMove,
         UNCHANGED callerVars, UNCHANGED active,
         \A u \in Token \ {t} : spc'[u] = spc[u] /\ smem'[u] = smem[u] /\ swork'[u] = swork[u],
         spc'[t] \in {"reserved", "closing"},
         Grounded(t)'
  PROVE  LedgerInv'
<1>1. \A u \in Token \ {t} : ~Acting(u) /\ ~Acting(u)' /\ ~Holding(u)' /\ spc'[u] # "admitted"
  BY ActingAlone DEF Acting, Live, LiveState, SupervisorState, Holding
<1>2. active # NONE /\ active.token = t /\ \A c \in Caller : ~FoundOrphaned(c)
  BY ActingAlone
<1>3. \A c \in Caller :
        /\ cpc[c] \notin {"recording", "sweeping", "classifying"}
        /\ ~(cpc[c] = "scanning" /\ ~cplan[c].live)
  BY <1>2 DEF FoundOrphaned, Recovering
<1> QED
  BY <1>1, <1>2, <1>3, LedgerMoveKept DEF LedgerInv, Grounded, callerVars

-----------------------------------------------------------------------------
(* The invariant: the callers *)

\* What must hold of a caller for LedgerInv, given the ledger as it is.
Sound(c) ==
  /\ cpc[c] = "recording" /\ cseen[c].mode = "adopt" => cseen[c].slot \in UnresolvedSlots(ledger)
  /\ cpc[c] = "scanning" /\ ~cplan[c].live => cplan[c].pending = UnresolvedSlots(ledger)
  /\ cpc[c] \in {"sweeping", "classifying"} =>
       /\ cplan[c].pending = UnresolvedSlots(ledger)
       /\ cplan[c].pending # {}
       /\ cplan[c].slots = ledger

\* A caller's step that does not touch the ledger, or the record other than by removing it.
LEMMA LedgerInvAdvance ==
  ASSUME TypeOK, LedgerInv, NEW c \in Caller,
         UNCHANGED <<ledger, spc, smem, swork>>,
         active' # active => active' = NONE,
         \A d \in Caller \ {c} : cpc'[d] = cpc[d] /\ cseen'[d] = cseen[d] /\ cplan'[d] = cplan[d],
         Sound(c)'
  PROVE  LedgerInv'
<1>1. UnresolvedSlots(ledger)' = UnresolvedSlots(ledger)
  BY DEF UnresolvedSlots, SlotsOf
<1>2. \A d \in Caller : Sound(d)'
  BY <1>1 DEF LedgerInv, Sound
<1>3. \A t \in Token : Grounded(t)'
  BY <1>1 DEF LedgerInv, Grounded, Acting, Live, Holding
<1>4. active' # NONE => active' = active
  OBVIOUS
<1> QED
  BY <1>1, <1>2, <1>3, <1>4 DEF LedgerInv, Sound, Grounded

\* The supervisor a caller creates does not act yet, and its slot waits for it.
LEMMA LedgerInvSpawn ==
  ASSUME TypeOK, SupervisionInv, LedgerInv, NEW c \in Caller, NEW mode, NEW slot, NEW event,
         Spawn(c, mode, slot, event), mode = "adopt" => slot \in UnresolvedSlots(ledger)
  PROVE  LedgerInv'
<1>1. PICK t \in Token :
        /\ spc[t] = "unborn"
        /\ spc' = [spc EXCEPT ![t] = "polling"]
        /\ cpc' = [cpc EXCEPT ![c] = "recording"]
        /\ \E r : r.mode = mode /\ r.slot = slot /\ cseen' = [cseen EXCEPT ![c] = r]
        /\ UNCHANGED <<cplan, active, ledger, smem, swork>>
  BY DEF Spawn, fileVars
<1>2. UnresolvedSlots(ledger)' = UnresolvedSlots(ledger)
  BY <1>1 DEF UnresolvedSlots, SlotsOf
<1>3. \A u \in Token : Grounded(u)'
  <2>1. \A u \in Token \ {t} : spc'[u] = spc[u]
    BY <1>1 DEF TypeOK
  <2>2. spc'[t] = "polling"
    BY <1>1 DEF TypeOK
  <2> QED
    BY <1>1, <1>2, <2>1, <2>2 DEF LedgerInv, Grounded, Acting, Live, Holding
<1>4. \A d \in Caller : Sound(d)'
  <2>1. \A d \in Caller \ {c} : cpc'[d] = cpc[d] /\ cseen'[d] = cseen[d]
    BY <1>1 DEF TypeOK
  <2>2. cpc'[c] = "recording" /\ cseen'[c].mode = mode /\ cseen'[c].slot = slot
    BY <1>1 DEF TypeOK
  <2> QED
    BY <1>1, <1>2, <2>1, <2>2 DEF LedgerInv, Sound
<1>5. active # NONE => active.token \in Token /\ active.token # t
  BY <1>1 DEF SupervisionInv, TypeOK, Record
<1>6. active' # NONE /\ active'.mode = "adopt" /\ spc'[active'.token] = "polling" =>
        active'.slot \in UnresolvedSlots(ledger)
  BY <1>1, <1>5 DEF LedgerInv, TypeOK
<1> QED
  BY <1>1, <1>2, <1>3, <1>4, <1>6 DEF LedgerInv, Sound, Grounded

LEMMA LedgerInvContinue ==
  ASSUME TypeOK, SupervisionInv, LedgerInv, NEW c \in Caller, ContinueStep(c)
  PROVE  LedgerInv'
<1> USE DEF fileVars, supVars
<1>1. CASE Attach(c) \/ Propose(c) \/ TakeLaunchLock(c)
  BY <1>1, LedgerInvAdvance DEF Attach, Propose, TakeLaunchLock, TypeOK, Sound
<1>2. CASE AttachOrRefuse(c) \/ Await(c) \/ CallerDies(c)
  BY <1>2, LedgerInvAdvance DEF AttachOrRefuse, Await, CallerDies, Return, TypeOK, Sound
<1>3. CASE SpawnLaunch(c)
  <2>1. Spawn(c, "launch", 0, NONE)
    BY <1>3 DEF SpawnLaunch
  <2> QED
    BY <2>1, LedgerInvSpawn
<1>4. CASE RecordSpawn(c)
  <2>1. /\ cpc[c] = "recording" /\ active' = cseen[c]
        /\ UNCHANGED <<ledger, spc, smem, swork, cseen, cplan>>
        /\ cpc' = [cpc EXCEPT ![c] = "waiting"]
    BY <1>4 DEF RecordSpawn
  <2>2. UnresolvedSlots(ledger)' = UnresolvedSlots(ledger)
    BY <2>1 DEF UnresolvedSlots, SlotsOf
  <2>3. active'.mode = "adopt" => active'.slot \in UnresolvedSlots(ledger)
    BY <2>1 DEF LedgerInv
  <2>4. \A t \in Token : Grounded(t)'
    BY <2>1, <2>2 DEF LedgerInv, Grounded, Acting, Live, Holding
  <2>5. \A d \in Caller : cpc'[d] # "waiting" => cpc'[d] = cpc[d]
    BY <2>1 DEF TypeOK
  <2> QED
    BY <2>1, <2>2, <2>3, <2>4, <2>5 DEF LedgerInv, Grounded
<1> QED
  BY <1>1, <1>2, <1>3, <1>4 DEF ContinueStep

\* The slot that recovery acts on is the unresolved one.
LEMMA PendingSlotIn ==
  ASSUME NEW plan, plan.pending # {}
  PROVE  PendingSlot(plan) \in plan.pending
BY DEF PendingSlot

\* Recovery classifies the slot it found, in the ledger as it is on disk.
LEMMA FinalizeMoves ==
  ASSUME TypeOK, SupervisionInv, LedgerInv, NEW c \in Caller, FinalizeClassify(c)
  PROVE  LedgerMove
<1>1. cplan[c].slots = ledger /\ PendingSlot(cplan[c]) \in UnresolvedSlots(ledger)
  BY PendingSlotIn DEF FinalizeClassify, LedgerInv
<1>2. FoundEvent(cplan[c]) \in Event
  <2>1. cplan[c].found \subseteq Token
    BY DEF TypeOK, Plan
  <2> QED
    BY <2>1 DEF FoundEvent, Event
<1> QED
  BY <1>1, <1>2 DEF FinalizeClassify, LedgerMove

\* It does so in the locked section, and over a record whose supervisor is gone.
LEMMA LedgerInvFinalize ==
  ASSUME TypeOK, SupervisionInv, LedgerInv, NEW c \in Caller, FinalizeClassify(c)
  PROVE  LedgerInv'
<1>1. lock = c /\ Orphaned
  BY DEF SupervisionInv, FinalizeClassify, InLockedSection, FoundOrphaned, Recovering
<1>2. UNCHANGED <<active, spc, smem, swork>> /\ cpc'[c] \in {"idle", "concluding"}
  BY DEF FinalizeClassify, Return, supVars, TypeOK
<1>3. \A d \in Caller \ {c} : ~InLockedSection(d) /\ cpc'[d] = cpc[d]
  BY <1>1 DEF SupervisionInv, FinalizeClassify, Return, TypeOK
<1>4. \A d \in Caller : cpc'[d] \notin {"recording", "scanning", "sweeping", "classifying"}
  BY <1>2, <1>3 DEF InLockedSection
<1>5. \A t \in Token : ~Acting(t)' /\ ~Holding(t)' /\ spc'[t] # "admitted"
  BY <1>1, <1>2
  DEF SupervisionInv, Orphaned, Owns, Acting, Live, LiveState, SupervisorState, Holding
<1>6. active' # NONE => spc'[active'.token] # "polling"
  BY <1>1, <1>2 DEF Orphaned, Live, LiveState, SupervisorState
<1> QED
  BY <1>4, <1>5, <1>6, FinalizeMoves, LedgerMoveKept DEF LedgerInv

LEMMA LedgerInvRecover ==
  ASSUME TypeOK, SupervisionInv, LedgerInv, NEW c \in Caller, RecoverStep(c)
  PROVE  LedgerInv'
<1> USE DEF fileVars, supVars
<1>1. CASE TakeRecoverLock(c) \/ ArchiveRecord(c) \/ ConcludeLost(c)
  BY <1>1, LedgerInvAdvance DEF TakeRecoverLock, ArchiveRecord, ConcludeLost, TypeOK, Sound
<1>2. CASE ReadEvidence(c)
  <2>1. cpc'[c] = "scanning" /\ cplan'[c].pending = UnresolvedSlots(ledger) /\ ledger' = ledger
    BY <1>2 DEF ReadEvidence, TypeOK
  <2>2. Sound(c)'
    BY <2>1 DEF Sound, UnresolvedSlots, SlotsOf
  <2> QED
    BY <1>2, <2>2, LedgerInvAdvance DEF ReadEvidence, TypeOK
<1>3. CASE NothingToApply(c) \/ UnlinkLost(c)
  BY <1>3, LedgerInvAdvance DEF NothingToApply, UnlinkLost, Return, TypeOK, Sound
<1>4. CASE Adopt(c)
  <2>1. PendingSlot(cplan[c]) \in UnresolvedSlots(ledger)
    BY <1>4, PendingSlotIn DEF Adopt, LedgerInv
  <2>2. Spawn(c, "adopt", PendingSlot(cplan[c]), FoundEvent(cplan[c]))
    BY <1>4 DEF Adopt
  <2> QED
    BY <2>1, <2>2, LedgerInvSpawn
<1>5. CASE Finalize(c)
  <2>1. /\ cpc[c] = "scanning" /\ ~cplan[c].live /\ cplan[c].pending # {}
        /\ cpc'[c] = "sweeping" /\ ledger' = ledger
        /\ cplan' = [cplan EXCEPT ![c] = [cplan[c] EXCEPT !.slots = ledger]]
    BY <1>5 DEF Finalize, TypeOK
  <2>2. cplan'[c].slots = ledger /\ cplan'[c].pending = cplan[c].pending
    BY <2>1 DEF TypeOK, Plan
  <2>3. Sound(c)'
    BY <2>1, <2>2 DEF LedgerInv, Sound, UnresolvedSlots, SlotsOf
  <2> QED
    BY <1>5, <2>1, <2>3, LedgerInvAdvance DEF Finalize, TypeOK
<1>6. CASE FinalizeSweep(c)
  <2>1. Sound(c)'
    BY <1>6 DEF FinalizeSweep, LedgerInv, Sound, TypeOK, UnresolvedSlots, SlotsOf
  <2> QED
    BY <1>6, <2>1, LedgerInvAdvance DEF FinalizeSweep, TypeOK
<1>7. CASE FinalizeClassify(c)
  BY <1>7, LedgerInvFinalize
<1> QED
  BY <1>1, <1>2, <1>3, <1>4, <1>5, <1>6, <1>7 DEF RecoverStep

-----------------------------------------------------------------------------
(* The invariant holds *)

\* The classification of a supervisor's own slot, or its reservation, starts from the ledger as
\* it is on disk.
LEMMA SupervisorLedgerMoves ==
  ASSUME TypeOK, SupervisionInv, LedgerInv, NEW t \in Token,
         ReserveSlot(t) \/ LauncherNotCreated(t) \/ ClassifySlot(t)
  PROVE  LedgerMove
<1>1. Acting(t) /\ smem[t] = ledger
  BY DEF LedgerInv, ReserveSlot, LauncherNotCreated, ClassifySlot, Goes, Acting, Live, LiveState,
         SupervisorState
<1>2. CASE ReserveSlot(t)
  BY <1>1, <1>2 DEF LedgerInv, ReserveSlot, Goes, LedgerMove
<1>3. CASE LauncherNotCreated(t)
  BY <1>1, <1>3 DEF LedgerInv, LauncherNotCreated, Goes, Holding, WriteClass, LedgerMove, Event
<1>4. CASE ClassifySlot(t)
  <2>1. swork[t].event \in Event
    BY DEF TypeOK, Work
  <2> QED
    BY <1>1, <1>4, <2>1 DEF LedgerInv, ClassifySlot, Goes, Holding, WriteClass, LedgerMove
<1> QED
  BY <1>2, <1>3, <1>4

LEMMA LedgerInvMoves ==
  ASSUME TypeOK, SupervisionInv, LedgerInv, NEW t \in Token,
         ReserveSlot(t) \/ LauncherNotCreated(t) \/ ClassifySlot(t)
  PROVE  LedgerInv'
<1>1. Acting(t) /\ smem[t] = ledger
  BY DEF LedgerInv, ReserveSlot, LauncherNotCreated, ClassifySlot, Goes, Acting, Live, LiveState,
         SupervisorState
<1>2. /\ UNCHANGED callerVars /\ UNCHANGED active
      /\ \A u \in Token \ {t} :
           spc'[u] = spc[u] /\ smem'[u] = smem[u] /\ swork'[u] = swork[u]
      /\ spc'[t] \in {"reserved", "closing"} /\ smem'[t] = ledger'
  BY DEF ReserveSlot, LauncherNotCreated, ClassifySlot, Goes, WriteClass, callerVars, TypeOK
<1>3. spc'[t] = "reserved" => swork'[t].slot \in UnresolvedSlots(ledger')
  <2> SUFFICES ASSUME spc'[t] = "reserved"
               PROVE  swork'[t].slot \in UnresolvedSlots(ledger')
    OBVIOUS
  <2>1. ReserveSlot(t)
    BY DEF LauncherNotCreated, ClassifySlot, Goes, TypeOK
  <2>2. swork' = [swork EXCEPT ![t] = [swork[t] EXCEPT !.slot = Len(ledger) + 1]]
    BY <1>1, <2>1 DEF ReserveSlot
  <2>3. swork'[t].slot = Len(ledger) + 1
    BY <2>2 DEF TypeOK, Work
  <2>4. ledger' = Reserve(ledger)
    BY <1>1, <2>1 DEF ReserveSlot
  <2> QED
    BY <2>3, <2>4, ReserveEffect DEF TypeOK
<1>4. Grounded(t)'
  BY <1>2, <1>3 DEF Grounded, Holding
<1> QED
  BY <1>1, <1>2, <1>4, SupervisorLedgerMoves, LedgerInvWrites

\* Whoever acts has the ledger as it is on disk, if no start time was missed.
LEMMA LedgerInvHolds ==
  ASSUME SpawnPsMayFail = FALSE
  PROVE  Spec => []LedgerInv
<1>1. Init => LedgerInv
  <2> SUFFICES ASSUME Init
               PROVE  LedgerInv
    OBVIOUS
  <2>1. ledger = <<>> /\ Len(ledger) = 0 /\ DOMAIN ledger = {}
    BY EmptySeq DEF Init
  <2> QED
    BY <2>1, ConstantsAssumption DEF Init, LedgerInv, Acting, Live, LiveState, Holding
<1>2. TypeOK /\ SupervisionInv /\ LedgerInv /\ [Next]_vars => LedgerInv'
  <2> SUFFICES ASSUME TypeOK, SupervisionInv, LedgerInv, [Next]_vars
               PROVE  LedgerInv'
    OBVIOUS
  <2> DEFINE Frame == UNCHANGED <<ledger, spc, smem, swork, cpc, cseen, cplan, active>>
  <2>1. Frame => LedgerInv'
    BY DEF LedgerInv, Acting, Live, Holding, UnresolvedSlots, SlotsOf
  <2>2. ASSUME NEW c \in Caller, ContinueStep(c) \/ RecoverStep(c)
        PROVE  LedgerInv'
    BY <2>2, LedgerInvContinue, LedgerInvRecover
  <2>3. ASSUME NEW t \in Token, SuperviseStep(t) \/ Raise(t) \/ Lose(t)
        PROVE  LedgerInv'
    BY <2>3, LedgerInvSupervise, LedgerInvMoves DEF QuietStep, SuperviseStep
  <2>4. ASSUME NEW a \in Token, AttemptStep(a)
        PROVE  Frame
    BY <2>4
    DEF AttemptStep, StartHelper, PrepareFails, HelperReserves, HelperFails, HelperDetaches,
        LauncherBinds, LauncherReturns, MonitorStartsWorker, WorkerEnds, MonitorConcludes,
        MonitorGivesUp, fileVars, callerVars, supVars
  <2>5. CASE HostRestart
    <3>1. \A t \in Token : ~Live(t)' /\ ~Acting(t)'
      BY <2>5 DEF HostRestart, Acting, Live, LiveState, SupervisorState, TypeOK
    <3>2. \A t \in Token : ~Holding(t)' /\ spc'[t] \notin {"admitted", "polling"}
      BY <3>1 DEF Holding, Live, LiveState, SupervisorState
    <3>3. UNCHANGED <<active, ledger>> /\ \A c \in Caller : cpc'[c] = "idle"
      BY <2>5 DEF HostRestart, fileVars
    <3>4. active # NONE => active.token \in Token
      BY DEF TypeOK, Record
    <3> QED
      BY <3>1, <3>2, <3>3, <3>4 DEF LedgerInv
  <2>6. CASE UNCHANGED vars
    BY <2>1, <2>6 DEF vars, fileVars, callerVars, supVars
  <2> QED
    BY <2>1, <2>2, <2>3, <2>4, <2>5, <2>6 DEF Next
<1> QED
  BY <1>1, <1>2, TypeCorrect, SupervisionInvHolds, PTL DEF Spec

-----------------------------------------------------------------------------
(* What follows *)

\* Every step of the system reserves one slot under the ceiling, classifies the unresolved one, or
\* leaves the ledger alone.
LEMMA LedgerMoves ==
  ASSUME TypeOK, SupervisionInv, LedgerInv, [Next]_vars
  PROVE  ledger' = ledger \/ LedgerMove
<1>1. ASSUME NEW c \in Caller, ContinueStep(c)
      PROVE  ledger' = ledger
  BY <1>1
  DEF ContinueStep, Attach, Propose, TakeLaunchLock, AttachOrRefuse, SpawnLaunch, Spawn,
      RecordSpawn, Await, CallerDies, fileVars
<1>2. ASSUME NEW c \in Caller, RecoverStep(c)
      PROVE  ledger' = ledger \/ LedgerMove
  BY <1>2, FinalizeMoves
  DEF RecoverStep, TakeRecoverLock, ReadEvidence, NothingToApply, ArchiveRecord, Adopt, Spawn,
      Finalize, FinalizeSweep, ConcludeLost, UnlinkLost, fileVars
<1>3. ASSUME NEW t \in Token, SuperviseStep(t) \/ Raise(t) \/ Lose(t)
      PROVE  ledger' = ledger \/ LedgerMove
  BY <1>3, SupervisorLedgerMoves
  DEF SuperviseStep, Raise, Lose, SeeRecord, GiveUpPolling, AdmitLaunch, RefuseLaunch,
      StartLauncher, LauncherGone, StopLauncher, LookForReservation, KeepWatching,
      StopWatching, Sweep, Identify, WriteResult, UnlinkRecord, fileVars
<1>4. ASSUME NEW a \in Token, AttemptStep(a)
      PROVE  ledger' = ledger
  BY <1>4
  DEF AttemptStep, StartHelper, PrepareFails, HelperReserves, HelperFails, HelperDetaches,
      LauncherBinds, LauncherReturns, MonitorStartsWorker, WorkerEnds, MonitorConcludes,
      MonitorGivesUp, fileVars
<1>5. HostRestart \/ UNCHANGED vars => ledger' = ledger
  BY DEF HostRestart, vars, fileVars
<1> QED
  BY <1>1, <1>2, <1>3, <1>4, <1>5 DEF Next

\* The ceiling bounds the slots ever reserved, whatever callers, crashes and recoveries do.
THEOREM CeilingHolds ==
  ASSUME SpawnPsMayFail = FALSE
  PROVE  Spec => []CeilingRespected
<1>1. LedgerInv => CeilingRespected
  BY DEF LedgerInv, CeilingRespected
<1> QED
  BY <1>1, LedgerInvHolds, PTL

\* There is never more than one unresolved slot for recovery to find.
THEOREM OneUnresolvedSlot ==
  ASSUME SpawnPsMayFail = FALSE
  PROVE  Spec => []AtMostOneUnresolved
<1>1. TypeOK /\ LedgerInv => AtMostOneUnresolved
  <2> SUFFICES ASSUME TypeOK, LedgerInv
               PROVE  AtMostOneUnresolved
    OBVIOUS
  <2>1. UnresolvedSlots(ledger) \subseteq {Len(ledger)}
    BY DEF LedgerInv, UnresolvedSlots, SlotsOf
  <2>2. UnresolvedSlots(ledger) = {} \/ UnresolvedSlots(ledger) = {Len(ledger)}
    BY <2>1
  <2>3. Cardinality({Len(ledger)}) = 1 /\ Cardinality({}) = 0
    BY FS_EmptySet, FS_Singleton
  <2>4. Cardinality(UnresolvedSlots(ledger)) = 0 \/ Cardinality(UnresolvedSlots(ledger)) = 1
    BY <2>2, <2>3
  <2> QED
    BY <2>4 DEF AtMostOneUnresolved
<1> QED
  BY <1>1, TypeCorrect, LedgerInvHolds, PTL

\* The ledger, written by any supervisor and by recovery from the copy each has, implements
\* LaunchSlots.
THEOREM LedgerImplementsSlots ==
  ASSUME SpawnPsMayFail = FALSE
  PROVE  Spec => ImplementsSlots
<1>1. Init => Slots!Init
  BY DEF Init, Slots!Init
<1>2. TypeOK /\ SupervisionInv /\ LedgerInv /\ [Next]_vars => [Slots!Next]_ledger
  <2> SUFFICES ASSUME TypeOK, SupervisionInv, LedgerInv, [Next]_vars, ledger' # ledger
               PROVE  Slots!Next
    OBVIOUS
  <2>1. CASE /\ ledger' = Reserve(ledger)
             /\ UnresolvedSlots(ledger) = {} /\ Len(ledger) < Ceiling
    BY <2>1 DEF Reserve, UnresolvedSlots, SlotsOf, Unresolved, Slots!Next, Slots!Reserve
  <2>2. CASE \E i \in UnresolvedSlots(ledger), e \in Event : ledger' = Classify(ledger, i, e)
    <3>1. PICK i \in UnresolvedSlots(ledger), e \in Event : ledger' = Classify(ledger, i, e)
      BY <2>2
    <3> DEFINE outcome == [class |-> IF e \in reserved THEN ExecutorReached
                                     ELSE PreExecutorFailure, event |-> e]
    <3>2. /\ outcome \in {s \in Slots!Slot : s.class # "unresolved"}
          /\ outcome.class = "executor-reached" => outcome.event # NONE
      <4>1. reserved \subseteq Token /\ NONE \notin Token
        BY ConstantsAssumption DEF TypeOK
      <4> QED
        BY <4>1 DEF Event, Slots!Slot, Slots!Class, PreExecutorFailure, ExecutorReached
    <3>4. ledger' = [ledger EXCEPT ![i] = outcome]
      BY <3>1 DEF Classify
    <3> HIDE DEF outcome
    <3>3. i \in DOMAIN ledger /\ ledger[i].class = Unresolved
      BY DEF UnresolvedSlots, SlotsOf
    <3> QED
      BY <3>2, <3>3, <3>4 DEF Slots!Next, Slots!Classify, Unresolved
  <2> QED
    BY <2>1, <2>2, LedgerMoves DEF LedgerMove
<1> QED
  BY <1>1, <1>2, TypeCorrect, SupervisionInvHolds, LedgerInvHolds, PTL
  DEF Spec, ImplementsSlots, Slots!Spec
================================================================================
