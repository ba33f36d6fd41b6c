------------------------- MODULE LaunchProcessProofs -------------------------
(***************************************************************************)
(* Proofs about the processes of LaunchSupervision: why the evidence they   *)
(* leave names the attempt of the one unresolved slot, and why nothing that *)
(* a slot names still runs.  As in the run that checks these properties, a  *)
(* supervisor is never lost while a launcher may still reserve or bind,     *)
(* every sweep succeeds, and `ps` reads every supervisor's start time.      *)
(***************************************************************************)
EXTENDS LaunchSupervisionProofs

\* What the theorems below assume of the host.
CleanLoss ==
  /\ "launching" \notin LossPoints
  /\ SweepMayFail = FALSE
  /\ SpawnPsMayFail = FALSE

-----------------------------------------------------------------------------
(* The operators *)

\* A reserved slot names nothing yet.
LEMMA ReserveClaims ==
  ASSUME NEW slots \in Seq(Slot)
  PROVE  Claimed(Reserve(slots)) = Claimed(slots)
<1>1. DOMAIN slots = 1 .. Len(slots) /\ Len(slots) \in Nat
  BY LenProperties
<1>2. DOMAIN Reserve(slots) = 1 .. (Len(slots) + 1)
  BY ReserveTyped, LenProperties
<1>3. Reserve(slots)[Len(slots) + 1].event = NONE
  BY ReserveTyped
<1>4. \A i \in 1 .. Len(slots) : Reserve(slots)[i] = slots[i]
  BY ReserveTyped
<1>5. 1 .. (Len(slots) + 1) = (1 .. Len(slots)) \cup {Len(slots) + 1}
  BY <1>1
<1> QED
  BY <1>1, <1>2, <1>3, <1>4, <1>5 DEF Claimed

\* A classified slot names its event directory, if it has one, and takes no name away.
LEMMA ClassifyClaims ==
  ASSUME NEW slots \in Seq(Slot), NEW i \in DOMAIN slots, slots[i].event = NONE,
         NEW e \in Event
  PROVE  Claimed(Classify(slots, i, e)) = Claimed(slots) \cup ({e} \ {NONE})
<1>1. DOMAIN Classify(slots, i, e) = DOMAIN slots
  BY ClassifyEffect
<1>2. \A j \in DOMAIN slots \ {i} : Classify(slots, i, e)[j] = slots[j]
  BY DEF Classify
<1>3. Classify(slots, i, e)[i].event = e
  BY DEF Classify
<1> QED
  BY <1>1, <1>2, <1>3 DEF Claimed

\* With the ledger and the reservations as they were, the evidence is as it was.
LEMMA EvidenceKept ==
  ASSUME UNCHANGED <<ledger, reserved>>
  PROVE  /\ Claimed(ledger)' = Claimed(ledger)
         /\ Unclaimed' = Unclaimed
         /\ UnresolvedSlots(ledger)' = UnresolvedSlots(ledger)
         /\ \A e : Told(e)' <=> Told(e)
BY DEF Claimed, Unclaimed, UnresolvedSlots, SlotsOf, Told

\* A sweep that succeeds leaves nothing running, and makes nothing appear.
LEMMA SweepStops ==
  ASSUME TypeOK, CleanLoss, StopAttempt
  PROVE  /\ ~AnyOwned'
         /\ \A a \in Token :
              /\ helper'[a] = IF helper[a] = "running" THEN "exited" ELSE helper[a]
              /\ monitor'[a] = IF monitor[a] = "running" THEN "exited" ELSE monitor[a]
              /\ worker'[a] = IF worker[a] = "running" THEN "exited" ELSE worker[a]
<1>1. \A a \in Token :
        /\ helper'[a] = IF helper[a] = "running" THEN "exited" ELSE helper[a]
        /\ monitor'[a] = IF monitor[a] = "running" THEN "exited" ELSE monitor[a]
        /\ worker'[a] = IF worker[a] = "running" THEN "exited" ELSE worker[a]
  BY DEF StopAttempt, CleanLoss
<1> QED
  BY <1>1 DEF AnyOwned, Owned

\* While a launcher may still reserve or bind, its supervisor is the one that acts.
LEMMA LaunchingActs ==
  ASSUME ProcessInv, NEW a \in Token, Launching(a)
  PROVE  Acting(a) /\ spc[a] \in {"running", "sweeping"}
BY DEF ProcessInv, InOrder, Launching, Acting, Live, LiveState, SupervisorState

\* An attempt that runs anything has a reservation, or a supervisor that launches it.
LEMMA OwnedIsReserved ==
  ASSUME TypeOK, ProcessInv, NEW a \in Token, Owned(a)
  PROVE  a \in reserved \/ Launching(a)
BY DEF ProcessInv, InOrder, Owned, Launching

-----------------------------------------------------------------------------
(* Steps that leave the ledger and the reservations as they are *)

\* Nothing named by a slot starts running: what the slots tell is kept.
LEMMA SlotsTellKept ==
  ASSUME TypeOK, SlotsTell, UNCHANGED <<ledger, reserved>>,
         \A a \in Token : Owned(a)' => Owned(a) \/ a \notin reserved
  PROVE  SlotsTell'
<1>1. \A a \in Claimed(ledger) : ~Owned(a)'
  BY DEF SlotsTell, TypeOK
<1>2. \A a \in Claimed(ledger)' : ~Owned(a)'
  BY <1>1, EvidenceKept
<1> HIDE DEF Unresolved, ExecutorReached
<1> QED
  BY <1>2, EvidenceKept DEF SlotsTell

\* A caller's step that starts no process and writes no record.
LEMMA ProcessInvAdvance ==
  ASSUME TypeOK, ProcessInv, NEW c \in Caller,
         UNCHANGED <<ledger, reserved, spc, swork, launcher, helper, monitor, worker>>,
         active' # active => active' = NONE,
         \A d \in Caller \ {c} : cpc'[d] = cpc[d] /\ cseen'[d] = cseen[d] /\ cplan'[d] = cplan[d],
         CallerTells(c)'
  PROVE  ProcessInv'
<1> USE DEF ProcessInv
<1>1. \A a \in Token : InOrder(a)' /\ (Owned(a)' <=> Owned(a))
  BY DEF InOrder, Owned
<1>2. SlotsTell'
  BY <1>1, SlotsTellKept
<1>3. AnyOwned' <=> AnyOwned
  BY <1>1 DEF AnyOwned
<1>4. \A t \in Token : SupervisorTells(t)'
  BY <1>3, EvidenceKept DEF SupervisorTells
<1>5. \A d \in Caller \ {c} : CallerTells(d)'
  BY <1>3, EvidenceKept DEF CallerTells
<1>6. RecordTells'
  BY EvidenceKept DEF RecordTells
<1> QED
  BY <1>1, <1>2, <1>4, <1>5, <1>6

\* A supervisor's step after which every process that runs ran before.
LEMMA ProcessInvSupervisor ==
  ASSUME TypeOK, ProcessInv, NEW t \in Token,
         UNCHANGED <<ledger, reserved>>, UNCHANGED callerVars,
         active' # active => active' = NONE,
         \A u \in Token \ {t} : spc'[u] = spc[u] /\ swork'[u] = swork[u],
         spc'[t] # "polling",
         \A a \in Token : InOrder(a)' /\ (Owned(a)' => Owned(a)),
         SupervisorTells(t)'
  PROVE  ProcessInv'
<1> USE DEF ProcessInv
<1>1. AnyOwned' => AnyOwned
  BY DEF AnyOwned
<1>2. SlotsTell'
  BY SlotsTellKept
<1>3. \A u \in Token \ {t} : SupervisorTells(u)'
  BY <1>1, EvidenceKept DEF SupervisorTells
<1>4. \A c \in Caller : CallerTells(c)'
  BY <1>1, EvidenceKept DEF CallerTells, callerVars
<1>5. RecordTells'
  <2>1. active' # NONE => active' = active /\ active.token \in Token
    BY DEF TypeOK, Record
  <2>2. active' # NONE /\ spc'[active'.token] = "polling" => spc[active.token] = "polling"
    BY <2>1
  <2> QED
    BY <2>1, <2>2, EvidenceKept DEF RecordTells
<1> QED
  BY <1>2, <1>3, <1>4, <1>5

-----------------------------------------------------------------------------
(* The supervisor's steps that do not write the ledger *)

\* A supervisor's step that starts and ends no process of an attempt.
LEMMA InOrderKept ==
  ASSUME TypeOK, ProcessInv, NEW t \in Token,
         UNCHANGED <<reserved, launcher, helper, monitor, worker>>,
         \A u \in Token \ {t} : spc'[u] = spc[u] /\ swork'[u] = swork[u],
         \/ spc'[t] = spc[t] /\ swork'[t].mode = swork[t].mode
         \/ launcher[t] = "none"
         \/ ~Launching(t) /\ spc'[t] \notin {"unborn", "polling", "loaded", "admitted", "reserved"}
  PROVE  \A a \in Token : InOrder(a)' /\ (Owned(a)' => Owned(a))
<1>1. \A a \in Token : Owned(a)' => Owned(a)
  BY DEF Owned
<1>2. \A a \in Token \ {t} : InOrder(a)'
  BY DEF ProcessInv, InOrder
<1>3. InOrder(t)'
  <2>1. InOrder(t)
    BY DEF ProcessInv
  <2> QED
    BY <2>1 DEF InOrder, Launching
<1> QED
  BY <1>1, <1>2, <1>3

\* Of these steps, those that touch no process.
LEMMA ProcessInvWaits ==
  ASSUME TypeOK, SupervisionInv, LedgerInv, ProcessInv, NEW t \in Token,
         \/ SeeRecord(t) \/ GiveUpPolling(t) \/ AdmitLaunch(t) \/ RefuseLaunch(t)
         \/ LookForReservation(t) \/ KeepWatching(t) \/ StopWatching(t) \/ Identify(t)
         \/ WriteResult(t) \/ UnlinkRecord(t)
  PROVE  ProcessInv'
<1>1. /\ UNCHANGED <<ledger, reserved, launcher, helper, monitor, worker>>
      /\ UNCHANGED callerVars
      /\ active' # active => active' = NONE
      /\ \A u \in Token \ {t} : spc'[u] = spc[u] /\ swork'[u] = swork[u]
      /\ spc'[t] # "polling"
  BY DEF SeeRecord, GiveUpPolling, AdmitLaunch, RefuseLaunch, LookForReservation, KeepWatching,
         StopWatching, Identify, WriteResult, UnlinkRecord, Goes, Forget, fileVars, callerVars,
         procVars, evidenceVars, TypeOK
<1>2. \A a \in Token : InOrder(a)' /\ (Owned(a)' => Owned(a))
  <2>1. /\ spc[t] \notin {"unborn", "running"}
        /\ spc[t] \notin {"polling", "loaded"} =>
             spc'[t] \notin {"unborn", "polling", "loaded", "admitted", "reserved"}
        /\ spc[t] # "sweeping"
    BY DEF SeeRecord, GiveUpPolling, AdmitLaunch, RefuseLaunch, LookForReservation, KeepWatching,
           StopWatching, Identify, WriteResult, UnlinkRecord, Goes, TypeOK
  <2>2. spc[t] \in {"polling", "loaded"} => launcher[t] = "none"
    BY DEF ProcessInv, InOrder
  <2>3. ~Launching(t)
    BY <2>1 DEF ProcessInv, InOrder, Launching
  <2> QED
    BY <1>1, <2>1, <2>2, <2>3, InOrderKept
<1>3. SupervisorTells(t)'
  <2> USE DEF ProcessInv
  <2>0. NONE \notin Token /\ ledger \in Seq(Slot)
    BY ConstantsAssumption DEF TypeOK
  <2>1. CASE SeeRecord(t)
    <3>1. /\ spc[t] = "polling" /\ active # NONE /\ active.token = t
          /\ spc'[t] = IF active.mode = "adopt" THEN "looking" ELSE "loaded"
          /\ swork'[t].mode = active.mode /\ swork'[t].event = active.event
      BY <2>1 DEF SeeRecord, Goes, Owns, TypeOK
    <3>2. active.mode \in {"launch", "adopt"}
      BY <3>1 DEF TypeOK, Record, Mode
    <3>3. active.mode = "adopt" => Told(active.event)
      BY <3>1 DEF RecordTells
    <3>4. active.mode = "launch" => active.event = NONE
      BY <3>1 DEF RecordTells
    <3> QED
      BY <1>1, <3>1, <3>2, <3>3, <3>4, EvidenceKept DEF SupervisorTells
  <2>2. CASE AdmitLaunch(t)
    <3>1. /\ spc[t] = "loaded" /\ spc'[t] = "admitted" /\ Admits(smem[t])
          /\ swork' = [swork EXCEPT ![t] = [swork[t] EXCEPT !.before = reserved]]
      BY <2>2 DEF AdmitLaunch, Goes, TypeOK
    <3>2. /\ swork'[t].mode = swork[t].mode /\ swork'[t].event = swork[t].event
          /\ swork'[t].before = reserved
      BY <3>1 DEF TypeOK, Work
    <3>3. smem[t] = ledger
      BY <3>1 DEF LedgerInv, Acting, Live, LiveState, SupervisorState
    <3>4. Unclaimed = {} /\ Claimed(ledger) \subseteq reserved
      BY <3>1, <3>3 DEF Admits, SlotsTell
    <3>5. reserved = Claimed(ledger)
      BY <3>4 DEF Unclaimed
    <3>6. t \notin reserved
      BY <3>1 DEF InOrder
    <3>7. swork[t].mode = "launch" /\ swork[t].event = NONE
      BY <3>1 DEF SupervisorTells
    <3> QED
      BY <1>1, <3>1, <3>2, <3>4, <3>5, <3>6, <3>7, EvidenceKept DEF SupervisorTells
  <2>3. CASE LookForReservation(t)
    <3>1. spc[t] = "looking" /\ spc'[t] = "watching" /\ smem[t] = ledger
      BY <2>3 DEF LookForReservation, Goes, LedgerInv, Acting, Live, LiveState, SupervisorState,
                  TypeOK
    <3>2. swork[t].mode = "adopt" /\ Told(swork[t].event)
      BY <3>1 DEF SupervisorTells
    <3>3. swork[t].event = NONE => Cardinality(reserved \ Claimed(smem[t])) # 1
      BY <3>1, <3>2, FS_EmptySet DEF Told, Unclaimed
    <3>4. swork' = swork
      BY <2>3, <3>3 DEF LookForReservation
    <3> QED
      BY <1>1, <3>1, <3>2, <3>4, EvidenceKept DEF SupervisorTells
  <2>4. CASE KeepWatching(t) \/ StopWatching(t)
    <3>1. spc[t] = "watching" /\ spc'[t] \in {"looking", "sweeping"} /\ swork' = swork
      BY <2>4 DEF KeepWatching, StopWatching, Goes, TypeOK
    <3>2. swork[t].mode = "adopt" /\ Told(swork[t].event)
      BY <3>1 DEF SupervisorTells
    <3> QED
      BY <1>1, <3>1, <3>2, EvidenceKept DEF SupervisorTells
  <2>5. CASE Identify(t)
    <3>1. spc[t] = "identifying" /\ spc'[t] \in {"finalizing", "closing"}
      BY <2>5 DEF Identify, Goes, TypeOK
    <3>2. ~AnyOwned'
      BY <1>1, <3>1 DEF SupervisorTells, AnyOwned, Owned
    <3>3. ASSUME spc'[t] = "finalizing"
          PROVE  Told(swork'[t].event)
      <4>1. CASE swork[t].mode = "adopt"
        <5>1. swork' = swork
          BY <2>5, <4>1 DEF Identify
        <5> QED
          BY <3>1, <4>1, <5>1 DEF SupervisorTells
      <4>2. CASE swork[t].mode = "launch"
        <5>1. swork' = [swork EXCEPT ![t] = [swork[t] EXCEPT !.event =
                 IF NewEvents(t) = {} THEN NONE ELSE CHOOSE a \in NewEvents(t) : TRUE]]
          BY <2>5, <3>1, <3>3, <4>2 DEF Identify, Goes, TypeOK
        <5>2. swork'[t].event = IF NewEvents(t) = {} THEN NONE ELSE CHOOSE a \in NewEvents(t) : TRUE
          BY <5>1 DEF TypeOK, Work
        <5>3. /\ swork[t].before = Claimed(ledger)
              /\ swork[t].event = NONE \/ swork[t].event \in Unclaimed
          BY <3>1, <4>2 DEF SupervisorTells
        <5>4. NewEvents(t) \subseteq Unclaimed /\ (NewEvents(t) = {} => Unclaimed = {})
          BY <5>3 DEF NewEvents, Unclaimed
        <5>5. Unclaimed \subseteq Token
          BY DEF Unclaimed, TypeOK
        <5>6. NewEvents(t) # {} => (CHOOSE a \in NewEvents(t) : TRUE) \in NewEvents(t)
          OBVIOUS
        <5>7. CASE NewEvents(t) = {}
          BY <5>2, <5>4, <5>7 DEF Told
        <5>8. CASE NewEvents(t) # {}
          BY <2>0, <5>2, <5>4, <5>5, <5>6, <5>8 DEF Told
        <5> QED
          BY <5>7, <5>8
      <4> QED
        BY <4>1, <4>2 DEF TypeOK, Work, Mode
    <3> QED
      BY <1>1, <3>1, <3>2, <3>3, EvidenceKept DEF SupervisorTells
  <2>6. CASE GiveUpPolling(t) \/ RefuseLaunch(t) \/ WriteResult(t) \/ UnlinkRecord(t)
    <3>1. spc'[t] \in {"closing", "resulted", "gone"}
      BY <2>6 DEF GiveUpPolling, RefuseLaunch, WriteResult, UnlinkRecord, Goes, TypeOK
    <3> QED
      BY <3>1 DEF SupervisorTells
  <2> QED
    BY <2>1, <2>2, <2>3, <2>4, <2>5, <2>6
<1> QED
  BY <1>1, <1>2, <1>3, ProcessInvSupervisor

\* A supervisor that is lost, or raises, while no launcher may still reserve.
LEMMA ProcessInvLost ==
  ASSUME CleanLoss, TypeOK, SupervisionInv, ProcessInv, NEW t \in Token, Raise(t) \/ Lose(t)
  PROVE  ProcessInv'
<1>1. /\ UNCHANGED <<ledger, reserved, launcher, helper, monitor, worker, active>>
      /\ UNCHANGED callerVars
      /\ \A u \in Token \ {t} : spc'[u] = spc[u] /\ swork'[u] = swork[u]
      /\ spc'[t] \in {"closing", "gone"}
  BY DEF Raise, Lose, Forget, fileVars, callerVars, procVars, evidenceVars, TypeOK
<1>2. PointOf(t) \in LossPoints
  <2>1. Raise(t) => Acting(t)
    BY DEF Raise, Acting, Live
  <2> QED
    BY <2>1 DEF Raise, Lose, SupervisionInv
<1>3. ~Launching(t)
  BY <1>2 DEF PointOf, CleanLoss
<1>4. SupervisorTells(t)'
  BY <1>1 DEF SupervisorTells
<1> QED
  BY <1>1, <1>3, <1>4, InOrderKept, ProcessInvSupervisor

\* Creating, reaping and killing the launcher, and the sweep that follows.
LEMMA ProcessInvLaunches ==
  ASSUME CleanLoss, TypeOK, ProcessInv, NEW t \in Token,
         StartLauncher(t) \/ LauncherGone(t) \/ StopLauncher(t) \/ Sweep(t)
  PROVE  ProcessInv'
<1>1. /\ UNCHANGED <<ledger, reserved, active>> /\ UNCHANGED callerVars
      /\ \A u \in Token \ {t} : spc'[u] = spc[u] /\ swork'[u] = swork[u]
      /\ spc'[t] # "polling" /\ swork'[t].mode = swork[t].mode
      /\ \A a \in Token \ {t} : launcher'[a] = launcher[a]
  BY DEF StartLauncher, LauncherGone, StopLauncher, Sweep, Goes, fileVars, callerVars,
         evidenceVars, TypeOK, Work
<1>o. InOrder(t) /\ SupervisorTells(t)
  BY DEF ProcessInv
<1>2. CASE StartLauncher(t) \/ LauncherGone(t) \/ StopLauncher(t)
  <2>1. /\ UNCHANGED <<helper, monitor, worker>>
        /\ \/ spc[t] = "reserved" /\ spc'[t] = "running" /\ launcher'[t] = "preparing"
           \/ spc[t] = "running" /\ spc'[t] = "sweeping" /\ launcher'[t] = "exited"
    BY <1>2 DEF StartLauncher, LauncherGone, StopLauncher, Goes, TypeOK
  <2>2. \A a \in Token : InOrder(a)' /\ (Owned(a)' => Owned(a))
    <3>1. \A a \in Token \ {t} : InOrder(a)'
      BY <1>1, <2>1 DEF ProcessInv, InOrder
    <3>2. InOrder(t)'
      BY <1>1, <1>o, <2>1 DEF InOrder
    <3>3. \A a \in Token : Owned(a)' => Owned(a)
      BY <2>1 DEF Owned
    <3> QED
      BY <3>1, <3>2, <3>3
  <2>3. /\ swork[t].mode = "launch" /\ swork[t].event = NONE
        /\ swork[t].before = Claimed(ledger) /\ t \notin Claimed(ledger) /\ Unclaimed \subseteq {t}
    BY <1>o, <2>1 DEF SupervisorTells
  <2>4. SupervisorTells(t)'
    <3>1. CASE StartLauncher(t) \/ StopLauncher(t)
      <4>1. swork' = swork
        BY <3>1 DEF StartLauncher, StopLauncher
      <4> QED
        BY <1>1, <2>1, <2>3, <4>1, EvidenceKept DEF SupervisorTells
    <3>2. CASE LauncherGone(t)
      <4>1. swork' = [swork EXCEPT ![t] = [swork[t] EXCEPT !.event =
               IF launcher[t] = "returned" THEN t ELSE NONE]]
        BY <3>2 DEF LauncherGone
      <4>2. /\ swork'[t].mode = swork[t].mode /\ swork'[t].before = swork[t].before
            /\ swork'[t].event = IF launcher[t] = "returned" THEN t ELSE NONE
        BY <4>1 DEF TypeOK, Work
      <4>3. launcher[t] = "returned" => t \in Unclaimed
        BY <1>o, <2>3 DEF InOrder, Unclaimed
      <4>4. spc'[t] = "sweeping"
        BY <3>2 DEF LauncherGone, Goes, TypeOK
      <4> QED
        BY <2>3, <4>2, <4>3, <4>4, <1>1, EvidenceKept DEF SupervisorTells
    <3> QED
      BY <1>2, <3>1, <3>2
  <2> QED
    BY <1>1, <2>2, <2>4, ProcessInvSupervisor
<1>3. CASE Sweep(t)
  <2>1. /\ StopAttempt /\ spc[t] = "sweeping" /\ spc'[t] = "identifying"
        /\ UNCHANGED <<swork, launcher>>
    BY <1>3 DEF Sweep, Goes, TypeOK
  <2>2. \A a \in Token : InOrder(a)' /\ (Owned(a)' => Owned(a))
    <3>1. \A a \in Token \ {t} : InOrder(a)'
      BY <1>1, <2>1, SweepStops DEF ProcessInv, InOrder
    <3>2. InOrder(t)'
      BY <1>1, <1>o, <2>1, SweepStops DEF InOrder
    <3>3. \A a \in Token : Owned(a)' => Owned(a)
      BY <2>1, SweepStops DEF Owned
    <3> QED
      BY <3>1, <3>2, <3>3
  <2>3. ~AnyOwned'
    BY <2>1, SweepStops
  <2>4. SupervisorTells(t)'
    BY <1>1, <1>o, <2>1, <2>3, EvidenceKept DEF SupervisorTells
  <2> QED
    BY <1>1, <2>2, <2>4, ProcessInvSupervisor
<1> QED
  BY <1>2, <1>3

-----------------------------------------------------------------------------
(* The steps that write the ledger *)

\* The slot that is classified takes the name the reservations tell, of an attempt that has
\* stopped: what the slots tell is kept, and no reservation waits for its slot any more.
LEMMA SlotsTellClassified ==
  ASSUME TypeOK, LedgerInv, SlotsTell, UNCHANGED <<reserved, helper, monitor, worker>>,
         NEW i \in UnresolvedSlots(ledger), NEW e \in Event, Told(e),
         e # NONE => ~Owned(e),
         ledger' = Classify(ledger, i, e)
  PROVE  SlotsTell' /\ Unclaimed' = {}
<1>1. i \in DOMAIN ledger /\ ledger[i].class = Unresolved /\ ledger[i].event = NONE
  BY DEF UnresolvedSlots, SlotsOf, SlotsTell
<1>2. ledger \in Seq(Slot) /\ reserved \subseteq Token /\ NONE \notin Token
  BY ConstantsAssumption DEF TypeOK
<1>3. Claimed(ledger)' = Claimed(ledger) \cup ({e} \ {NONE})
  <2>1. Claimed(Classify(ledger, i, e)) = Claimed(ledger) \cup ({e} \ {NONE})
    BY <1>1, <1>2, ClassifyClaims
  <2> HIDE DEF Claimed, Classify
  <2>2. Claimed(ledger)' = Claimed(ledger')
    BY DEF Claimed
  <2> QED
    BY <2>1, <2>2
<1>4. Unclaimed' = {}
  BY <1>2, <1>3 DEF Told, Unclaimed, SlotsTell
<1>5. /\ DOMAIN ledger' = DOMAIN ledger
      /\ \A j \in DOMAIN ledger \ {i} : ledger'[j] = ledger[j]
      /\ ledger'[i].event = e
      /\ ledger'[i].class = IF e \in reserved THEN ExecutorReached ELSE PreExecutorFailure
  BY <1>1, <1>2, ClassifyEffect DEF Classify
<1>6. e # NONE => e \in reserved /\ e \notin Claimed(ledger)
  BY DEF Told, Unclaimed
<1>7. \A j \in DOMAIN ledger' :
        /\ ledger'[j].class = Unresolved => ledger'[j].event = NONE
        /\ ledger'[j].class = ExecutorReached => ledger'[j].event # NONE
  BY <1>2, <1>5, <1>6 DEF SlotsTell, Unresolved, ExecutorReached, PreExecutorFailure
<1>8. \A j, k \in DOMAIN ledger' :
        ledger'[j].event = ledger'[k].event /\ ledger'[j].event # NONE => j = k
  <2>1. \A j \in DOMAIN ledger : ledger[j].event # NONE => ledger[j].event \in Claimed(ledger)
    BY DEF Claimed
  <2>2. \A j \in DOMAIN ledger \ {i} : ledger[j].event # NONE => ledger[j].event # e
    BY <1>6, <2>1
  <2> QED
    BY <1>5, <2>2 DEF SlotsTell
<1>9. Claimed(ledger)' \subseteq reserved'
  BY <1>3, <1>6 DEF SlotsTell
<1>10. \A a \in Claimed(ledger)' : ~Owned(a)'
  BY <1>3 DEF SlotsTell, Owned
<1> HIDE DEF Unresolved, ExecutorReached
<1> QED
  BY <1>4, <1>7, <1>8, <1>9, <1>10 DEF SlotsTell

\* A supervisor that writes the ledger is alone, so what others know does not become stale.
LEMMA ProcessInvWrites ==
  ASSUME TypeOK, SupervisionInv, ProcessInv, NEW t \in Token, Acting(t),
         UNCHANGED <<reserved, launcher, helper, monitor, worker, active>>, UNCHANGED callerVars,
         \A u \in Token \ {t} : spc'[u] = spc[u] /\ swork'[u] = swork[u],
         launcher[t] = "none" \/ (spc'[t] = "closing" /\ ~Launching(t)), spc'[t] # "polling",
         SlotsTell', SupervisorTells(t)'
  PROVE  ProcessInv'
<1>1. active # NONE /\ active.token = t /\ \A c \in Caller : ~FoundOrphaned(c)
  BY ActingAlone
<1>2. \A u \in Token \ {t} : ~Acting(u)'
  BY ActingAlone DEF Acting, Live
<1>3. \A u \in Token \ {t} : SupervisorTells(u)'
  BY <1>2 DEF SupervisorTells, Acting, Live, LiveState, SupervisorState
<1>4. \A c \in Caller : CallerTells(c)'
  BY <1>1 DEF CallerTells, FoundOrphaned, Recovering, callerVars
<1>5. RecordTells'
  BY <1>1 DEF ProcessInv, RecordTells
<1>6. \A a \in Token : InOrder(a)'
  BY InOrderKept
<1> QED
  BY <1>3, <1>4, <1>5, <1>6 DEF ProcessInv

LEMMA ProcessInvMoves ==
  ASSUME TypeOK, SupervisionInv, LedgerInv, ProcessInv, NEW t \in Token,
         ReserveSlot(t) \/ LauncherNotCreated(t) \/ ClassifySlot(t)
  PROVE  ProcessInv'
<1>1. /\ UNCHANGED <<reserved, launcher, helper, monitor, worker, active>>
      /\ UNCHANGED callerVars
      /\ \A u \in Token \ {t} : spc'[u] = spc[u] /\ swork'[u] = swork[u]
  BY DEF ReserveSlot, LauncherNotCreated, ClassifySlot, Goes, callerVars, procVars, evidenceVars,
         TypeOK
<1>2. Acting(t) /\ smem[t] = ledger
  BY DEF LedgerInv, ReserveSlot, LauncherNotCreated, ClassifySlot, Goes, Acting, Live, LiveState,
         SupervisorState
<1>3. InOrder(t) /\ SupervisorTells(t) /\ SlotsTell /\ ledger \in Seq(Slot)
  BY DEF ProcessInv, TypeOK
<1>4. CASE ReserveSlot(t)
  <2>1. /\ spc[t] = "admitted" /\ spc'[t] = "reserved" /\ ledger' = Reserve(ledger)
        /\ swork' = [swork EXCEPT ![t] = [swork[t] EXCEPT !.slot = Len(ledger) + 1]]
    BY <1>2, <1>4 DEF ReserveSlot, Goes, TypeOK
  <2>2. /\ swork'[t].mode = swork[t].mode /\ swork'[t].event = swork[t].event
        /\ swork'[t].before = swork[t].before
    BY <2>1 DEF TypeOK, Work
  <2>3. Claimed(ledger)' = Claimed(ledger)
    <3>1. Claimed(Reserve(ledger)) = Claimed(ledger)
      BY <1>3, ReserveClaims
    <3>2. Claimed(ledger)' = Claimed(ledger')
      BY DEF Claimed
    <3> QED
      BY <2>1, <3>1, <3>2
  <2>4. Unclaimed = {} /\ Unclaimed' = Unclaimed
    BY <1>1, <1>3, <2>1, <2>3 DEF SupervisorTells, Unclaimed
  <2>5. SlotsTell'
    <3>1. /\ DOMAIN ledger' = DOMAIN ledger \cup {Len(ledger) + 1}
          /\ Len(ledger) + 1 \notin DOMAIN ledger
          /\ \A i \in DOMAIN ledger : ledger'[i] = ledger[i]
          /\ ledger'[Len(ledger) + 1] = [class |-> Unresolved, event |-> NONE]
      <4>1. Len(ledger) \in Nat /\ DOMAIN ledger = 1 .. Len(ledger)
        BY <1>3, LenProperties
      <4>2. DOMAIN ledger' = 1 .. (Len(ledger) + 1)
        BY <1>3, <2>1, ReserveTyped, LenProperties
      <4>3. /\ 1 .. (Len(ledger) + 1) = (1 .. Len(ledger)) \cup {Len(ledger) + 1}
            /\ Len(ledger) + 1 \notin 1 .. Len(ledger)
        BY <4>1
      <4>4. /\ \A i \in 1 .. Len(ledger) : ledger'[i] = ledger[i]
            /\ ledger'[Len(ledger) + 1] = [class |-> Unresolved, event |-> NONE]
        BY <1>3, <2>1, ReserveTyped
      <4> HIDE DEF Unresolved
      <4> QED
        BY <4>1, <4>2, <4>3, <4>4
    <3>2. \A i \in DOMAIN ledger' :
            /\ ledger'[i].class = Unresolved => ledger'[i].event = NONE
            /\ ledger'[i].class = ExecutorReached => ledger'[i].event # NONE
      BY <1>3, <3>1 DEF SlotsTell, Unresolved, ExecutorReached
    <3>3. \A i, j \in DOMAIN ledger' :
            ledger'[i].event = ledger'[j].event /\ ledger'[i].event # NONE => i = j
      BY <1>3, <3>1 DEF SlotsTell
    <3>4. \A a \in Claimed(ledger)' : ~Owned(a)'
      BY <1>1, <1>3, <2>3 DEF SlotsTell, Owned
    <3>5. Claimed(ledger)' \subseteq reserved'
      BY <1>1, <1>3, <2>3 DEF SlotsTell
    <3> HIDE DEF Unresolved, ExecutorReached
    <3> QED
      BY <2>4, <3>2, <3>3, <3>4, <3>5 DEF SlotsTell
  <2>6. SupervisorTells(t)'
    BY <1>3, <2>1, <2>2, <2>3, <2>4 DEF SupervisorTells
  <2>7. launcher[t] = "none" \/ (spc'[t] = "closing" /\ ~Launching(t))
    BY <1>3, <2>1 DEF InOrder
  <2>8. spc'[t] # "polling"
    BY <2>1
  <2> QED
    BY <1>1, <1>2, <2>5, <2>6, <2>7, <2>8, ProcessInvWrites
<1>5. CASE LauncherNotCreated(t) \/ ClassifySlot(t)
  <2>1. PICK e \in Event :
          /\ ledger' = Classify(ledger, swork[t].slot, e)
          /\ spc'[t] = "closing" /\ Told(e)
          /\ e # NONE => ~Owned(e)
          /\ launcher[t] = "none" \/ (spc'[t] = "closing" /\ ~Launching(t))
          /\ Holding(t)
    <3>1. CASE LauncherNotCreated(t)
      <4>1. spc[t] = "reserved" /\ spc'[t] = "closing" /\ ledger' = Classify(ledger, swork[t].slot, NONE)
        BY <1>2, <3>1 DEF LauncherNotCreated, Goes, WriteClass, TypeOK
      <4>2. Told(NONE) /\ launcher[t] = "none"
        BY <1>3, <4>1 DEF SupervisorTells, InOrder, Told
      <4>3. NONE \in Event
        BY DEF Event
      <4> QED
        BY <4>1, <4>2, <4>3 DEF Holding
    <3>2. CASE ClassifySlot(t)
      <4>1. /\ spc[t] = "finalizing" /\ spc'[t] = "closing"
            /\ ledger' = Classify(ledger, swork[t].slot, swork[t].event)
        BY <1>2, <3>2 DEF ClassifySlot, Goes, WriteClass, TypeOK
      <4>2. Told(swork[t].event) /\ ~AnyOwned
        BY <1>3, <4>1 DEF SupervisorTells
      <4>3. ~Launching(t)
        BY <1>3, <4>1 DEF InOrder, Launching
      <4>4. swork[t].event \in Event
        BY DEF TypeOK, Work
      <4>5. swork[t].event # NONE => ~Owned(swork[t].event)
        BY <4>2, <4>4 DEF AnyOwned, Event
      <4> QED
        BY <4>1, <4>2, <4>3, <4>4, <4>5 DEF Holding
    <3> QED
      BY <1>5, <3>1, <3>2
  <2>2. swork[t].slot \in UnresolvedSlots(ledger)
    BY <2>1 DEF LedgerInv
  <2>3. SlotsTell'
    BY <1>1, <1>3, <2>1, <2>2, SlotsTellClassified
  <2>4. SupervisorTells(t)'
    BY <2>1 DEF SupervisorTells
  <2>5. /\ launcher[t] = "none" \/ (spc'[t] = "closing" /\ ~Launching(t))
        /\ spc'[t] # "polling"
    BY <2>1
  <2> QED
    BY <1>1, <1>2, <2>3, <2>4, <2>5, ProcessInvWrites
<1> QED
  BY <1>4, <1>5

\* Recovery's classification: what it found is what the reservations tell, and nothing runs.
LEMMA ProcessInvFinalize ==
  ASSUME TypeOK, SupervisionInv, LedgerInv, ProcessInv, NEW c \in Caller, FinalizeClassify(c)
  PROVE  ProcessInv'
<1>1. /\ UNCHANGED <<reserved, spc, swork, launcher, helper, monitor, worker, active>>
      /\ cpc[c] = "classifying" /\ cpc'[c] \in {"idle", "concluding"}
      /\ \A d \in Caller \ {c} : cpc'[d] = cpc[d]
      /\ ledger' = Classify(cplan[c].slots, PendingSlot(cplan[c]), FoundEvent(cplan[c]))
  BY DEF FinalizeClassify, Return, supVars, procVars, evidenceVars, TypeOK
<1>2. cplan[c].slots = ledger /\ PendingSlot(cplan[c]) \in UnresolvedSlots(ledger)
  BY <1>1, PendingSlotIn DEF LedgerInv
<1>3. cplan[c].found = Unclaimed /\ ~AnyOwned
  BY <1>1 DEF ProcessInv, CallerTells
<1>4. FoundEvent(cplan[c]) \in Event /\ Told(FoundEvent(cplan[c]))
  <2>1. Unclaimed \subseteq Token /\ NONE \notin Token
    BY ConstantsAssumption DEF Unclaimed, TypeOK
  <2>2. Unclaimed # {} => (CHOOSE a \in Unclaimed : TRUE) \in Unclaimed
    OBVIOUS
  <2> QED
    BY <1>3, <2>1, <2>2 DEF FoundEvent, Told, Event
<1>5. FoundEvent(cplan[c]) # NONE => ~Owned(FoundEvent(cplan[c]))
  BY <1>3, <1>4 DEF AnyOwned, Event
<1>6. SlotsTell'
  BY <1>1, <1>2, <1>4, <1>5, SlotsTellClassified DEF ProcessInv
<1>7. lock = c /\ Orphaned
  BY <1>1 DEF SupervisionInv, InLockedSection, FoundOrphaned, Recovering
<1>8. \A d \in Caller : CallerTells(d)'
  <2>1. \A d \in Caller \ {c} : ~InLockedSection(d)
    BY <1>7 DEF SupervisionInv
  <2> QED
    BY <1>1, <2>1 DEF CallerTells, InLockedSection
<1>9. \A t \in Token : ~Acting(t)
  BY <1>7 DEF SupervisionInv, Orphaned, Owns, Acting
<1>10. \A t \in Token : SupervisorTells(t)'
  BY <1>1, <1>9 DEF SupervisorTells, Acting, Live, LiveState, SupervisorState
<1>11. RecordTells'
  BY <1>1, <1>7 DEF ProcessInv, RecordTells, Orphaned, Live, LiveState, SupervisorState
<1>12. \A a \in Token : InOrder(a)'
  BY <1>1 DEF ProcessInv, InOrder
<1> QED
  BY <1>6, <1>8, <1>10, <1>11, <1>12 DEF ProcessInv

-----------------------------------------------------------------------------
(* The callers *)

\* The supervisor a caller creates has run nothing yet.
LEMMA ProcessInvSpawn ==
  ASSUME TypeOK, SupervisionInv, ProcessInv, NEW c \in Caller, NEW mode, NEW slot, NEW event,
         Spawn(c, mode, slot, event),
         mode = "launch" => event = NONE, mode = "adopt" => Told(event)
  PROVE  ProcessInv'
<1>1. PICK t \in Token :
        /\ spc[t] = "unborn"
        /\ spc' = [spc EXCEPT ![t] = "polling"]
        /\ cpc' = [cpc EXCEPT ![c] = "recording"]
        /\ \E r : r.mode = mode /\ r.event = event /\ cseen' = [cseen EXCEPT ![c] = r]
        /\ UNCHANGED <<cplan, active, ledger, swork, reserved>>
        /\ UNCHANGED <<launcher, helper, monitor, worker>>
  BY DEF Spawn, fileVars, procVars, evidenceVars
<1>2. /\ \A u \in Token \ {t} : spc'[u] = spc[u]
      /\ spc'[t] = "polling"
      /\ \A d \in Caller \ {c} : cpc'[d] = cpc[d] /\ cseen'[d] = cseen[d]
      /\ cpc'[c] = "recording" /\ cseen'[c].mode = mode /\ cseen'[c].event = event
  BY <1>1 DEF TypeOK
<1>3. \A a \in Token : InOrder(a)' /\ (Owned(a)' <=> Owned(a))
  BY <1>1, <1>2 DEF ProcessInv, InOrder, Owned
<1>4. SlotsTell'
  BY <1>1, <1>3, SlotsTellKept DEF ProcessInv
<1>5. AnyOwned' <=> AnyOwned
  BY <1>3 DEF AnyOwned
<1>6. \A u \in Token : SupervisorTells(u)'
  BY <1>1, <1>2, <1>5, EvidenceKept DEF ProcessInv, SupervisorTells
<1>7. \A d \in Caller : CallerTells(d)'
  <2>1. \A d \in Caller \ {c} : CallerTells(d)'
    BY <1>1, <1>2, <1>5, EvidenceKept DEF ProcessInv, CallerTells
  <2>2. CallerTells(c)'
    BY <1>1, <1>2, EvidenceKept DEF CallerTells
  <2> QED
    BY <2>1, <2>2
<1>8. RecordTells'
  <2>1. active # NONE => active.token \in Token /\ active.token # t
    BY <1>1 DEF SupervisionInv, TypeOK, Record
  <2> QED
    BY <1>1, <1>2, <2>1, EvidenceKept DEF ProcessInv, RecordTells
<1> QED
  BY <1>3, <1>4, <1>6, <1>7, <1>8 DEF ProcessInv

LEMMA ProcessInvContinue ==
  ASSUME TypeOK, SupervisionInv, ProcessInv, NEW c \in Caller, ContinueStep(c)
  PROVE  ProcessInv'
<1> USE DEF fileVars, supVars, procVars, evidenceVars
<1>1. CASE Attach(c) \/ Propose(c) \/ TakeLaunchLock(c)
  BY <1>1, ProcessInvAdvance DEF Attach, Propose, TakeLaunchLock, TypeOK, CallerTells
<1>2. CASE AttachOrRefuse(c) \/ Await(c) \/ CallerDies(c)
  BY <1>2, ProcessInvAdvance DEF AttachOrRefuse, Await, CallerDies, Return, TypeOK, CallerTells
<1>3. CASE SpawnLaunch(c)
  <2>1. Spawn(c, "launch", 0, NONE)
    BY <1>3 DEF SpawnLaunch
  <2> QED
    BY <2>1, ProcessInvSpawn
<1>4. CASE RecordSpawn(c)
  <2>1. /\ cpc[c] = "recording" /\ active' = cseen[c] /\ cpc' = [cpc EXCEPT ![c] = "waiting"]
        /\ UNCHANGED <<ledger, reserved, spc, swork, launcher, helper, monitor, worker>>
        /\ UNCHANGED <<cseen, cplan>>
    BY <1>4 DEF RecordSpawn
  <2>2. \A a \in Token : InOrder(a)' /\ (Owned(a)' <=> Owned(a))
    BY <2>1 DEF ProcessInv, InOrder, Owned
  <2>3. SlotsTell'
    BY <2>1, <2>2, SlotsTellKept DEF ProcessInv
  <2>4. AnyOwned' <=> AnyOwned
    BY <2>2 DEF AnyOwned
  <2>5. \A u \in Token : SupervisorTells(u)'
    BY <2>1, <2>4, EvidenceKept DEF ProcessInv, SupervisorTells
  <2>6. \A d \in Caller : cpc'[d] # "waiting" => cpc'[d] = cpc[d]
    BY <2>1 DEF TypeOK
  <2>7. \A d \in Caller : CallerTells(d)'
    BY <2>1, <2>4, <2>6, EvidenceKept DEF ProcessInv, CallerTells
  <2>8. RecordTells'
    <3>1. CallerTells(c)
      BY DEF ProcessInv
    <3> QED
      BY <2>1, <3>1, EvidenceKept DEF CallerTells, RecordTells
  <2> QED
    BY <2>2, <2>3, <2>5, <2>7, <2>8 DEF ProcessInv
<1> QED
  BY <1>1, <1>2, <1>3, <1>4 DEF ContinueStep

LEMMA ProcessInvRecover ==
  ASSUME CleanLoss, TypeOK, SupervisionInv, LedgerInv, ProcessInv, NEW c \in Caller,
         RecoverStep(c)
  PROVE  ProcessInv'
<1> USE DEF fileVars, supVars, procVars, evidenceVars
<1>0. CallerTells(c)
  BY DEF ProcessInv
<1>1. CASE TakeRecoverLock(c) \/ ArchiveRecord(c) \/ ConcludeLost(c)
  BY <1>1, ProcessInvAdvance DEF TakeRecoverLock, ArchiveRecord, ConcludeLost, TypeOK, CallerTells
<1>2. CASE ReadEvidence(c)
  <2>1. cpc'[c] = "scanning" /\ cplan'[c].found = Unclaimed
    BY <1>2 DEF ReadEvidence, TypeOK, Unclaimed
  <2>2. UNCHANGED <<ledger, reserved>>
    BY <1>2 DEF ReadEvidence
  <2>3. CallerTells(c)'
    BY <2>1, <2>2, EvidenceKept DEF CallerTells
  <2> QED
    BY <1>2, <2>3, ProcessInvAdvance DEF ReadEvidence, TypeOK
<1>3. CASE NothingToApply(c) \/ UnlinkLost(c)
  BY <1>3, ProcessInvAdvance DEF NothingToApply, UnlinkLost, Return, TypeOK, CallerTells
<1>4. CASE Adopt(c)
  <2>1. cplan[c].found = Unclaimed
    BY <1>0, <1>4 DEF Adopt, CallerTells
  <2>2. Told(FoundEvent(cplan[c]))
    <3>1. Unclaimed \subseteq Token /\ NONE \notin Token
      BY ConstantsAssumption DEF Unclaimed, TypeOK
    <3>2. Unclaimed # {} => (CHOOSE a \in Unclaimed : TRUE) \in Unclaimed
      OBVIOUS
    <3> QED
      BY <2>1, <3>1, <3>2 DEF FoundEvent, Told
  <2>3. Spawn(c, "adopt", PendingSlot(cplan[c]), FoundEvent(cplan[c]))
    BY <1>4 DEF Adopt
  <2> QED
    BY <2>2, <2>3, ProcessInvSpawn
<1>5. CASE Finalize(c)
  <2>1. /\ cpc[c] = "scanning" /\ ~cplan[c].live /\ cpc'[c] = "sweeping"
        /\ cplan' = [cplan EXCEPT ![c] = [cplan[c] EXCEPT !.slots = ledger]]
        /\ UNCHANGED <<ledger, reserved>>
    BY <1>5 DEF Finalize, TypeOK
  <2>2. cplan'[c].found = cplan[c].found
    BY <2>1 DEF TypeOK, Plan
  <2>3. CallerTells(c)'
    BY <1>0, <2>1, <2>2, EvidenceKept DEF CallerTells
  <2> QED
    BY <1>5, <2>3, ProcessInvAdvance DEF Finalize, TypeOK
<1>6. CASE FinalizeSweep(c)
  <2>1. /\ StopAttempt /\ cpc[c] = "sweeping" /\ cpc' = [cpc EXCEPT ![c] = "classifying"]
        /\ UNCHANGED <<cplan, cseen, active, ledger, reserved, spc, swork, launcher>>
    BY <1>6 DEF FinalizeSweep
  <2>2. /\ \A d \in Caller \ {c} : cpc'[d] = cpc[d]
        /\ cpc'[c] = "classifying"
    BY <2>1 DEF TypeOK
  <2>3. ~AnyOwned' /\ \A a \in Token : Owned(a)' => Owned(a)
    BY <2>1, SweepStops DEF Owned
  <2>4. \A a \in Token : InOrder(a)'
    BY <2>1, SweepStops DEF ProcessInv, InOrder
  <2>5. SlotsTell'
    BY <2>1, <2>3, SlotsTellKept DEF ProcessInv
  <2>6. \A u \in Token : SupervisorTells(u)'
    BY <2>1, <2>3, EvidenceKept DEF ProcessInv, SupervisorTells
  <2>7. \A d \in Caller : CallerTells(d)'
    BY <2>1, <2>2, <2>3, EvidenceKept DEF ProcessInv, CallerTells
  <2>8. RecordTells'
    BY <2>1, EvidenceKept DEF ProcessInv, RecordTells
  <2> QED
    BY <2>4, <2>5, <2>6, <2>7, <2>8 DEF ProcessInv
<1>7. CASE FinalizeClassify(c)
  BY <1>7, ProcessInvFinalize
<1> QED
  BY <1>1, <1>2, <1>3, <1>4, <1>5, <1>6, <1>7 DEF RecoverStep

-----------------------------------------------------------------------------
(* The processes of an attempt *)

\* An attempt's step that reserves nothing: what starts is of an attempt whose supervisor runs it,
\* and that no slot names.
LEMMA ProcessInvAttempt ==
  ASSUME TypeOK, SupervisionInv, ProcessInv, NEW a \in Token, UNCHANGED reserved,
         UNCHANGED fileVars, UNCHANGED callerVars, UNCHANGED supVars,
         \A b \in Token : InOrder(b)',
         \A b \in Token : Owned(b)' => Owned(b) \/ (b \notin reserved /\ spc[b] = "running")
  PROVE  ProcessInv'
<1> USE DEF fileVars, callerVars, supVars
<1>1. SlotsTell'
  BY SlotsTellKept DEF ProcessInv
<1>2. CASE AnyOwned' => AnyOwned
  <2>1. \A t \in Token : SupervisorTells(t)'
    BY <1>2, EvidenceKept DEF ProcessInv, SupervisorTells
  <2>2. \A c \in Caller : CallerTells(c)'
    BY <1>2, EvidenceKept DEF ProcessInv, CallerTells
  <2>3. RecordTells'
    BY EvidenceKept DEF ProcessInv, RecordTells
  <2> QED
    BY <1>1, <2>1, <2>2, <2>3 DEF ProcessInv
<1>3. CASE ~(AnyOwned' => AnyOwned)
  <2>1. PICK b \in Token : spc[b] = "running"
    BY <1>3 DEF AnyOwned
  <2>2. Acting(b)
    BY <2>1 DEF Acting, Live, LiveState, SupervisorState
  <2>3. /\ \A t \in Token \ {b} : ~Acting(t)
        /\ \A c \in Caller : ~FoundOrphaned(c)
    BY <2>2, ActingAlone
  <2>4. \A t \in Token : spc[t] \notin {"identifying", "finalizing"}
    BY <2>1, <2>3 DEF Acting, Live, LiveState, SupervisorState
  <2>5. \A t \in Token : SupervisorTells(t)'
    BY <2>4, EvidenceKept DEF ProcessInv, SupervisorTells
  <2>6. \A c \in Caller : CallerTells(c)'
    BY <2>3, EvidenceKept DEF ProcessInv, CallerTells, FoundOrphaned, Recovering
  <2>7. RecordTells'
    BY EvidenceKept DEF ProcessInv, RecordTells
  <2> QED
    BY <1>1, <2>5, <2>6, <2>7 DEF ProcessInv
<1> QED
  BY <1>2, <1>3

\* The reservation of the attempt that is being launched: it waits for its supervisor's slot.
LEMMA ProcessInvReserves ==
  ASSUME TypeOK, SupervisionInv, LedgerInv, ProcessInv, NEW a \in Token, HelperReserves(a)
  PROVE  ProcessInv'
<1>1. /\ helper[a] = "running" /\ reserved' = reserved \cup {a} /\ a \notin reserved
      /\ UNCHANGED <<ledger, active, spc, swork, launcher, helper, monitor, worker>>
      /\ UNCHANGED callerVars
  BY DEF HelperReserves, fileVars, supVars, procVars
<1>2. spc[a] \in {"running", "sweeping"} /\ swork[a].mode = "launch"
  BY <1>1 DEF ProcessInv, InOrder
<1>3. /\ Acting(a) /\ Holding(a)
      /\ UnresolvedSlots(ledger) # {}
  BY <1>2 DEF LedgerInv, Holding, Acting, Live, LiveState, SupervisorState
<1>4. /\ active # NONE /\ active.token = a
      /\ \A t \in Token \ {a} : ~Acting(t)
      /\ \A c \in Caller : ~FoundOrphaned(c)
  BY <1>3, ActingAlone
<1>5. a \notin Claimed(ledger) /\ Unclaimed \subseteq {a} /\ SupervisorTells(a)
  BY <1>2 DEF ProcessInv, SupervisorTells
<1>6. Claimed(ledger)' = Claimed(ledger) /\ Unclaimed' = Unclaimed \cup {a}
  BY <1>1, <1>5 DEF Claimed, Unclaimed
<1>7. SlotsTell'
  <2>1. UnresolvedSlots(ledger)' = UnresolvedSlots(ledger)
    BY <1>1 DEF UnresolvedSlots, SlotsOf
  <2>2. \A b \in Claimed(ledger)' : ~Owned(b)'
    BY <1>1, <1>6 DEF ProcessInv, SlotsTell, Owned
  <2> HIDE DEF Unresolved, ExecutorReached
  <2> QED
    BY <1>1, <1>3, <1>5, <1>6, <2>1, <2>2 DEF ProcessInv, SlotsTell
<1>8. SupervisorTells(a)'
  BY <1>1, <1>2, <1>5, <1>6 DEF SupervisorTells
<1>9. \A t \in Token \ {a} : SupervisorTells(t)'
  BY <1>1, <1>4 DEF SupervisorTells, Acting, Live, LiveState, SupervisorState
<1>10. \A c \in Caller : CallerTells(c)'
  BY <1>4, <1>1 DEF CallerTells, FoundOrphaned, Recovering, callerVars
<1>11. RecordTells'
  BY <1>1, <1>2, <1>4 DEF ProcessInv, RecordTells
<1>12. \A b \in Token : InOrder(b)'
  BY <1>1 DEF ProcessInv, InOrder
<1> QED
  BY <1>7, <1>8, <1>9, <1>10, <1>11, <1>12 DEF ProcessInv

LEMMA ProcessInvAttempts ==
  ASSUME TypeOK, SupervisionInv, LedgerInv, ProcessInv, NEW a \in Token, AttemptStep(a)
  PROVE  ProcessInv'
<1> USE DEF ProcessInv
<1>1. CASE HelperReserves(a)
  BY <1>1, ProcessInvReserves
<1>2. CASE StartHelper(a)
  <2>1. /\ launcher[a] = "preparing" /\ launcher' = [launcher EXCEPT ![a] = "awaiting"]
        /\ helper' = [helper EXCEPT ![a] = "running"]
        /\ UNCHANGED <<monitor, worker, reserved, spc, swork>>
        /\ UNCHANGED fileVars /\ UNCHANGED callerVars /\ UNCHANGED supVars
    BY <1>2 DEF StartHelper, supVars, evidenceVars
  <2>2. InOrder(a) /\ SupervisorTells(a) /\ spc[a] = "running" /\ helper[a] = "none"
    BY <2>1 DEF InOrder
  <2>3. a \notin reserved /\ swork[a].mode = "launch"
    BY <2>2 DEF InOrder, SupervisorTells
  <2>4. InOrder(a)'
    BY <2>1, <2>2, <2>3 DEF InOrder, TypeOK
  <2>5. \A b \in Token \ {a} : InOrder(b)'
    BY <2>1 DEF InOrder, TypeOK
  <2>6. \A b \in Token : Owned(b)' => Owned(b) \/ (b \notin reserved /\ spc[b] = "running")
    BY <2>1, <2>2, <2>3 DEF Owned, TypeOK
  <2> QED
    BY <2>1, <2>4, <2>5, <2>6, ProcessInvAttempt
<1>3. CASE ~HelperReserves(a) /\ ~StartHelper(a)
  <2>1. /\ UNCHANGED <<reserved, spc, swork>>
        /\ UNCHANGED fileVars /\ UNCHANGED callerVars /\ UNCHANGED supVars
    BY <1>3 DEF AttemptStep, PrepareFails, HelperFails, HelperDetaches, LauncherBinds,
                LauncherReturns, MonitorStartsWorker, WorkerEnds, MonitorConcludes, MonitorGivesUp,
                supVars, evidenceVars
  <2>2. \A b \in Token \ {a} : /\ launcher'[b] = launcher[b] /\ helper'[b] = helper[b]
                               /\ monitor'[b] = monitor[b] /\ worker'[b] = worker[b]
    BY <1>3 DEF AttemptStep, PrepareFails, HelperFails, HelperDetaches, LauncherBinds,
                LauncherReturns, MonitorStartsWorker, WorkerEnds, MonitorConcludes, MonitorGivesUp,
                TypeOK
  <2>3. InOrder(a)' /\ (Owned(a)' => Owned(a))
    <3>0. InOrder(a)
      OBVIOUS
    <3>1. CASE PrepareFails(a)
      BY <2>1, <3>0, <3>1 DEF PrepareFails, InOrder, Owned, TypeOK
    <3>2. CASE HelperFails(a) \/ HelperDetaches(a)
      BY <2>1, <3>0, <3>2 DEF HelperFails, HelperDetaches, InOrder, Owned, TypeOK
    <3>3. CASE LauncherBinds(a) \/ LauncherReturns(a)
      BY <2>1, <3>0, <3>3 DEF LauncherBinds, LauncherReturns, InOrder, Owned, TypeOK
    <3>4. CASE MonitorStartsWorker(a) \/ WorkerEnds(a) \/ MonitorConcludes(a) \/ MonitorGivesUp(a)
      BY <2>1, <3>0, <3>4 DEF MonitorStartsWorker, WorkerEnds, MonitorConcludes, MonitorGivesUp,
                              InOrder, Owned, TypeOK
    <3> QED
      BY <1>3, <3>1, <3>2, <3>3, <3>4 DEF AttemptStep
  <2>4. \A b \in Token \ {a} : InOrder(b)' /\ (Owned(b)' => Owned(b))
    BY <2>1, <2>2 DEF InOrder, Owned
  <2> QED
    BY <2>1, <2>3, <2>4, ProcessInvAttempt
<1> QED
  BY <1>1, <1>2, <1>3

-----------------------------------------------------------------------------
(* The invariant holds *)

\* The reservations always name the attempt of the slot that is still to be classified, nothing
\* runs of the attempt a slot names, and supervisors, recoveries and the record agree.
LEMMA ProcessInvHolds ==
  ASSUME CleanLoss
  PROVE  Spec => []ProcessInv
<1>1. Init => ProcessInv
  <2> SUFFICES ASSUME Init
               PROVE  ProcessInv
    OBVIOUS
  <2>1. ledger = <<>> /\ DOMAIN ledger = {}
    BY EmptySeq DEF Init
  <2>2. Claimed(ledger) = {} /\ Unclaimed = {}
    BY <2>1 DEF Init, Claimed, Unclaimed
  <2>3. \A a \in Token : InOrder(a) /\ SupervisorTells(a)
    BY DEF Init, InOrder, SupervisorTells
  <2>4. SlotsTell
    BY <2>1, <2>2 DEF SlotsTell
  <2> QED
    BY <2>3, <2>4 DEF Init, ProcessInv, CallerTells, RecordTells
<1>2. TypeOK /\ SupervisionInv /\ LedgerInv /\ ProcessInv /\ [Next]_vars => ProcessInv'
  <2> SUFFICES ASSUME TypeOK, SupervisionInv, LedgerInv, ProcessInv, [Next]_vars
               PROVE  ProcessInv'
    OBVIOUS
  <2>1. ASSUME NEW c \in Caller, ContinueStep(c) \/ RecoverStep(c)
        PROVE  ProcessInv'
    BY <2>1, ProcessInvContinue, ProcessInvRecover
  <2>2. ASSUME NEW t \in Token, SuperviseStep(t) \/ Raise(t) \/ Lose(t)
        PROVE  ProcessInv'
    BY <2>2, ProcessInvWaits, ProcessInvLaunches, ProcessInvMoves, ProcessInvLost
    DEF SuperviseStep
  <2>3. ASSUME NEW a \in Token, AttemptStep(a)
        PROVE  ProcessInv'
    BY <2>3, ProcessInvAttempts
  <2>4. CASE HostRestart
    <3>1. /\ UNCHANGED <<ledger, active, reserved>>
          /\ \A c \in Caller : cpc'[c] = "idle"
          /\ \A t \in Token : spc'[t] \in {"unborn", "gone"}
          /\ \A t \in Token : spc'[t] = "unborn" <=> spc[t] = "unborn"
      BY <2>4 DEF HostRestart, fileVars, evidenceVars, Live, LiveState, SupervisorState, TypeOK
    <3>2. \A a \in Token :
            /\ launcher'[a] = IF launcher[a] = "none" THEN "none" ELSE "exited"
            /\ helper'[a] = IF helper[a] = "none" THEN "none" ELSE "exited"
            /\ monitor'[a] = IF monitor[a] = "none" THEN "none" ELSE "exited"
            /\ worker'[a] = IF worker[a] = "none" THEN "none" ELSE "exited"
      BY <2>4 DEF HostRestart
    <3>3. \A a \in Token : InOrder(a)'
      BY <3>1, <3>2 DEF ProcessInv, InOrder
    <3>4. \A a \in Token : ~Owned(a)'
      BY <3>2 DEF Owned
    <3>5. SlotsTell'
      BY <3>1, <3>4, SlotsTellKept DEF ProcessInv
    <3>6. \A t \in Token : SupervisorTells(t)'
      BY <3>1 DEF SupervisorTells
    <3>7. \A c \in Caller : CallerTells(c)'
      BY <3>1 DEF CallerTells
    <3>8. RecordTells'
      <4>1. active # NONE => active.token \in Token
        BY DEF TypeOK, Record
      <4> QED
        BY <3>1, <4>1 DEF ProcessInv, RecordTells
    <3> QED
      BY <3>3, <3>5, <3>6, <3>7, <3>8 DEF ProcessInv
  <2>5. CASE UNCHANGED vars
    <3> USE <2>5 DEF vars, fileVars, callerVars, supVars, procVars, evidenceVars
    <3>1. \A a \in Token : InOrder(a)' /\ (Owned(a)' <=> Owned(a))
      BY DEF ProcessInv, InOrder, Owned
    <3>2. AnyOwned' <=> AnyOwned
      BY <3>1 DEF AnyOwned
    <3>3. SlotsTell'
      BY <3>1, SlotsTellKept DEF ProcessInv
    <3>4. \A t \in Token : SupervisorTells(t)'
      BY <3>2, EvidenceKept DEF ProcessInv, SupervisorTells
    <3>5. \A c \in Caller : CallerTells(c)'
      BY <3>2, EvidenceKept DEF ProcessInv, CallerTells
    <3>6. RecordTells'
      BY EvidenceKept DEF ProcessInv, RecordTells
    <3> QED
      BY <3>1, <3>3, <3>4, <3>5, <3>6 DEF ProcessInv
  <2> QED
    BY <2>1, <2>2, <2>3, <2>4, <2>5 DEF Next
<1>3. SpawnPsMayFail = FALSE
  BY DEF CleanLoss
<1> QED
  BY <1>1, <1>2, <1>3, TypeCorrect, SupervisionInvHolds, LedgerInvHolds, PTL DEF Spec

-----------------------------------------------------------------------------
(* What follows *)

\* A pre-executor failure is never recorded of an attempt that was reserved: every reservation is
\* claimed by a slot, or waits for the one that is unresolved.
THEOREM PreExecutorFailureIsTrue ==
  ASSUME CleanLoss
  PROVE  Spec => []PreExecutorIsTrue
<1>1. TypeOK /\ ProcessInv => PreExecutorIsTrue
  <2> SUFFICES ASSUME TypeOK, ProcessInv
               PROVE  PreExecutorIsTrue
    OBVIOUS
  <2>1. IsFiniteSet(UnresolvedSlots(ledger)) /\ Cardinality(UnresolvedSlots(ledger)) \in Nat
    <3>1. ledger \in Seq(Slot)
      BY DEF TypeOK
    <3>2. Len(ledger) \in Nat /\ DOMAIN ledger = 1 .. Len(ledger)
      BY <3>1, LenProperties
    <3>3. IsFiniteSet(1 .. Len(ledger))
      BY <3>2, FS_Interval
    <3>4. UnresolvedSlots(ledger) \subseteq 1 .. Len(ledger)
      BY <3>2 DEF UnresolvedSlots, SlotsOf
    <3> QED
      BY <3>3, <3>4, FS_Subset, FS_CardinalityType
  <2>2. CASE Unclaimed = {}
    <3>1. Cardinality(Unclaimed) = 0
      BY <2>2, FS_EmptySet
    <3> QED
      BY <2>1, <3>1 DEF PreExecutorIsTrue, Unclaimed
  <2>3. CASE Unclaimed # {}
    <3>1. PICK a \in Unclaimed : TRUE
      BY <2>3
    <3>2. Unclaimed = {a}
      BY <3>1 DEF ProcessInv, SlotsTell
    <3>3. Cardinality(Unclaimed) = 1
      BY <3>2, FS_Singleton
    <3>4. UnresolvedSlots(ledger) # {}
      BY <2>3 DEF ProcessInv, SlotsTell
    <3>5. Cardinality(UnresolvedSlots(ledger)) # 0
      BY <2>1, <3>4, FS_EmptySet
    <3> QED
      BY <2>1, <3>3, <3>5 DEF PreExecutorIsTrue, Unclaimed
  <2> QED
    BY <2>2, <2>3
<1> QED
  BY <1>1, TypeCorrect, ProcessInvHolds, PTL

\* Two executors never run on one project.
THEOREM AtMostOneWorker ==
  ASSUME CleanLoss
  PROVE  Spec => []OneWorker
<1>1. TypeOK /\ ProcessInv => OneWorker
  <2> SUFFICES ASSUME TypeOK, ProcessInv, NEW a \in Token, NEW b \in Token,
                      worker[a] = "running", worker[b] = "running"
               PROVE  a = b
    BY DEF OneWorker
  <2>1. a \in reserved /\ b \in reserved
    BY DEF ProcessInv, InOrder
  <2>2. Owned(a) /\ Owned(b)
    BY DEF Owned
  <2>3. a \in Unclaimed /\ b \in Unclaimed
    BY <2>1, <2>2 DEF ProcessInv, SlotsTell, Unclaimed
  <2> QED
    BY <2>3 DEF ProcessInv, SlotsTell
<1> QED
  BY <1>1, TypeCorrect, ProcessInvHolds, PTL

\* An attempt that a slot names runs nothing any more, whoever classified it.
THEOREM ClassifiedAttemptsStopped ==
  ASSUME CleanLoss
  PROVE  Spec => []ClassifiedMeansStopped
<1>1. ProcessInv => ClassifiedMeansStopped
  <2> SUFFICES ASSUME ProcessInv, NEW i \in SlotsOf(ledger, ExecutorReached)
               PROVE  ~Owned(ledger[i].event)
    BY DEF ClassifiedMeansStopped
  <2>1. i \in DOMAIN ledger /\ ledger[i].class = ExecutorReached
    BY DEF SlotsOf
  <2>2. ledger[i].event \in Claimed(ledger)
    BY <2>1 DEF ProcessInv, SlotsTell, Claimed
  <2> QED
    BY <2>2 DEF ProcessInv, SlotsTell
<1> QED
  BY <1>1, ProcessInvHolds, PTL

\* No attempt's session is charged to two slots: no event directory is named twice.
THEOREM AttemptsAreCountedOnce ==
  ASSUME CleanLoss
  PROVE  Spec => []AttemptsCountedOnce
<1>1. ProcessInv => AttemptsCountedOnce
  <2> SUFFICES ASSUME ProcessInv, NEW i \in SlotsOf(ledger, ExecutorReached),
                      NEW j \in SlotsOf(ledger, ExecutorReached), ledger[i].event = ledger[j].event
               PROVE  i = j
    BY DEF AttemptsCountedOnce
  <2>1. /\ i \in DOMAIN ledger /\ ledger[i].class = ExecutorReached
        /\ j \in DOMAIN ledger /\ ledger[j].class = ExecutorReached
    BY DEF SlotsOf
  <2> QED
    BY <2>1 DEF ProcessInv, SlotsTell
<1> QED
  BY <1>1, TypeCorrect, ProcessInvHolds, PTL
=============================================================================
