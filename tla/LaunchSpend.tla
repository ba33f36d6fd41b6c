---------------------------- MODULE LaunchSpend ----------------------------
(***************************************************************************)
(* What a run has spent, and whether that can be known                     *)
(* (scripts/_launch_budget.py, _worker_profile.py, _usage_events.py,       *)
(* _worker_pricing.py).  An executor writes a session database while it    *)
(* works, and may be killed, or its server may leave usage out; the next   *)
(* launch is admitted on what can be read back from that database and from *)
(* the run tree.  A supervisor's watch stops an attempt on the same rows.  *)
(*                                                                         *)
(* Slots are admitted one at a time here (LaunchSupervision shows that),   *)
(* an attempt has the number of its slot, and a model call has one price,  *)
(* its tokens at the rate of the moment it was made.                       *)
(***************************************************************************)
EXTENDS Naturals, Sequences, FiniteSets, Functions

CONSTANTS
  Bases,         \* billing bases to choose the run's from: "priced", "no-table", "unbilled"
  Allowances,    \* output-token allowances to choose from: None or a number (unbilled only)
  Policies,      \* [limit, reserve, ceiling] an owner may authorize
  Costs,         \* what one model call may cost
  MaxRequests,   \* containment: max_model_requests
  MaxIncomplete, \* containment: max_consecutive_incomplete_responses
  MaxSlots,      \* bound: slots reserved
  MaxCalls,      \* bound: model calls in all
  LateLaunch,    \* whether a launcher may outlive a slot classified as never reached
  MaxDamage,     \* bound: records that become unreadable
  None

\* Billing policies, and what launch-ledger.json holds: the policy it was created with, and slots.
PolicyRecords == [limit : Nat, reserve : Nat, ceiling : Nat]
SlotRecords == [class : {"unresolved", "executor-reached", "pre-executor-failure"},
                event : Nat \cup {None}]
Ledgers == [policy : PolicyRecords, slots : Seq(SlotRecords)]

ASSUME SpendAssumption ==
  /\ Bases \subseteq {"priced", "no-table", "unbilled"}
  /\ Allowances \subseteq Nat \cup {None}
  /\ Policies \subseteq PolicyRecords
  /\ Costs \subseteq Nat
  /\ {MaxRequests, MaxIncomplete, MaxSlots, MaxCalls, MaxDamage} \subseteq Nat
  /\ LateLaunch \in BOOLEAN
  /\ None \notin Nat /\ None \notin PolicyRecords /\ None \notin Ledgers

VARIABLES
  billing,      \* [basis, allowance] of the run's worker settings
  policy,       \* the policy in run-config.json
  authorizing,  \* what an authorize command, past its checks, is about to write, or None
  ledger,       \* launch-ledger.json: None, or [policy, slots]
  supervisor,   \* of the last slot: "idle" or "watching"
  watch,        \* its AttemptWatch: [baseline, room]
  contained,    \* the rule on which the watch stopped the last attempt, or None
  attempts,     \* by slot: [reservation, file, terminal, session, monitor, worker]
  sessions,     \* rows of the session table: [id, title], of an attempt or a child of its session
  parts,        \* rows of the part table, in rowid order
  price         \* history: what each model call really cost

vars == <<billing, policy, authorizing, ledger, supervisor, watch, contained, attempts, sessions,
          parts, price>>

NoPolicy == [limit |-> 0, reserve |-> 0, ceiling |-> 0]
NoAttempt == [reservation |-> FALSE, file |-> "absent", terminal |-> "absent", session |-> None,
              monitor |-> FALSE, worker |-> FALSE]
\* How the end of a call came to be recorded: in full, with no finish reason of its own, with zeros
\* because the server left usage out, without token counts, or without a usable time.
Reports == {"exact", "cut", "zero", "missing", "undated"}

SlotNumbers == 1 .. MaxSlots
Slots == IF ledger = None THEN <<>> ELSE ledger.slots
Active == Len(Slots)

Real == SumFunctionOnSet(price, DOMAIN price)

-----------------------------------------------------------------------------
(* The rows of the session database *)

Starts(rows) == {i \in DOMAIN rows : rows[i].type = "step-start"}
Finishes(rows) == {i \in DOMAIN rows : rows[i].type = "step-finish"}

\* events_from_db: a finished call without token counts is an anomaly, not a free call.
Anomalies(rows) == \E i \in Finishes(rows) : rows[i].report = "missing"

\* What usage sums: a count that is not there adds nothing.
Counted(row) == IF row.report \in {"exact", "cut", "undated"} THEN row.cost ELSE 0
Generated(rows) == SumFunctionOnSet([i \in DOMAIN rows |-> Counted(rows[i])], Finishes(rows))

\* call_reconciliation: by message, the starts are as many as the finishes.
Reconciled(rows) ==
  \A m \in {rows[i].message : i \in DOMAIN rows} :
    Cardinality({i \in Starts(rows) : rows[i].message = m})
      = Cardinality({i \in Finishes(rows) : rows[i].message = m})

\* cost_rows: None if a finished call has no time or an invalid count.
CostRows(rows) ==
  IF \E i \in Finishes(rows) : rows[i].report \in {"missing", "undated"}
    THEN None ELSE Generated(rows)

-----------------------------------------------------------------------------
(* What the run tree says, and whether the two agree *)

\* launch_facts, of the attempts of the event directories `dirs`: those with an attempt.json.
LaunchFacts(dirs) == {a \in dirs : attempts[a].file # "absent"}
OwnEventDirs == {i \in DOMAIN Slots : Slots[i].event # None}

SessionIds == {s.id : s \in sessions}
DatabaseExists == sessions # {}

\* _resolve_session: the recorded id if it is there, else the one session with the title.
\* An unreadable terminal record gives neither.
ResolveSession(a) ==
  LET titled == {s.id : s \in {t \in sessions : t.title = a}}
      named == attempts[a].session
  IN  IF attempts[a].terminal \in {"absent", "unreadable"} THEN None
      ELSE IF named # None THEN (IF named \in SessionIds THEN named ELSE None)
      ELSE IF Cardinality(titled) = 1 THEN CHOOSE id \in titled : TRUE
      ELSE None

\* terminal_present is `bool(terminal)`, and a terminal.json that cannot be read is not empty.
TerminalPresent(a) == attempts[a].terminal # "absent"

\* The lifecycle findings of _settle.
LifecycleGaps(facts) ==
  \E a \in facts : attempts[a].file = "unreadable" \/ ~TerminalPresent(a)

\* Mutant: a call that recorded no tokens used none.
TelemetryGapsButZero(facts) ==
  LET readable == {a \in facts : attempts[a].file = "readable"}
  IN  \/ \E a \in readable : ResolveSession(a) = None
      \/ SessionIds \ {ResolveSession(a) : a \in readable} # {}
      \/ ~Reconciled(parts)

\* Its telemetry findings: an attempt without a session, a session without an attempt, a call
\* that did not finish, a finished call that counts nothing.
TelemetryGaps(facts) ==
  LET readable == {a \in facts : attempts[a].file = "readable"}
  IN  \/ \E a \in readable : ResolveSession(a) = None
      \/ SessionIds \ {ResolveSession(a) : a \in readable} # {}
      \/ ~Reconciled(parts)
      \/ \E i \in DOMAIN parts : parts[i].report = "zero"

Unfinished == Cardinality(Starts(parts)) # Cardinality(Finishes(parts))

Unknown == [derived |-> None, complete |-> FALSE]

\* The accounting of a worker without an external bill: no money, and usage only matters where an
\* allowance is computed from it.
Unbilled(facts) ==
  LET lifecycle == IF DatabaseExists THEN LifecycleGaps(facts)
                   ELSE \E a \in facts : attempts[a].file = "unreadable" \/ ~TerminalPresent(a)
      telemetry == IF DatabaseExists THEN Anomalies(parts) \/ TelemetryGaps(facts) \/ Unfinished
                   ELSE facts # {}
  IN  [derived |-> None, complete |-> ~lifecycle /\ (billing.allowance # None => ~telemetry)]

\* spend, over the attempts of the directories `dirs`.
Spend(dirs) ==
  LET facts == LaunchFacts(dirs)
      unopened == IF facts = {} THEN [derived |-> 0, complete |-> TRUE] ELSE Unknown
      priced == IF Anomalies(parts) \/ CostRows(parts) = None THEN Unknown
                ELSE [derived |-> CostRows(parts),
                      complete |-> ~LifecycleGaps(facts) /\ ~TelemetryGaps(facts) /\ ~Unfinished]
  IN  CASE billing.basis = "unbilled" -> Unbilled(facts)
        [] billing.basis = "no-table" -> Unknown
        [] billing.basis = "priced" -> IF DatabaseExists THEN priced ELSE unopened

Account == Spend(OwnEventDirs)

-----------------------------------------------------------------------------
(* Authorizing, admitting and watching *)

\* The policy the next ledger is created with, or the one it was created with.
Limits == IF ledger = None THEN policy ELSE ledger.policy

\* Mutant: an incomplete figure is admitted on what it did derive.
AdmitsIncomplete ==
  /\ \A i \in DOMAIN Slots : Slots[i].class # "unresolved"
  /\ Len(Slots) + 1 <= Limits.ceiling
  /\ billing.basis # "unbilled" /\ Account.derived # None
       => Account.derived + Limits.reserve <= Limits.limit
  /\ billing.basis = "unbilled" /\ billing.allowance # None => Generated(parts) < billing.allowance

\* The rules of admit that look at spend and at slots (its producer rule is LaunchSupervision's).
Admits ==
  /\ \A i \in DOMAIN Slots : Slots[i].class # "unresolved"
  /\ Account.complete
  /\ Len(Slots) + 1 <= Limits.ceiling
  /\ billing.basis # "unbilled" => Account.derived + Limits.reserve <= Limits.limit
  /\ billing.basis = "unbilled" /\ billing.allowance # None => Generated(parts) < billing.allowance

\* authorize_spending and authorize_resources, up to the preparation of the boundary: each refuses
\* the other's basis, and either refuses once a ledger exists.  Authorizing what is in force again
\* changes nothing and is left out.
AuthorizeCheck(p) ==
  /\ authorizing = None /\ ledger = None /\ p # policy
  /\ p.ceiling >= 1
  /\ IF billing.basis = "unbilled" THEN p.limit = 0 /\ p.reserve = 0
     ELSE 0 < p.reserve /\ p.reserve < p.limit
  /\ authorizing' = p
  /\ UNCHANGED <<billing, policy, ledger, supervisor, watch, contained, attempts, sessions, parts, price>>

\* prepare probes the boundary, which takes a while and may refuse; then the policy is written.
AuthorizeWrite ==
  /\ authorizing # None
  /\ policy' \in {policy, authorizing}
  /\ authorizing' = None
  /\ UNCHANGED <<billing, ledger, supervisor, watch, contained, attempts, sessions, parts, price>>

Room == IF Account.derived = None \/ policy.limit < Account.derived THEN None
        ELSE policy.limit - Account.derived

WatchFrom(baseline, room) == [baseline |-> baseline, room |-> room]

\* _launch: admitted, past its preflights, the slot is written before anything is started.
ReserveSlot ==
  /\ supervisor = "idle" /\ Len(Slots) < MaxSlots /\ Admits
  /\ ledger' = [policy |-> Limits, slots |-> Append(Slots, [class |-> "unresolved", event |-> None])]
  /\ supervisor' = "watching" /\ contained' = None
  /\ watch' = WatchFrom(Len(parts), Room)
  /\ UNCHANGED <<billing, policy, authorizing, attempts, sessions, parts, price>>

\* The rows of the attempt as its watch reads them.
Watched == SubSeq(parts, watch.baseline + 1, Len(parts))

\* How many of the last finished calls gave no finish reason of their own.
Trailing(rows) ==
  Cardinality({i \in Finishes(rows) :
                 \A j \in Finishes(rows) : j >= i => rows[j].report \in {"cut", "zero"}})

\* AttemptWatch.check: the first rule broken.
Check ==
  LET many == Cardinality(Starts(Watched)) > MaxRequests
      dry == Trailing(Watched) >= MaxIncomplete
      spent == /\ billing.basis = "priced" /\ watch.room # None /\ CostRows(Watched) # None
               /\ CostRows(Watched) > watch.room
  IN  CASE many -> "max_model_requests"
        [] ~many /\ dry -> "max_consecutive_incomplete_responses"
        [] ~many /\ ~dry /\ spent -> "derived_spend_during_attempt"
        [] OTHER -> None

\* The attempt's processes end: on a rule of the watch, at the host's deadline, or because the
\* launcher returned.  (LaunchSupervision has the sweeps that fail.)
Stopped(a) == [a EXCEPT !.monitor = FALSE, !.worker = FALSE]

\* What a supervisor does at the end of its attempt: stop what runs, classify the slot.
Conclude ==
  /\ supervisor = "watching"
  /\ contained' = Check
  /\ attempts' = [attempts EXCEPT ![Active] = Stopped(@)]
  /\ ledger' = [ledger EXCEPT !.slots[Active] =
                  IF attempts[Active].reservation THEN [class |-> "executor-reached", event |-> Active]
                  ELSE [class |-> "pre-executor-failure", event |-> None]]
  /\ supervisor' = "idle"
  /\ UNCHANGED <<billing, policy, authorizing, watch, sessions, parts, price>>

-----------------------------------------------------------------------------
(* The attempt *)

MayLaunch(a) ==
  /\ ~attempts[a].reservation
  /\ \/ a = Active /\ supervisor = "watching"
     \/ LateLaunch /\ a \in DOMAIN Slots /\ Slots[a].class = "pre-executor-failure"

\* The launcher reserves the attempt and starts its monitor.
Launch(a) ==
  /\ MayLaunch(a)
  /\ attempts' = [attempts EXCEPT ![a].reservation = TRUE, ![a].monitor = TRUE]
  /\ UNCHANGED <<billing, policy, authorizing, ledger, supervisor, watch, contained, sessions, parts, price>>

\* The monitor starts the worker, and only then writes attempt.json.
StartWorker(a) ==
  /\ attempts[a].monitor /\ attempts[a].file = "absent"
  /\ \/ /\ ~attempts[a].worker
        /\ attempts' = [attempts EXCEPT ![a].worker = TRUE]
     \/ /\ attempts[a].worker
        /\ attempts' = [attempts EXCEPT ![a].file = "readable"]
  /\ UNCHANGED <<billing, policy, authorizing, ledger, supervisor, watch, contained, sessions, parts, price>>

\* The worker opens its session, under the title it was given; a second one is a child of it.
OpenSession(a) ==
  LET child == \E s \in sessions : s.title = a
      row == IF child THEN [id |-> MaxSlots + a, title |-> None] ELSE [id |-> a, title |-> a]
  IN  /\ attempts[a].worker /\ row \notin sessions
      /\ sessions' = sessions \cup {row}
      /\ UNCHANGED <<billing, policy, authorizing, ledger, supervisor, watch, contained, attempts, parts, price>>

OpenCall(a) == \E m \in DOMAIN price : /\ price[m] # None
                                       /\ \E i \in DOMAIN parts : parts[i].message = m /\ parts[i].of = a
                                       /\ \A i \in DOMAIN parts : ~(parts[i].message = m /\ parts[i].type = "step-finish")

\* A model call begins: its part is written before the provider is asked.
StartCall(a, cost) ==
  /\ attempts[a].worker /\ \E s \in sessions : s.title = a
  /\ Len(price) < MaxCalls /\ ~OpenCall(a)
  /\ parts' = Append(parts, [type |-> "step-start", message |-> Len(price) + 1, of |-> a,
                             cost |-> 0, report |-> "none"])
  /\ price' = Append(price, cost)
  /\ UNCHANGED <<billing, policy, authorizing, ledger, supervisor, watch, contained, attempts, sessions>>

\* It ends: the server may leave its usage out, which the executor records as zeros or not at all.
FinishCall(a, report) ==
  /\ attempts[a].worker
  /\ \E i \in DOMAIN parts :
       /\ parts[i].of = a /\ parts[i].type = "step-start"
       /\ \A j \in DOMAIN parts : ~(parts[j].message = parts[i].message /\ parts[j].type = "step-finish")
       /\ parts' = Append(parts, [type |-> "step-finish", message |-> parts[i].message, of |-> a,
                                  cost |-> price[parts[i].message], report |-> report])
  /\ UNCHANGED <<billing, policy, authorizing, ledger, supervisor, watch, contained, attempts, sessions, price>>

\* The worker is over, of itself or at its deadline, and its monitor writes the terminal record,
\* with the session it could look up by title or with none.
Terminate(a, status, session) ==
  /\ attempts[a].monitor /\ attempts[a].file # "absent" /\ attempts[a].terminal = "absent"
  /\ status = "completed" => ~OpenCall(a)
  /\ session = None \/ session \in {s.id : s \in {t \in sessions : t.title = a}}
  /\ attempts' = [attempts EXCEPT ![a].terminal = status, ![a].session = session,
                                  ![a].monitor = FALSE, ![a].worker = FALSE]
  /\ UNCHANGED <<billing, policy, authorizing, ledger, supervisor, watch, contained, sessions, parts, price>>

\* A record can no longer be read.
Spoil(a) ==
  /\ Cardinality({x \in SlotNumbers \X {"file", "terminal"} : attempts[x[1]][x[2]] = "unreadable"})
       < MaxDamage
  /\ \/ attempts[a].file = "readable" /\ attempts' = [attempts EXCEPT ![a].file = "unreadable"]
     \/ /\ attempts[a].terminal \notin {"absent", "unreadable"}
        /\ attempts' = [attempts EXCEPT ![a].terminal = "unreadable"]
  /\ UNCHANGED <<billing, policy, authorizing, ledger, supervisor, watch, contained, sessions, parts, price>>

-----------------------------------------------------------------------------
Init ==
  /\ billing \in {b \in [basis : Bases, allowance : Allowances \cup {None}] :
                    b.allowance # None => b.basis = "unbilled"}
  /\ policy = NoPolicy /\ authorizing = None /\ ledger = None
  /\ supervisor = "idle" /\ watch = [baseline |-> 0, room |-> None] /\ contained = None
  /\ attempts = [a \in SlotNumbers |-> NoAttempt]
  /\ sessions = {} /\ parts = <<>> /\ price = <<>>

Next ==
  \/ \E p \in Policies : AuthorizeCheck(p)
  \/ AuthorizeWrite
  \/ ReserveSlot
  \/ Conclude
  \/ \E a \in SlotNumbers :
       \/ Launch(a)
       \/ StartWorker(a)
       \/ OpenSession(a)
       \/ \E c \in Costs : StartCall(a, c)
       \/ \E r \in Reports : FinishCall(a, r)
       \/ \E s \in {"completed", "failed"}, id \in SlotNumbers \cup {None} : Terminate(a, s, id)
       \/ Spoil(a)

Spec == Init /\ [][Next]_vars

-----------------------------------------------------------------------------
(* Properties *)

\* Whatever was killed, left out or unreadable: a figure that is called complete is what the calls
\* really cost, those of attempts that no slot names and those that never finished included
\* (the claim of spend, _launch_budget.py:204).
CompleteMeansAll == billing.basis = "priced" /\ Account.complete => Account.derived = Real

\* No slot is reserved unless what the calls of the run really cost, and the reserve, fit the limit
\* that was frozen with the first slot, or the tokens really generated are below the allowance.
AdmittedWithinBudget ==
  [][Len(Slots') > Len(Slots) =>
       /\ billing.basis # "no-table"
       /\ billing.basis = "priced" => Real + ledger'.policy.reserve <= ledger'.policy.limit
       /\ billing.allowance # None => Real < billing.allowance]_vars

\* An attempt whose outcome is unknown blocks every further launch, whatever the worker costs
\* (_settle, _launch_budget.py:213-215: "no terminal record, or one that cannot be read").
UnknownOutcomeBlocks ==
  [][Len(Slots') > Len(Slots) =>
       \A a \in OwnEventDirs : attempts[a].file # "absent" =>
         attempts[a].terminal \in {"completed", "failed"}]_vars
=============================================================================
