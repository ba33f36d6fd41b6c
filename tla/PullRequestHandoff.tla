------------------------ MODULE PullRequestHandoff -------------------------
(***************************************************************************)
(* From a sealed delivery to a draft pull request: verify-delivery         *)
(* (pb_workflow.py), the candidate commit (_pr_candidate.py), prepare-pr   *)
(* and publish-pr (_pr_handoff.py) over git and gh (_pr_github.py).        *)
(*                                                                         *)
(* Files may change between the moment their digest is taken and the       *)
(* moment they are used, publishers may be killed after every write and    *)
(* started again, several may run beside each other, and what GitHub shows *)
(* may be changed by others at any moment.                                 *)
(*                                                                         *)
(* A delivery is named by the patch its manifest seals, and a patch by the *)
(* tree it gives on the baseline.  A digest stands for what it is taken    *)
(* of: a plan is its own digest, and a commit is its tree and its date.    *)
(***************************************************************************)
EXTENDS Naturals, Sequences, FiniteSets

CONSTANTS
  Delivery,      \* sealed, accepted deliveries of one project
  Edited,        \* what a patch may be replaced by besides those of the deliveries
  Handoff,       \* handoff directories: each holds one prepared plan
  Publisher,     \* publish-pr commands that may run beside each other
  Branch,        \* names the pull request's branch may be given
  None,          \* no patch, no plan, no commit, no pull request
  Baseline,      \* the commit deliveries are made against
  Foreign,       \* a commit made by somebody else, on top of what the branch held
  MaxVerifications, MaxStarts, MaxChanges, MaxPulls   \* bounds of the runs

Patches == Delivery \cup Edited

ASSUME HandoffAssumption ==
  /\ None \notin Patches \cup Handoff \cup Publisher
  /\ Baseline # Foreign /\ None \notin {Baseline, Foreign}
  \* Neither is a commit that was built of a patch.
  /\ \A c \in {None, Baseline, Foreign} : c \notin [tree : Patches, date : Nat]
  /\ {MaxVerifications, MaxStarts, MaxChanges, MaxPulls} \subseteq Nat

VARIABLES
  patch,          \* what change.patch of each delivery holds now
  unlisted,       \* deliveries in which a file lies that the manifest does not list
  verifying,      \* the verification under way: what it read, None when there is none
  preparing,      \* the preparation under way, None when there is none
  verifications,  \* the verification records, in the order of their dates
  plan,           \* plan.json of each handoff, None before it is prepared
  intact,         \* handoffs whose body and candidate repository are as prepared
  authorizations, \* the plans authorizations.json of each handoff names
  record,         \* publication.json of each handoff, None before its first event
  publisher,      \* where each publisher is and what it has read
  site,           \* the account gh runs as, and the repository's identity
  base,           \* the commit of the base branch
  branch,         \* the commit of each other branch, None when absent
  pulls,          \* the pull requests, by number
  starts,         \* publish-pr commands so far
  changes         \* changes made by others so far

vars == <<patch, unlisted, verifying, verifications, preparing, plan, intact, authorizations, record,
          publisher, site, base, branch, pulls, starts, changes>>
local == <<patch, unlisted, verifying, verifications, preparing>>
remote == <<base, branch, pulls, site>>

Idle == [at |-> "idle"]
Commit(tree, date) == [tree |-> tree, date |-> date]

-----------------------------------------------------------------------------
(* verify-delivery *)

Altered(d) == patch[d] # d

\* The manifest, the digests and the patch's own digest are read first.
VerifyRead(d) ==
  /\ verifying = None
  /\ Len(verifications) < MaxVerifications
  /\ IF Altered(d) \/ patch[d] = None
     THEN /\ verifications' = Append(verifications,
               [delivery |-> d, listed |-> d \notin unlisted, altered |-> TRUE,
                tree |-> None, unchanged |-> FALSE, verified |-> FALSE])
          /\ UNCHANGED verifying
     ELSE /\ verifying' = [delivery |-> d, listed |-> d \notin unlisted]
          /\ UNCHANGED verifications
  /\ UNCHANGED <<patch, unlisted, preparing, plan, intact, authorizations, record, publisher, remote, starts, changes>>

\* The toolchain's source still holds the prepared bytes; what the checkout declares is what
\* the run prepared, before the installation and after it; the installation worked.
DependenciesMatch(seen) ==
  /\ seen.toolchain /\ seen.declaredBefore
  /\ seen.installed /\ seen.declaredAfter /\ seen.layout

\* A check that did not finish is unknown, and unknown is not passed.
Verified(applied, seen) ==
  /\ applied
  /\ DependenciesMatch(seen)
  /\ seen.check = "passed"
  /\ seen.outcome \in {"passed", "not asked"}

Observations ==
  [toolchain : BOOLEAN, declaredBefore : {TRUE}, installed : BOOLEAN, declaredAfter : {TRUE},
   layout : {TRUE}, check : {"passed", "failed", "unknown"}, outcome : {"not asked"}]

\* The patch is then applied to a fresh checkout; the tree is taken before the checks run, and
\* what they left behind is compared with it.
VerifyApply ==
  /\ verifying # None
  /\ LET tree == patch[verifying.delivery]   \* None: the patch is gone or does not apply
     IN \E seen \in Observations, unchanged \in BOOLEAN :
          \* What a verification that failed says of the content is never looked at.
          /\ Verified(tree # None, seen) \/ ~unchanged
          /\ verifications' = Append(verifications,
            [delivery |-> verifying.delivery, listed |-> verifying.listed, altered |-> FALSE,
             tree |-> tree, unchanged |-> unchanged,
             verified |-> Verified(tree # None, seen)])
  /\ verifying' = None
  /\ UNCHANGED <<patch, unlisted, preparing, plan, intact, authorizations, record, publisher, remote, starts, changes>>

-----------------------------------------------------------------------------
(* prepare-pr *)

CheckDelivery(d) == ~Altered(d) /\ d \notin unlisted

\* Mutant: the content the checks left behind is not asked for.
CheckVerificationAsApplied(v, d) ==
  /\ v.verified
  /\ v.delivery = d
  /\ v.listed /\ ~v.altered
  /\ v.tree # None

\* A verification is bound to a delivery by identity, and only when the checks left the
\* verified bytes as they were.
CheckVerification(v, d) ==
  /\ v.verified
  /\ v.delivery = d
  /\ v.listed /\ ~v.altered
  /\ v.tree # None /\ v.unchanged

\* The sealed patch, applied again, must give the tree that was verified.
Build(v, d) == IF patch[d] = v.tree THEN patch[d] ELSE None

LsRemote(b) == branch[b]

MatchingPulls(b) == {n \in DOMAIN pulls : pulls[n].branch = b}

\* The remote must hold the baseline at the base, and nothing or the same commit at the branch.
MayPrepare(commit, b) ==
  /\ base = Baseline
  /\ LsRemote(b) \in {None, commit}
  /\ \A n \in MatchingPulls(b) : pulls[n].oid = commit

\* The delivery and its verification are checked first.
PrepareCheck(h, d, at) ==
  /\ preparing = None
  /\ plan[h] = None
  /\ at \in DOMAIN verifications
  /\ CheckDelivery(d)
  /\ CheckVerification(verifications[at], d)
  /\ preparing' = [handoff |-> h, delivery |-> d, verification |-> at, site |-> site]
  /\ UNCHANGED <<patch, unlisted, verifying, verifications, plan, intact, authorizations, record,
                 publisher, remote, starts, changes>>

\* The account and the repository are read, the candidate is built in a new clone, and the
\* branches and pull requests are looked at; then the plan is written, or nothing is.  What the
\* owner wrote about the change must be complete and name no private path: one choice here.
PrepareBuild(b) ==
  /\ preparing # None
  /\ LET d == preparing.delivery
         h == preparing.handoff
         tree == Build(verifications[preparing.verification], d)
         commit == Commit(tree, preparing.verification)
     IN \E presentable \in BOOLEAN :
        IF tree # None /\ MayPrepare(commit, b) /\ presentable
        THEN /\ plan' = [plan EXCEPT ![h] =
                  [delivery |-> d, commit |-> commit, branch |-> b,
                   verification |-> preparing.verification, site |-> preparing.site]]
             /\ intact' = intact \cup {h}
        ELSE UNCHANGED <<plan, intact>>
  /\ preparing' = None
  /\ UNCHANGED <<patch, unlisted, verifying, verifications, authorizations, record, publisher,
                 remote, starts, changes>>

-----------------------------------------------------------------------------
(* publish-pr *)

\* A stored authorization of this very plan, or one given now that names its digest.
Authorized(h, named) == plan[h] \in authorizations[h] \/ named = plan[h]

NoRecord(h) == [plan |-> plan[h], state |-> "prepared", pull |-> None]

Continues(old, h) == old.plan = plan[h]

\* The body is the prepared one, and the candidate repository holds the planned commit.
Intact(h) == h \in intact

\* The plan, its body and the candidate repository are checked, the authorization is stored,
\* and the record of earlier publications is read: it must be of the same plan.
Start(p, h, named) ==
  /\ starts < MaxStarts
  /\ starts' = starts + 1
  /\ publisher[p] = Idle
  /\ plan[h] # None
  /\ Intact(h)
  /\ Authorized(h, named)
  /\ authorizations' = [authorizations EXCEPT ![h] = @ \cup ({plan[h]} \cap {named})]
  /\ LET old == IF record[h] = None THEN NoRecord(h) ELSE record[h]
     IN publisher' = IF ~Continues(old, h) THEN publisher
                     ELSE [publisher EXCEPT ![p] =
                            [at |-> "inspect", handoff |-> h, plan |-> plan[h], record |-> old,
                             began |-> Len(pulls),
                             head |-> None]]
  /\ UNCHANGED <<local, plan, intact, record, remote, changes>>

\* Every event replaces publication.json by what this publisher read, and the event.
Event(p, state, pull) ==
  LET r == [publisher[p].record EXCEPT !.state = state, !.pull = pull]
  IN  /\ record' = [record EXCEPT ![publisher[p].handoff] = r]
      /\ publisher' = [publisher EXCEPT ![p] =
           IF state \in {"published", "blocked"} THEN Idle
           ELSE [@ EXCEPT !.record = r, !.at = state]]

Blocked(p) == Event(p, "blocked", publisher[p].record.pull)

\* The account, and the repository's identity and visibility, must be those of the plan.  One
\* ls-remote then shows the base, which must be the baseline, and the branch.
Inspect(p) ==
  /\ publisher[p].at = "inspect"
  /\ IF site = publisher[p].plan.site /\ base = Baseline
     THEN /\ publisher' = [publisher EXCEPT ![p].at = "reconcile",
                                            ![p].head = LsRemote(publisher[p].plan.branch)]
          /\ UNCHANGED record
     ELSE Blocked(p)
  /\ UNCHANGED <<local, plan, intact, authorizations, remote, starts, changes>>

\* Mutant: only open pull requests are looked for.
FoundOpen(p) == {n \in MatchingPulls(publisher[p].plan.branch) : pulls[n].state = "open"}

Found(p) == MatchingPulls(publisher[p].plan.branch)

\* Mutant: what the branch holds is taken on trust.
IsPlannedByName(p, n) == pulls[n].toBase

IsPlanned(p, n) == pulls[n].oid = publisher[p].plan.commit /\ pulls[n].toBase

\* Nothing to return (otherwise): more than one pull request, one that is closed or merged, or
\* one whose head or base is not the plan's, blocks; the one that is left is the result.
Reconcile(p, otherwise) ==
  LET found == Found(p)
      n == CHOOSE n \in found : TRUE
  IN  IF found = {} THEN otherwise
      ELSE IF Cardinality(found) = 1 /\ pulls[n].state = "open" /\ IsPlanned(p, n)
           THEN Event(p, "published", n)
           ELSE Blocked(p)

\* The branch is pushed when it was absent, taken as pushed when it holds the commit.  "pushed"
\* and "create-intended" are written one after the other, with nothing in between.
FirstWrite(p) ==
  CASE publisher[p].head = None -> Event(p, "push-intended", publisher[p].record.pull)
    [] publisher[p].head = publisher[p].plan.commit -> Event(p, "create-intended", publisher[p].record.pull)
    [] OTHER -> Blocked(p)

LookFirst(p) ==
  /\ publisher[p].at = "reconcile"
  /\ Reconcile(p, FirstWrite(p))
  /\ UNCHANGED <<local, plan, intact, authorizations, remote, starts, changes>>

\* Mutant: a push that overwrites.
PushForced(held, commit) == commit

\* git push without force: an absent branch is made; one the candidate builds on is advanced;
\* any other is left as it is.
PushNewBranch(held, commit) == IF held \in {None, Baseline, commit} THEN commit ELSE held

\* A pull request shows what its branch holds for as long as it is open.
Follow(b, commit) ==
  [n \in DOMAIN pulls |-> IF pulls[n].branch = b /\ pulls[n].state = "open"
                          THEN [pulls[n] EXCEPT !.oid = commit] ELSE pulls[n]]

\* The push may fail on its own; its exit is not believed, the branch is read again.
Push(p) ==
  /\ publisher[p].at = "push-intended"
  /\ LET b == publisher[p].plan.branch
     IN \/ branch' = [branch EXCEPT ![b] = PushNewBranch(@, publisher[p].plan.commit)]
           /\ pulls' = Follow(b, branch'[b])
        \/ UNCHANGED <<branch, pulls>>
  /\ publisher' = [publisher EXCEPT ![p].at = "reread"]
  /\ UNCHANGED <<local, plan, intact, authorizations, record, base, site, starts, changes>>

Reread(p) ==
  /\ publisher[p].at = "reread"
  /\ IF LsRemote(publisher[p].plan.branch) = publisher[p].plan.commit
     THEN Event(p, "create-intended", publisher[p].record.pull)
     ELSE Blocked(p)
  /\ UNCHANGED <<local, plan, intact, authorizations, remote, starts, changes>>

\* GitHub refuses a second open pull request for a branch and a base.
MayCreate(b) ==
  /\ branch[b] \notin {None, Baseline}
  /\ \A n \in MatchingPulls(b) : pulls[n].state # "open" \/ ~pulls[n].toBase

Pull(b, by, seen) ==
  [branch |-> b, oid |-> branch[b], state |-> "open", toBase |-> TRUE, by |-> by, seen |-> seen]

\* The request makes the pull request, or is refused, or fails; the answer may be lost either way.
CreateDraft(p) ==
  /\ publisher[p].at = "create-intended"
  /\ Len(pulls) < MaxPulls
  /\ LET b == publisher[p].plan.branch
     IN \/ /\ MayCreate(b)
           /\ pulls' = Append(pulls, Pull(b, "proofbound", publisher[p].began))
        \/ UNCHANGED pulls
  /\ publisher' = [publisher EXCEPT ![p].at = "look-again"]
  /\ UNCHANGED <<local, plan, intact, authorizations, record, base, branch, site, starts, changes>>

LookAgain(p) ==
  /\ publisher[p].at = "look-again"
  /\ Reconcile(p, Blocked(p))
  /\ UNCHANGED <<local, plan, intact, authorizations, remote, starts, changes>>

\* A publisher is killed, or one of its reads fails or times out, which it reports and ends.
Killed(p) ==
  /\ publisher[p] # Idle
  /\ publisher' = [publisher EXCEPT ![p] = Idle]
  /\ UNCHANGED <<local, plan, intact, authorizations, record, remote, starts, changes>>

-----------------------------------------------------------------------------
(* What others do, counted against the bound *)

Change == changes < MaxChanges /\ changes' = changes + 1
Elsewhere == <<verifying, verifications, preparing, authorizations, record, publisher, starts>>

\* A file of a sealed delivery is replaced, removed or put back, or one is added.
TamperDelivery(d) ==
  /\ Change
  /\ \/ \E q \in (Patches \cup {None}) \ {patch[d]} :
          patch' = [patch EXCEPT ![d] = q] /\ UNCHANGED unlisted
     \/ d \notin unlisted /\ unlisted' = unlisted \cup {d} /\ UNCHANGED patch
  /\ UNCHANGED <<Elsewhere, plan, intact, remote>>

\* The prepared text or the candidate repository is edited, or the plan and its text are
\* replaced by those of another preparation.
TamperHandoff(h) ==
  /\ Change
  /\ plan[h] # None
  /\ \/ intact' = intact \ {h} /\ UNCHANGED plan
     \/ \E g \in intact : plan' = [plan EXCEPT ![h] = plan[g]] /\ UNCHANGED intact
  /\ UNCHANGED <<Elsewhere, patch, unlisted, remote>>

\* gh is logged in as another account, or the repository is renamed or made public.
ChangeSite ==
  /\ Change
  /\ site' = IF site = "as inspected" THEN "other" ELSE "as inspected"
  /\ UNCHANGED <<Elsewhere, patch, unlisted, plan, intact, base, branch, pulls>>

MoveBase ==
  /\ Change
  /\ base' = Foreign
  /\ UNCHANGED <<Elsewhere, patch, unlisted, plan, intact, branch, pulls, site>>

\* Somebody makes a branch from the base, pushes on top of one, or deletes one, which closes
\* its pull requests.
ChangeBranch(b) ==
  /\ Change
  /\ \/ /\ branch[b] = None
        /\ branch' = [branch EXCEPT ![b] = Baseline]
        /\ UNCHANGED pulls
     \/ /\ branch[b] \notin {None, Foreign}
        /\ branch' = [branch EXCEPT ![b] = Foreign]
        /\ pulls' = Follow(b, Foreign)
     \/ /\ branch[b] # None
        /\ branch' = [branch EXCEPT ![b] = None]
        /\ pulls' = [n \in DOMAIN pulls |->
             IF pulls[n].branch = b /\ pulls[n].state = "open"
             THEN [pulls[n] EXCEPT !.state = "closed"] ELSE pulls[n]]
  /\ UNCHANGED <<Elsewhere, patch, unlisted, plan, intact, base, site>>

\* Somebody opens, closes, merges or retargets a pull request.
ChangePull(b) ==
  /\ Change
  /\ \/ /\ Len(pulls) < MaxPulls
        /\ MayCreate(b)
        /\ pulls' = Append(pulls, Pull(b, "other", Len(pulls)))
        /\ UNCHANGED base
     \/ \E n \in MatchingPulls(b) :
          /\ pulls[n].state = "open"
          /\ \/ pulls' = [pulls EXCEPT ![n].state = "closed"] /\ UNCHANGED base
             \/ pulls' = [pulls EXCEPT ![n].state = "merged"] /\ base' = Foreign
             \/ pulls' = [pulls EXCEPT ![n].toBase = FALSE] /\ UNCHANGED base
  /\ UNCHANGED <<Elsewhere, patch, unlisted, plan, intact, branch, site>>

-----------------------------------------------------------------------------
Init ==
  /\ patch = [d \in Delivery |-> d]
  /\ unlisted = {}
  /\ verifying = None
  /\ verifications = <<>>
  /\ preparing = None
  /\ plan = [h \in Handoff |-> None]
  /\ intact = {}
  /\ authorizations = [h \in Handoff |-> {}]
  /\ record = [h \in Handoff |-> None]
  /\ publisher = [p \in Publisher |-> Idle]
  /\ site = "as inspected"
  /\ base = Baseline
  /\ branch = [b \in Branch |-> None]
  /\ pulls = <<>>
  /\ starts = 0
  /\ changes = 0

PublishStep(p) ==
  \/ \E h \in Handoff : \E named \in {None} \cup {plan[g] : g \in Handoff} : Start(p, h, named)
  \/ Inspect(p)
  \/ LookFirst(p)
  \/ Push(p)
  \/ Reread(p)
  \/ CreateDraft(p)
  \/ LookAgain(p)
  \/ Killed(p)

Prepares ==
  \/ \E d \in Delivery : VerifyRead(d)
  \/ VerifyApply
  \/ \E h \in Handoff, d \in Delivery, at \in 1 .. MaxVerifications : PrepareCheck(h, d, at)
  \/ \E b \in Branch : PrepareBuild(b)

Others ==
  \/ \E d \in Delivery : TamperDelivery(d)
  \/ \E h \in Handoff : TamperHandoff(h)
  \/ ChangeSite
  \/ MoveBase
  \/ \E b \in Branch : ChangeBranch(b) \/ ChangePull(b)

Next == Prepares \/ (\E p \in Publisher : PublishStep(p)) \/ Others

Spec == Init /\ [][Next]_vars

-----------------------------------------------------------------------------
(* Properties *)

Commits == {Commit(d, at) : d \in Patches, at \in 1 .. MaxVerifications}

\* Whatever is edited, lost or retried on the way, a commit Proofbound made is on GitHub only
\* when a verification passed over that very tree and left it as it was, and the owner has
\* authorized the plan that names the commit and the branch it is on.
PublishedWasVerified ==
  \A b \in Branch : branch[b] \in Commits =>
    /\ LET v == verifications[branch[b].date]
       IN  v.verified /\ v.unchanged /\ v.listed /\ v.tree = branch[b].tree
    /\ \E h \in Handoff : \E q \in authorizations[h] : q.branch = b /\ q.commit = branch[b]

\* However often publish-pr is killed and repeated, and whoever runs it at the same time, it
\* makes no second pull request for a branch that had one before it began, closed or merged ones
\* included.
NoSecondPull ==
  \A i, j \in DOMAIN pulls :
    i < j /\ pulls[i].branch = pulls[j].branch /\ pulls[j].by = "proofbound" => pulls[j].seen < i

\* A record that says published names a pull request that showed the planned commit: since then
\* others may have pushed on top of it, but it never shows another plan's commit.
PublishedIsThePlan ==
  \A h \in Handoff : record[h] # None /\ record[h].state = "published" =>
    LET n == record[h].pull
    IN  /\ n \in DOMAIN pulls
        /\ pulls[n].branch = record[h].plan.branch
        /\ pulls[n].oid \in {record[h].plan.commit, Foreign}

\* A step of Proofbound changes only branches that hold nothing of anybody's, even when the
\* branch appeared after it looked.
NothingOverwritten ==
  [][\A b \in Branch : branch'[b] # branch[b] /\ changes' = changes
                         => branch[b] \in {None, Baseline}]_vars

\* "An existing matching PR is returned, not duplicated ... and a repeated call": as long as the
\* pull request of a published plan is open and unchanged, the record goes on saying published.
RepeatedCallReturnsPull ==
  [][\A h \in Handoff :
       record[h] # None /\ record[h].state = "published" /\ record'[h].state # "published" =>
         LET n == record[h].pull
         IN  \/ Cardinality(MatchingPulls(record[h].plan.branch)) # 1
             \/ pulls[n].state # "open"
             \/ pulls[n].oid # record[h].plan.commit
             \/ ~pulls[n].toBase]_vars
=============================================================================
