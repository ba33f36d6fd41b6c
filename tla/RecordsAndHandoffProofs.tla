---------------------- MODULE RecordsAndHandoffProofs ----------------------
(***************************************************************************)
(* What the artifact authority and publish-pr promise, for any number of   *)
(* artifacts, tasks, deliveries, handoffs, publishers and branches,        *)
(* whatever others change.                                                 *)
(*                                                                         *)
(* Publication.  Verification records are only added, so that a plan stays *)
(* a plan of a verified tree (GoodPlan) from the moment it is written, in  *)
(* the handoff, in the authorization that names it, and in the memory of a *)
(* publisher; and a publisher acts on one that is authorized.  Pull        *)
(* requests are only added, too, so that what a publisher knows of those   *)
(* of its branch, and a record of the one it names, stays known.           *)
(*                                                                         *)
(* Authority.  The closure of a node is the least closed set it is in      *)
(* (ClosureIsLeast), and without cycles it shrinks along every edge, which *)
(* is what the states of the records are computed along (DeriveStatesIs).  *)
(* No command leaves a ledger that has a cycle, however two of them        *)
(* overlap (AuthorityInv).                                                 *)
(***************************************************************************)
EXTENDS ArtifactAuthority, PullRequestHandoff, FiniteSetTheorems, SequenceTheorems,
        WellFoundedInduction, TLAPS

Verification ==
  [delivery : Delivery, listed : BOOLEAN, altered : BOOLEAN, tree : Patches \cup {None},
   unchanged : BOOLEAN, verified : BOOLEAN]

\* A plan of a tree that a verification passed over, under that verification's date.
GoodPlan(q) ==
  /\ q.branch \in Branch
  /\ q.verification \in DOMAIN verifications
  /\ CheckVerification(verifications[q.verification], q.delivery)
  /\ q.commit = Commit(verifications[q.verification].tree, q.verification)

LocalTypes ==
  /\ patch \in [Delivery -> Patches \cup {None}]
  /\ verifications \in Seq(Verification)
  /\ verifying = None \/ verifying \in [delivery : Delivery, listed : BOOLEAN]
  /\ changes \in Nat

PreparingInv ==
  preparing # None =>
    /\ preparing.handoff \in Handoff
    /\ preparing.verification \in DOMAIN verifications
    /\ CheckVerification(verifications[preparing.verification], preparing.delivery)

PlanInv ==
  /\ DOMAIN plan = Handoff /\ intact \subseteq Handoff
  /\ \A h \in Handoff : plan[h] # None => GoodPlan(plan[h])

AuthorizationInv ==
  /\ DOMAIN authorizations = Handoff
  /\ \A h \in Handoff : \A q \in authorizations[h] : GoodPlan(q)

Working(x) ==
  /\ {"handoff", "plan"} \subseteq DOMAIN x
  /\ x.handoff \in Handoff /\ x.plan \in authorizations[x.handoff]

\* A publisher that is under way works on a plan that is authorized.
PublisherInv ==
  /\ DOMAIN publisher = Publisher
  /\ \A p \in Publisher : publisher[p] = Idle \/ Working(publisher[p])

Authorizes(b, commit) ==
  \E h \in Handoff : \E q \in authorizations[h] : q.branch = b /\ q.commit = commit

BranchInv ==
  /\ DOMAIN branch = Branch
  /\ \A b \in Branch : branch[b] \in Commits => Authorizes(b, branch[b])

PublicationInv ==
  LocalTypes /\ PreparingInv /\ PlanInv /\ AuthorizationInv /\ PublisherInv /\ BranchInv

-----------------------------------------------------------------------------
LEMMA CommitsAreBuilt == Commits \cap {None, Baseline, Foreign} = {}
<1>1. MaxVerifications \in Nat  BY HandoffAssumption
<1>2. \A d \in Patches, at \in 1 .. MaxVerifications : Commit(d, at) \in [tree : Patches, date : Nat]
  BY <1>1 DEF Commit
<1> QED  BY <1>2, HandoffAssumption DEF Commits

LEMMA PublicationStart == Init => PublicationInv
<1> SUFFICES ASSUME Init PROVE PublicationInv  OBVIOUS
<1> USE HandoffAssumption DEF Init
<1>1. LocalTypes
  <2>1. patch \in [Delivery -> Patches \cup {None}]  BY DEF Patches
  <2>2. verifications \in Seq(Verification)  BY EmptySeq
  <2> QED  BY <2>1, <2>2 DEF LocalTypes
<1>2. PreparingInv /\ PlanInv /\ AuthorizationInv /\ PublisherInv
  BY DEF PreparingInv, PlanInv, AuthorizationInv, PublisherInv
<1>3. BranchInv  BY CommitsAreBuilt DEF BranchInv
<1> QED  BY <1>1, <1>2, <1>3 DEF PublicationInv

\* What is known of a verification stays known: records are only added.
LEMMA VerificationsGrow ==
  ASSUME LocalTypes, Next
  PROVE  \/ UNCHANGED verifications
         \/ \E v \in Verification : verifications' = Append(verifications, v)
<1>1. ASSUME NEW d \in Delivery, VerifyRead(d)
      PROVE  \/ UNCHANGED verifications
             \/ \E v \in Verification : verifications' = Append(verifications, v)
  <2> DEFINE v == [delivery |-> d, listed |-> d \notin unlisted, altered |-> TRUE,
                   tree |-> None, unchanged |-> FALSE, verified |-> FALSE]
  <2>1. v \in Verification  BY DEF Verification
  <2>2. UNCHANGED verifications \/ verifications' = Append(verifications, v)  BY <1>1 DEF VerifyRead
  <2> HIDE DEF v
  <2> QED  BY <2>1, <2>2
<1>2. ASSUME VerifyApply
      PROVE  \E v \in Verification : verifications' = Append(verifications, v)
  <2> DEFINE tree == patch[verifying.delivery]
             v(seen, unchanged) ==
               [delivery |-> verifying.delivery, listed |-> verifying.listed, altered |-> FALSE,
                tree |-> tree, unchanged |-> unchanged, verified |-> Verified(tree # None, seen)]
  <2>1. PICK seen \in Observations, unchanged \in BOOLEAN :
          verifications' = Append(verifications, v(seen, unchanged))
    BY <1>2 DEF VerifyApply
  <2>2. verifying \in [delivery : Delivery, listed : BOOLEAN]  BY <1>2 DEF VerifyApply, LocalTypes
  <2>3. Verified(tree # None, seen) \in BOOLEAN  BY DEF Verified, DependenciesMatch
  <2>4. v(seen, unchanged) \in Verification  BY <2>2, <2>3 DEF Verification, LocalTypes
  <2> HIDE DEF v
  <2> QED  BY <2>1, <2>4
<1>3. CASE UNCHANGED verifications  BY <1>3
<1> QED
  BY <1>1, <1>2, <1>3 DEF Next, Prepares, PublishStep, Others, PrepareCheck, PrepareBuild, Start,
     Inspect, LookFirst, Push, Reread, CreateDraft, LookAgain, Killed, TamperDelivery,
     TamperHandoff, ChangeSite, MoveBase, ChangeBranch, ChangePull, local, Elsewhere

LEMMA GoodPlansStayGood ==
  ASSUME LocalTypes, Next, NEW at, NEW d, at \in DOMAIN verifications,
         CheckVerification(verifications[at], d)
  PROVE  at \in DOMAIN verifications' /\ verifications'[at] = verifications[at]
<1>1. CASE UNCHANGED verifications  BY <1>1
<1>2. ASSUME NEW v \in Verification, verifications' = Append(verifications, v)
      PROVE  at \in DOMAIN verifications' /\ verifications'[at] = verifications[at]
  BY <1>2 DEF LocalTypes
<1> QED  BY <1>1, <1>2, VerificationsGrow

LEMMA StepKeepsLocalTypes ==
  ASSUME LocalTypes, Next
  PROVE  LocalTypes'
<1>1. verifications' \in Seq(Verification)  BY VerificationsGrow DEF LocalTypes
<1>2. patch' \in [Delivery -> Patches \cup {None}]
  <2>1. ASSUME NEW d \in Delivery, TamperDelivery(d)
        PROVE  patch' \in [Delivery -> Patches \cup {None}]
    BY <2>1 DEF TamperDelivery, LocalTypes
  <2>2. CASE UNCHANGED patch  BY <2>2 DEF LocalTypes
  <2> QED
    BY <2>1, <2>2 DEF Next, Prepares, PublishStep, Others, VerifyRead, VerifyApply, PrepareCheck,
       PrepareBuild, Start, Inspect, LookFirst, Push, Reread, CreateDraft, LookAgain, Killed,
       TamperHandoff, ChangeSite, MoveBase, ChangeBranch, ChangePull, local
<1>3. verifying' = None \/ verifying' \in [delivery : Delivery, listed : BOOLEAN]
  <2>1. ASSUME NEW d \in Delivery, VerifyRead(d)
        PROVE  verifying' = None \/ verifying' \in [delivery : Delivery, listed : BOOLEAN]
    <3>1. PICK l \in BOOLEAN : l = (d \notin unlisted)  OBVIOUS
    <3>2. UNCHANGED verifying \/ verifying' = [delivery |-> d, listed |-> l]
      BY <2>1, <3>1 DEF VerifyRead
    <3> QED  BY <3>2 DEF LocalTypes
  <2>2. \/ \E d \in Delivery : VerifyRead(d)
        \/ verifying' = None
        \/ UNCHANGED verifying
    <3>1. VerifyApply => verifying' = None  BY DEF VerifyApply
    <3>2. Prepares => VerifyApply \/ (\E d \in Delivery : VerifyRead(d)) \/ UNCHANGED verifying
      BY DEF Prepares, PrepareCheck, PrepareBuild
    <3>3. \A p \in Publisher : PublishStep(p) => UNCHANGED verifying
      BY DEF PublishStep, Start, Inspect, LookFirst, Push, Reread, CreateDraft, LookAgain, Killed, local
    <3>4. Others => UNCHANGED verifying
      BY DEF Others, TamperDelivery, TamperHandoff, ChangeSite, MoveBase, ChangeBranch, ChangePull, Elsewhere
    <3> QED  BY <3>1, <3>2, <3>3, <3>4 DEF Next
  <2> QED  BY <2>1, <2>2 DEF LocalTypes
<1>4. changes' \in Nat
  <2>1. UNCHANGED changes \/ changes' = changes + 1
    BY DEF Next, Prepares, PublishStep, Others, VerifyRead, VerifyApply, PrepareCheck,
       PrepareBuild, Start, Inspect, LookFirst, Push, Reread, CreateDraft, LookAgain, Killed,
       TamperDelivery, TamperHandoff, ChangeSite, MoveBase, ChangeBranch, ChangePull, Change
  <2> QED  BY <2>1 DEF LocalTypes
<1> QED  BY <1>1, <1>2, <1>3, <1>4 DEF LocalTypes

LEMMA StepKeepsGoodPlans ==
  ASSUME LocalTypes, Next
  PROVE  \A q : GoodPlan(q) => GoodPlan(q)'
BY GoodPlansStayGood DEF GoodPlan

LEMMA StepKeepsPreparing ==
  ASSUME PublicationInv, Next
  PROVE  PreparingInv'
<1> USE DEF PublicationInv
<1>1. ASSUME NEW h \in Handoff, NEW d \in Delivery, NEW at \in 1 .. MaxVerifications,
             PrepareCheck(h, d, at)
      PROVE  PreparingInv'
  BY <1>1 DEF PrepareCheck, PreparingInv
<1>2. CASE preparing' = None  BY <1>2 DEF PreparingInv
<1>3. CASE UNCHANGED preparing
  BY <1>3, GoodPlansStayGood DEF PreparingInv
<1>4. \/ \E h \in Handoff, d \in Delivery, at \in 1 .. MaxVerifications : PrepareCheck(h, d, at)
      \/ preparing' = None
      \/ UNCHANGED preparing
  BY DEF Next, Prepares, PublishStep, Others, VerifyRead, VerifyApply, PrepareBuild, Start,
     Inspect, LookFirst, Push, Reread, CreateDraft, LookAgain, Killed,
     TamperDelivery, TamperHandoff, ChangeSite, MoveBase, ChangeBranch, ChangePull, local, Elsewhere
<1> QED  BY <1>1, <1>2, <1>3, <1>4

LEMMA StepKeepsPlans ==
  ASSUME PublicationInv, Next
  PROVE  PlanInv'
<1> USE DEF PublicationInv
<1>1. ASSUME NEW b \in Branch, PrepareBuild(b)
      PROVE  PlanInv'
  <2>1. CASE UNCHANGED <<plan, intact>>  BY <1>1, <2>1, StepKeepsGoodPlans DEF PlanInv
  <2>2. CASE ~UNCHANGED <<plan, intact>>
    <3> DEFINE v == verifications[preparing.verification]
               tree == Build(v, preparing.delivery)
               new == [delivery |-> preparing.delivery,
                       commit |-> Commit(tree, preparing.verification), branch |-> b,
                       verification |-> preparing.verification, site |-> preparing.site]
    <3>1. /\ tree # None /\ preparing # None /\ UNCHANGED verifications
          /\ plan' = [plan EXCEPT ![preparing.handoff] = new]
          /\ intact' = intact \cup {preparing.handoff}
      BY <1>1, <2>2 DEF PrepareBuild
    <3>2. tree = v.tree  BY <3>1 DEF Build
    <3>3. PICK q : q = new  OBVIOUS
    <3>4. GoodPlan(q)'  BY <3>1, <3>2, <3>3 DEF GoodPlan, PreparingInv
    <3>5. plan' = [plan EXCEPT ![preparing.handoff] = q]  BY <3>1, <3>3
    <3> HIDE DEF new
    <3> QED  BY <3>1, <3>4, <3>5, StepKeepsGoodPlans DEF PlanInv, PreparingInv
  <2> QED  BY <2>1, <2>2
<1>2. ASSUME NEW h \in Handoff, TamperHandoff(h)
      PROVE  PlanInv'
  <2>1. CASE UNCHANGED plan  BY <1>2, <2>1, StepKeepsGoodPlans DEF TamperHandoff, PlanInv
  <2>2. ASSUME NEW g \in intact, plan' = [plan EXCEPT ![h] = plan[g]], UNCHANGED intact
        PROVE  PlanInv'
    BY <2>2, StepKeepsGoodPlans DEF PlanInv
  <2> QED  BY <1>2, <2>1, <2>2 DEF TamperHandoff
<1>3. CASE UNCHANGED <<plan, intact>>  BY <1>3, StepKeepsGoodPlans DEF PlanInv
<1>4. \/ \E b \in Branch : PrepareBuild(b)
      \/ \E h \in Handoff : TamperHandoff(h)
      \/ UNCHANGED <<plan, intact>>
  BY DEF Next, Prepares, PublishStep, Others, VerifyRead, VerifyApply, PrepareCheck, Start,
     Inspect, LookFirst, Push, Reread, CreateDraft, LookAgain, Killed,
     TamperDelivery, ChangeSite, MoveBase, ChangeBranch, ChangePull, local, Elsewhere
<1> QED  BY <1>1, <1>2, <1>3, <1>4

LEMMA StepKeepsAuthorizations ==
  ASSUME PublicationInv, Next
  PROVE  /\ AuthorizationInv'
         /\ \A h \in Handoff : authorizations[h] \subseteq authorizations'[h]
<1> USE DEF PublicationInv
<1>1. ASSUME NEW p \in Publisher, NEW h \in Handoff, NEW named, Start(p, h, named)
      PROVE  /\ AuthorizationInv'
             /\ \A g \in Handoff : authorizations[g] \subseteq authorizations'[g]
  <2>1. /\ plan[h] # None
        /\ authorizations' = [authorizations EXCEPT ![h] = @ \cup ({plan[h]} \cap {named})]
    BY <1>1 DEF Start
  <2>2. \A g \in Handoff : \A q \in authorizations'[g] : q \in authorizations[g] \/ q = plan[h]
    BY <2>1 DEF AuthorizationInv
  <2>3. \A g \in Handoff : \A q \in authorizations'[g] : GoodPlan(q)
    BY <2>1, <2>2 DEF AuthorizationInv, PlanInv
  <2> QED  BY <2>1, <2>3, StepKeepsGoodPlans DEF AuthorizationInv
<1>2. CASE UNCHANGED authorizations
  BY <1>2, StepKeepsGoodPlans DEF AuthorizationInv
<1>3. \/ \E p \in Publisher, h \in Handoff : \E named : Start(p, h, named)
      \/ UNCHANGED authorizations
  BY DEF Next, Prepares, PublishStep, Others, VerifyRead, VerifyApply, PrepareCheck, PrepareBuild,
     Inspect, LookFirst, Push, Reread, CreateDraft, LookAgain, Killed, TamperDelivery,
     TamperHandoff, ChangeSite, MoveBase, ChangeBranch, ChangePull, Elsewhere
<1> QED  BY <1>1, <1>2, <1>3

\* A record of a publisher that goes on keeps its handoff and its plan.
LEMMA WorkingGoesOn ==
  ASSUME NEW x, Working(x), NEW at, NEW old, NEW head
  PROVE  /\ Working([x EXCEPT !.at = at])
         /\ Working([x EXCEPT !.at = at, !.head = head])
         /\ Working([x EXCEPT !.record = old, !.at = at])
BY DEF Working

LEMMA EventGoesOn ==
  ASSUME PublisherInv, NEW p \in Publisher, Working(publisher[p]), NEW st, NEW pull,
         Event(p, st, pull)
  PROVE  \E x : (x = Idle \/ Working(x)) /\ publisher' = [publisher EXCEPT ![p] = x]
BY WorkingGoesOn DEF Event

\* Where a publisher goes on, it goes on with the plan it started with.
LEMMA PublisherSteps ==
  ASSUME PublicationInv, NEW p \in Publisher, Working(publisher[p]),
         Inspect(p) \/ LookFirst(p) \/ Push(p) \/ Reread(p) \/ CreateDraft(p) \/ LookAgain(p) \/ Killed(p)
  PROVE  \E x : (x = Idle \/ Working(x)) /\ publisher' = [publisher EXCEPT ![p] = x]
<1> DEFINE GoesOn == \E x : (x = Idle \/ Working(x)) /\ publisher' = [publisher EXCEPT ![p] = x]
<1> USE DEF PublicationInv
<1>0. ASSUME NEW st, NEW pull, Event(p, st, pull) PROVE GoesOn  BY <1>0, EventGoesOn
<1>1. CASE Inspect(p)
  <2>1. \/ Blocked(p)
        \/ \E head : publisher' = [publisher EXCEPT ![p].at = "reconcile", ![p].head = head]
    BY <1>1 DEF Inspect
  <2>2. CASE Blocked(p)  BY <2>2, <1>0 DEF Blocked
  <2>3. ASSUME NEW head, publisher' = [publisher EXCEPT ![p].at = "reconcile", ![p].head = head]
        PROVE  GoesOn
    <3>1. publisher' = [publisher EXCEPT ![p] = [publisher[p] EXCEPT !.at = "reconcile", !.head = head]]
      BY <2>3 DEF PublisherInv
    <3> QED  BY <3>1, WorkingGoesOn
  <2> QED  BY <2>1, <2>2, <2>3
<1>2. ASSUME NEW st, Reconcile(p, Event(p, st, publisher[p].record.pull)) PROVE GoesOn
  BY <1>2, <1>0 DEF Reconcile, Blocked
<1>3. CASE LookFirst(p)
  <2>1. ASSUME FirstWrite(p) PROVE GoesOn  BY <2>1, <1>0 DEF FirstWrite, Blocked
  <2>2. \/ FirstWrite(p) \/ Blocked(p) \/ \E n : Event(p, "published", n)
    BY <1>3 DEF LookFirst, Reconcile
  <2> QED  BY <2>1, <2>2, <1>0 DEF Blocked
<1>4. CASE LookAgain(p)
  <2>1. \/ Blocked(p) \/ \E n : Event(p, "published", n)
    BY <1>4 DEF LookAgain, Reconcile
  <2> QED  BY <2>1, <1>0 DEF Blocked
<1>5. CASE Reread(p)  BY <1>5, <1>0 DEF Reread, Blocked
<1>6. CASE Push(p) \/ CreateDraft(p)
  <2>1. PICK at : publisher' = [publisher EXCEPT ![p].at = at]  BY <1>6 DEF Push, CreateDraft
  <2>2. publisher' = [publisher EXCEPT ![p] = [publisher[p] EXCEPT !.at = at]]
    BY <2>1 DEF PublisherInv
  <2> QED  BY <2>2, WorkingGoesOn
<1>7. CASE Killed(p)  BY <1>7 DEF Killed
<1> QED  BY <1>1, <1>3, <1>4, <1>5, <1>6, <1>7

LEMMA StepKeepsPublishers ==
  ASSUME PublicationInv, Next
  PROVE  PublisherInv'
<1> USE DEF PublicationInv
<1>1. \A x : Working(x) => Working(x)'  BY StepKeepsAuthorizations DEF Working
<1>2. ASSUME NEW p \in Publisher, NEW x, x = Idle \/ Working(x)',
             publisher' = [publisher EXCEPT ![p] = x]
      PROVE  PublisherInv'
  BY <1>1, <1>2 DEF PublisherInv, Idle
<1>3. ASSUME NEW p \in Publisher, NEW h \in Handoff, NEW named, Start(p, h, named)
      PROVE  PublisherInv'
  <2>1. CASE UNCHANGED publisher  BY <1>1, <2>1 DEF PublisherInv, Idle
  <2>2. CASE ~UNCHANGED publisher
    <3>1. PICK old, began : publisher' = [publisher EXCEPT ![p] =
            [at |-> "inspect", handoff |-> h, plan |-> plan[h], record |-> old,
             began |-> began, head |-> None]]
      BY <1>3, <2>2 DEF Start
    <3>2. plan[h] \in authorizations'[h]
      BY <1>3 DEF Start, Authorized, AuthorizationInv
    <3>3. PICK x : x = [at |-> "inspect", handoff |-> h, plan |-> plan[h], record |-> old,
                        began |-> began, head |-> None]
      OBVIOUS
    <3>4. Working(x)'  BY <3>2, <3>3 DEF Working
    <3> QED  BY <1>2, <3>1, <3>3, <3>4
  <2> QED  BY <2>1, <2>2
<1>4. ASSUME NEW p \in Publisher,
             Inspect(p) \/ LookFirst(p) \/ Push(p) \/ Reread(p) \/ CreateDraft(p) \/ LookAgain(p) \/ Killed(p)
      PROVE  PublisherInv'
  <2>1. publisher[p] # Idle
    BY <1>4 DEF Inspect, LookFirst, Push, Reread, CreateDraft, LookAgain, Killed, Idle
  <2>2. Working(publisher[p])  BY <2>1 DEF PublisherInv
  <2>3. PICK x : (x = Idle \/ Working(x)) /\ publisher' = [publisher EXCEPT ![p] = x]
    BY <1>4, <2>2, PublisherSteps
  <2> QED  BY <1>1, <1>2, <2>3
<1>5. CASE UNCHANGED publisher  BY <1>1, <1>5 DEF PublisherInv, Idle
<1>6. \/ UNCHANGED publisher
      \/ \E p \in Publisher : PublishStep(p)
  BY DEF Next, Prepares, Others, VerifyRead, VerifyApply, PrepareCheck, PrepareBuild,
     TamperDelivery, TamperHandoff, ChangeSite, MoveBase, ChangeBranch, ChangePull, Elsewhere
<1> QED  BY <1>3, <1>4, <1>5, <1>6 DEF PublishStep

-----------------------------------------------------------------------------
(* What is pushed *)

LEMMA PushWritesThePlan ==
  ASSUME PublicationInv, NEW p \in Publisher, Push(p), NEW b \in Branch, branch'[b] # branch[b]
  PROVE  /\ branch[b] \in {None, Baseline} /\ UNCHANGED changes
         /\ b = publisher[p].plan.branch /\ branch'[b] = publisher[p].plan.commit
<1>1. branch' = [branch EXCEPT ![publisher[p].plan.branch] =
                   PushNewBranch(@, publisher[p].plan.commit)]
  BY DEF Push
<1>2. b = publisher[p].plan.branch /\ branch'[b] = PushNewBranch(branch[b], publisher[p].plan.commit)
  BY <1>1 DEF PublicationInv, BranchInv
<1> QED  BY <1>2 DEF PushNewBranch, Push

LEMMA BranchSteps ==
  ASSUME Next
  PROVE  \/ \E p \in Publisher : Push(p)
         \/ \E b \in Branch : ChangeBranch(b)
         \/ UNCHANGED branch
BY DEF Next, Prepares, PublishStep, Others, VerifyRead, VerifyApply, PrepareCheck, PrepareBuild,
   Start, Inspect, LookFirst, Reread, CreateDraft, LookAgain, Killed, TamperDelivery, TamperHandoff,
   ChangeSite, MoveBase, ChangePull, remote

LEMMA ChangedBranches ==
  ASSUME PublicationInv, NEW c \in Branch, ChangeBranch(c)
  PROVE  /\ DOMAIN branch' = Branch
         /\ \A b \in Branch : branch'[b] = branch[b] \/ branch'[b] \in {None, Baseline, Foreign}
         /\ changes' # changes
<1>1. PICK x \in {None, Baseline, Foreign} : branch' = [branch EXCEPT ![c] = x]
  BY DEF ChangeBranch
<1>2. changes' = changes + 1 /\ changes \in Nat
  BY DEF ChangeBranch, Change, PublicationInv, LocalTypes
<1> QED  BY <1>1, <1>2 DEF PublicationInv, BranchInv

LEMMA StepKeepsBranches ==
  ASSUME PublicationInv, Next
  PROVE  BranchInv'
<1> USE DEF PublicationInv
<1>1. \A b, commit : Authorizes(b, commit) => Authorizes(b, commit)'
  BY StepKeepsAuthorizations DEF Authorizes
<1>2. UNCHANGED Commits  BY DEF Commits
<1>3. ASSUME NEW p \in Publisher, Push(p) PROVE BranchInv'
  <2>1. publisher[p] # Idle  BY <1>3 DEF Push, Idle
  <2>2. /\ publisher[p].handoff \in Handoff
        /\ publisher[p].plan \in authorizations[publisher[p].handoff]
    BY <2>1 DEF PublisherInv, Working
  <2>3. Authorizes(publisher[p].plan.branch, publisher[p].plan.commit)
    BY <2>2 DEF Authorizes
  <2>4. DOMAIN branch' = Branch  BY <1>3 DEF Push, BranchInv
  <2>5. ASSUME NEW b \in Branch, branch'[b] \in Commits PROVE Authorizes(b, branch'[b])
    <3>1. CASE branch'[b] = branch[b]  BY <2>5, <3>1 DEF BranchInv
    <3>2. CASE branch'[b] # branch[b]  BY <1>3, <2>3, <3>2, PushWritesThePlan
    <3> QED  BY <3>1, <3>2
  <2>6. ASSUME NEW b \in Branch, branch'[b] \in Commits PROVE Authorizes(b, branch[b])'
    <3>1. PICK c : c = branch'[b]  OBVIOUS
    <3>2. Authorizes(b, c)'  BY <1>1, <2>5, <2>6, <3>1
    <3> QED  BY <3>1, <3>2 DEF Authorizes
  <2> QED  BY <2>4, <2>6, <1>2 DEF BranchInv
<1>4. ASSUME NEW c \in Branch, ChangeBranch(c) PROVE BranchInv'
  <2>1. ASSUME NEW b \in Branch, branch'[b] \in Commits PROVE Authorizes(b, branch[b])'
    <3>1. branch'[b] = branch[b]  BY <1>4, <2>1, ChangedBranches, CommitsAreBuilt
    <3>2. Authorizes(b, branch[b])  BY <2>1, <3>1 DEF BranchInv
    <3>3. PICK x : x = branch[b]  OBVIOUS
    <3>4. Authorizes(b, x)'  BY <1>1, <3>2, <3>3
    <3> QED  BY <3>1, <3>3, <3>4 DEF Authorizes
  <2> QED  BY <1>4, <2>1, <1>2, ChangedBranches DEF BranchInv
<1>5. CASE UNCHANGED branch
  <2>1. ASSUME NEW b \in Branch, branch'[b] \in Commits PROVE Authorizes(b, branch[b])'
    <3>1. Authorizes(b, branch[b])  BY <1>5, <2>1 DEF BranchInv
    <3>2. PICK x : x = branch[b]  OBVIOUS
    <3>3. Authorizes(b, x)'  BY <1>1, <3>1, <3>2
    <3> QED  BY <1>5, <3>2, <3>3 DEF Authorizes
  <2> QED  BY <1>5, <2>1, <1>2 DEF BranchInv
<1> QED  BY <1>3, <1>4, <1>5, BranchSteps

-----------------------------------------------------------------------------
(* Theorems *)

LEMMA PublicationStep == PublicationInv /\ [Next]_vars => PublicationInv'
<1>1. ASSUME PublicationInv, Next PROVE PublicationInv'
  <2>1. LocalTypes'  BY <1>1, StepKeepsLocalTypes DEF PublicationInv
  <2>2. PreparingInv' /\ PlanInv'  BY <1>1, StepKeepsPreparing, StepKeepsPlans
  <2>3. AuthorizationInv' /\ PublisherInv'  BY <1>1, StepKeepsAuthorizations, StepKeepsPublishers
  <2>4. BranchInv'  BY <1>1, StepKeepsBranches
  <2> QED  BY <2>1, <2>2, <2>3, <2>4 DEF PublicationInv
<1>2. ASSUME PublicationInv, UNCHANGED vars PROVE PublicationInv'
  BY <1>2 DEF PublicationInv, LocalTypes, PreparingInv, PlanInv, AuthorizationInv, PublisherInv,
     BranchInv, GoodPlan, Working, Authorizes, vars
<1> QED  BY <1>1, <1>2

\* The invariant on which both theorems rest: every plan, authorization and publisher names a
\* tree that was verified, and every commit of ours on GitHub an authorized plan.
THEOREM PublicationInvariant == Spec => []PublicationInv
BY PublicationStart, PublicationStep, PTL DEF Spec

\* For any number of publishers and whatever others change, a commit Proofbound made is on
\* GitHub only when its tree was verified and the owner authorized its plan.
THEOREM PublishedWasVerifiedAlways == Spec => []PublishedWasVerified
<1>1. PublicationInv => PublishedWasVerified
  <2> SUFFICES ASSUME PublicationInv, NEW b \in Branch, branch[b] \in Commits
               PROVE  /\ LET v == verifications[branch[b].date]
                         IN  v.verified /\ v.unchanged /\ v.listed /\ v.tree = branch[b].tree
                      /\ \E h \in Handoff : \E q \in authorizations[h] :
                           q.branch = b /\ q.commit = branch[b]
    BY DEF PublishedWasVerified
  <2>1. PICK h \in Handoff : \E q \in authorizations[h] : q.branch = b /\ q.commit = branch[b]
    BY DEF PublicationInv, BranchInv, Authorizes
  <2>2. PICK q \in authorizations[h] : q.branch = b /\ q.commit = branch[b]  BY <2>1
  <2>3. GoodPlan(q)  BY <2>2 DEF PublicationInv, AuthorizationInv
  <2>4. /\ branch[b].date = q.verification
        /\ branch[b].tree = verifications[q.verification].tree
    BY <2>2, <2>3 DEF GoodPlan, Commit
  <2> QED  BY <2>1, <2>3, <2>4 DEF GoodPlan, CheckVerification
<1> QED  BY <1>1, PublicationInvariant, PTL

\* No step of Proofbound's changes a branch that holds anybody's work, even when the branch
\* appeared after the publisher looked.
THEOREM OverwritesNothing == Spec => NothingOverwritten
<1>1. ASSUME PublicationInv, Next, NEW b \in Branch, branch'[b] # branch[b], changes' = changes
      PROVE  branch[b] \in {None, Baseline}
  BY <1>1, BranchSteps, PushWritesThePlan, ChangedBranches
<1>2. PublicationInv /\ [Next]_vars =>
        [\A b \in Branch : branch'[b] # branch[b] /\ changes' = changes
                             => branch[b] \in {None, Baseline}]_vars
  BY <1>1
<1> QED  BY <1>2, PublicationInvariant, PTL DEF Spec, NothingOverwritten

-----------------------------------------------------------------------------
(* The pull requests, and what publishers and records know of them *)

Built == [tree : Patches, date : Nat]
Held == {None, Baseline, Foreign} \cup Built

PullRequest ==
  [branch : Branch, oid : Held, state : {"open", "closed", "merged"}, toBase : BOOLEAN,
   by : {"proofbound", "other"}, seen : Nat]

\* An open pull request shows what its branch holds, which is more than the base does.
PullsInv ==
  /\ branch \in [Branch -> Held]
  /\ pulls \in Seq(PullRequest)
  /\ \A n \in DOMAIN pulls : pulls[n].state = "open" =>
       pulls[n].oid = branch[pulls[n].branch] /\ pulls[n].oid \notin {None, Baseline}

\* A publisher's record is of its plan.  Once it has looked and decided to write, the pull
\* requests of its branch that it did not see are younger than its start.
Bound(x) ==
  /\ {"at", "handoff", "plan", "record", "began"} \subseteq DOMAIN x
  /\ DOMAIN x.record = {"plan", "state", "pull"} /\ x.record.plan = x.plan
  /\ x.began \in Nat /\ x.began <= Len(pulls)
  /\ x.at \in {"push-intended", "reread", "create-intended"} =>
       \A n \in DOMAIN pulls : pulls[n].branch = x.plan.branch => x.began < n

Shown(r) ==
  /\ r.pull \in DOMAIN pulls
  /\ pulls[r.pull].branch = r.plan.branch
  /\ pulls[r.pull].oid \in {r.plan.commit, Foreign}

RecordsInv ==
  /\ DOMAIN record = Handoff
  /\ \A h \in Handoff : record[h] # None =>
       /\ DOMAIN record[h] = {"plan", "state", "pull"}
       /\ record[h].state = "published" => Shown(record[h])

PullRequestInv ==
  /\ PullsInv
  /\ \A p \in Publisher : publisher[p] = Idle \/ Bound(publisher[p])
  /\ RecordsInv
  /\ NoSecondPull

LEMMA PullRequestStart == Init => PullRequestInv
<1> SUFFICES ASSUME Init PROVE PullRequestInv  OBVIOUS
<1>1. pulls = <<>> /\ pulls \in Seq(PullRequest) /\ DOMAIN pulls = {}
  <2>1. pulls = <<>>  BY DEF Init
  <2>2. <<>> \in Seq(PullRequest)  BY EmptySeq
  <2> QED  BY <2>1, <2>2, EmptySeq
<1>2. PullsInv  BY <1>1 DEF Init, PullsInv, Held
<1> QED
  BY <1>1, <1>2 DEF Init, PullRequestInv, RecordsInv, NoSecondPull

\* What a publisher works on names a branch and a commit that was built.
LEMMA WorksOnBuilt ==
  ASSUME PublicationInv, NEW p \in Publisher, publisher[p] # Idle
  PROVE  publisher[p].plan.branch \in Branch /\ publisher[p].plan.commit \in Built
<1> DEFINE q == publisher[p].plan
<1>1. publisher[p].handoff \in Handoff /\ q \in authorizations[publisher[p].handoff]
  BY DEF PublicationInv, PublisherInv, Working
<1>2. GoodPlan(q)  BY <1>1 DEF PublicationInv, AuthorizationInv
<1> HIDE DEF q
<1>3. /\ q.verification \in DOMAIN verifications /\ verifications \in Seq(Verification)
      /\ verifications[q.verification].tree # None
      /\ q.commit = Commit(verifications[q.verification].tree, q.verification)
  BY <1>2 DEF GoodPlan, CheckVerification, PublicationInv, LocalTypes
<1>4. q.verification \in Nat /\ verifications[q.verification] \in Verification
  <2>1. DOMAIN verifications = 1 .. Len(verifications) /\ Len(verifications) \in Nat
    BY <1>3, LenProperties
  <2> QED  BY <1>3, <2>1, ElementOfSeq
<1>5. verifications[q.verification].tree \in Patches  BY <1>3, <1>4 DEF Verification
<1> QED  BY <1>2, <1>3, <1>4, <1>5 DEF q, GoodPlan, Built, Commit

\* The pull requests that there are keep their branch and who made them; what they show changes
\* only when somebody pushes on top.
LEMMA FollowKeeps ==
  ASSUME PullsInv, NEW b \in Branch, NEW c \in Held, c \notin {None, Baseline},
         branch' = [branch EXCEPT ![b] = c], pulls' = Follow(b, c),
         c = Foreign \/ c = branch[b] \/ branch[b] \in {None, Baseline}
  PROVE  /\ PullsInv' /\ Len(pulls') = Len(pulls)
         /\ \A n \in DOMAIN pulls :
              /\ pulls'[n].branch = pulls[n].branch /\ pulls'[n].by = pulls[n].by
              /\ pulls'[n].seen = pulls[n].seen /\ pulls'[n].oid \in {pulls[n].oid, Foreign}
<1>1. DOMAIN pulls = 1 .. Len(pulls) /\ Len(pulls) \in Nat /\ pulls \in Seq(PullRequest)
  BY LenProperties DEF PullsInv
<1>2. \A n \in DOMAIN pulls : pulls[n] \in PullRequest  BY <1>1, ElementOfSeq
<1>3. /\ DOMAIN pulls' = DOMAIN pulls
      /\ \A n \in DOMAIN pulls : pulls'[n] = IF pulls[n].branch = b /\ pulls[n].state = "open"
                                            THEN [pulls[n] EXCEPT !.oid = c] ELSE pulls[n]
  BY DEF Follow
<1>4. \A n \in DOMAIN pulls :
        /\ pulls'[n] \in PullRequest
        /\ pulls'[n].branch = pulls[n].branch /\ pulls'[n].by = pulls[n].by
        /\ pulls'[n].seen = pulls[n].seen /\ pulls'[n].state = pulls[n].state
        /\ pulls'[n].oid = IF pulls[n].branch = b /\ pulls[n].state = "open" THEN c ELSE pulls[n].oid
  BY <1>2, <1>3 DEF PullRequest
<1>5. pulls' \in Seq(PullRequest) /\ Len(pulls') = Len(pulls)
  <2>1. pulls' = [n \in 1 .. Len(pulls) |-> pulls'[n]]  BY <1>1, <1>3 DEF Follow
  <2> QED  BY <1>1, <1>3, <1>4, <2>1, IsASeq, LenProperties
<1>6. branch' \in [Branch -> Held]  BY DEF PullsInv
<1>7. \A n \in DOMAIN pulls' : pulls'[n].state = "open" =>
        pulls'[n].oid = branch'[pulls'[n].branch] /\ pulls'[n].oid \notin {None, Baseline}
  BY <1>2, <1>3, <1>4 DEF PullsInv, PullRequest
<1>8. \A n \in DOMAIN pulls : pulls'[n].oid \in {pulls[n].oid, Foreign}
  BY <1>4 DEF PullsInv
<1> QED  BY <1>4, <1>5, <1>6, <1>7, <1>8 DEF PullsInv

\* So does one that is made.
LEMMA AppendKeeps ==
  ASSUME PullsInv, NEW b \in Branch, NEW by \in {"proofbound", "other"}, NEW seen \in Nat,
         MayCreate(b), UNCHANGED branch, pulls' = Append(pulls, Pull(b, by, seen))
  PROVE  /\ PullsInv' /\ Len(pulls') = Len(pulls) + 1
         /\ \A n \in DOMAIN pulls : pulls'[n] = pulls[n]
         /\ pulls'[Len(pulls) + 1] = Pull(b, by, seen)
<1>1. pulls \in Seq(PullRequest) /\ Len(pulls) \in Nat /\ DOMAIN pulls = 1 .. Len(pulls)
  BY LenProperties DEF PullsInv
<1>2. Pull(b, by, seen) \in PullRequest  BY DEF Pull, PullRequest, PullsInv
<1>3. /\ pulls' \in Seq(PullRequest) /\ Len(pulls') = Len(pulls) + 1
      /\ \A n \in 1 .. Len(pulls) : pulls'[n] = pulls[n]
      /\ pulls'[Len(pulls) + 1] = Pull(b, by, seen)
  BY <1>1, <1>2, AppendProperties
<1>4. DOMAIN pulls' = 1 .. (Len(pulls) + 1)  BY <1>3, LenProperties
<1>5. \A n \in 1 .. (Len(pulls) + 1) : n \in 1 .. Len(pulls) \/ n = Len(pulls) + 1  BY <1>1
<1>6. \A n \in DOMAIN pulls' : pulls'[n].state = "open" =>
        pulls'[n].oid = branch'[pulls'[n].branch] /\ pulls'[n].oid \notin {None, Baseline}
  BY <1>1, <1>3, <1>4, <1>5 DEF PullsInv, Pull, MayCreate
<1> QED  BY <1>1, <1>3, <1>6 DEF PullsInv

\* How the pull requests change in a step: none goes away, and none changes its branch or its maker.
Grown ==
  /\ PullsInv' /\ Len(pulls) <= Len(pulls')
  /\ \A n \in DOMAIN pulls :
       /\ pulls'[n].branch = pulls[n].branch /\ pulls'[n].by = pulls[n].by
       /\ pulls'[n].seen = pulls[n].seen /\ pulls'[n].oid \in {pulls[n].oid, Foreign}

LEMMA GrownSame ==
  ASSUME PullsInv, UNCHANGED <<branch, pulls>>
  PROVE  Grown /\ Len(pulls') = Len(pulls)
<1>1. Len(pulls) \in Nat  BY LenProperties DEF PullsInv
<1>2. PullsInv'  BY DEF PullsInv
<1> QED  BY <1>1, <1>2 DEF Grown

\* Somebody deletes a branch, or makes one from the base, or works on top of it.
LEMMA ChangedBranchGrows ==
  ASSUME PullsInv, NEW b \in Branch, ChangeBranch(b)
  PROVE  Grown /\ Len(pulls') = Len(pulls)
<1>1. DOMAIN pulls = 1 .. Len(pulls) /\ Len(pulls) \in Nat /\ pulls \in Seq(PullRequest)
  BY LenProperties DEF PullsInv
<1>2. \A n \in DOMAIN pulls : pulls[n] \in PullRequest  BY <1>1, ElementOfSeq
<1>3. CASE /\ branch[b] = None /\ branch' = [branch EXCEPT ![b] = Baseline] /\ UNCHANGED pulls
  BY <1>1, <1>2, <1>3 DEF PullsInv, Grown, Held, PullRequest
<1>4. CASE /\ branch[b] \notin {None, Foreign} /\ branch' = [branch EXCEPT ![b] = Foreign]
           /\ pulls' = Follow(b, Foreign)
  <2>1. Foreign \in Held /\ Foreign \notin {None, Baseline}  BY HandoffAssumption DEF Held
  <2>2. /\ PullsInv' /\ Len(pulls') = Len(pulls)
        /\ \A n \in DOMAIN pulls :
              /\ pulls'[n].branch = pulls[n].branch /\ pulls'[n].by = pulls[n].by
              /\ pulls'[n].seen = pulls[n].seen /\ pulls'[n].oid \in {pulls[n].oid, Foreign}
    BY <1>4, <2>1, FollowKeeps
  <2> QED  BY <1>1, <2>2 DEF Grown
<1>5. CASE /\ branch[b] # None /\ branch' = [branch EXCEPT ![b] = None]
           /\ pulls' = [n \in DOMAIN pulls |->
                IF pulls[n].branch = b /\ pulls[n].state = "open"
                THEN [pulls[n] EXCEPT !.state = "closed"] ELSE pulls[n]]
  <2>1. \A n \in DOMAIN pulls :
          /\ pulls'[n] \in PullRequest
          /\ pulls'[n].branch = pulls[n].branch /\ pulls'[n].by = pulls[n].by
          /\ pulls'[n].seen = pulls[n].seen /\ pulls'[n].oid = pulls[n].oid
          /\ pulls'[n].state = "open" => pulls[n].state = "open" /\ pulls[n].branch # b
    BY <1>2, <1>5 DEF PullRequest
  <2>2. pulls' \in Seq(PullRequest) /\ Len(pulls') = Len(pulls) /\ DOMAIN pulls' = DOMAIN pulls
    <3>1. pulls' = [n \in 1 .. Len(pulls) |-> pulls'[n]]  BY <1>1, <1>5
    <3> QED  BY <1>1, <1>5, <2>1, <3>1, IsASeq, LenProperties
  <2>3. branch' \in [Branch -> Held]  BY <1>5 DEF PullsInv, Held
  <2>4. \A n \in DOMAIN pulls' : pulls'[n].state = "open" =>
          pulls'[n].oid = branch'[pulls'[n].branch] /\ pulls'[n].oid \notin {None, Baseline}
    BY <1>2, <1>5, <2>1, <2>2 DEF PullsInv, PullRequest
  <2> QED  BY <1>1, <2>1, <2>2, <2>3, <2>4 DEF Grown, PullsInv
<1> QED  BY <1>3, <1>4, <1>5 DEF ChangeBranch

\* Somebody closes, merges or retargets a pull request.
LEMMA ChangedPullGrows ==
  ASSUME PullsInv, NEW b \in Branch, ChangePull(b)
  PROVE  \/ Grown /\ Len(pulls') = Len(pulls)
         \/ Grown /\ Len(pulls') = Len(pulls) + 1 /\ pulls'[Len(pulls) + 1].by = "other"
<1>1. DOMAIN pulls = 1 .. Len(pulls) /\ Len(pulls) \in Nat /\ pulls \in Seq(PullRequest)
  BY LenProperties DEF PullsInv
<1>2. \A n \in DOMAIN pulls : pulls[n] \in PullRequest  BY <1>1, ElementOfSeq
<1>3. UNCHANGED branch  BY DEF ChangePull
<1>4. CASE MayCreate(b) /\ pulls' = Append(pulls, Pull(b, "other", Len(pulls)))
  <2>1. /\ PullsInv' /\ Len(pulls') = Len(pulls) + 1
        /\ \A n \in DOMAIN pulls : pulls'[n] = pulls[n]
        /\ pulls'[Len(pulls) + 1] = Pull(b, "other", Len(pulls))
    BY <1>1, <1>3, <1>4, AppendKeeps
  <2>2. Len(pulls) <= Len(pulls')  BY <1>1, <2>1
  <2>3. pulls'[Len(pulls) + 1].by = "other"  BY <2>1 DEF Pull
  <2> QED  BY <2>1, <2>2, <2>3 DEF Grown
<1>5. ASSUME NEW n \in MatchingPulls(b), NEW x \in PullRequest, pulls[n].state = "open",
             pulls' = [pulls EXCEPT ![n] = x],
             x.branch = pulls[n].branch, x.by = pulls[n].by, x.seen = pulls[n].seen,
             x.oid = pulls[n].oid
      PROVE  Grown /\ Len(pulls') = Len(pulls)
  <2>1. n \in 1 .. Len(pulls)  BY <1>1 DEF MatchingPulls
  <2>2. pulls' \in Seq(PullRequest) /\ Len(pulls') = Len(pulls)
    BY <1>1, <1>5, <2>1, ExceptSeq
  <2>3. DOMAIN pulls' = DOMAIN pulls /\ \A m \in DOMAIN pulls : pulls'[m] = IF m = n THEN x ELSE pulls[m]
    BY <1>1, <1>5
  <2>4. \A m \in DOMAIN pulls' : pulls'[m].state = "open" =>
          pulls'[m].oid = branch'[pulls'[m].branch] /\ pulls'[m].oid \notin {None, Baseline}
    BY <1>3, <1>5, <2>1, <2>3 DEF PullsInv
  <2> QED  BY <1>1, <1>3, <1>5, <2>2, <2>3, <2>4 DEF Grown, PullsInv
<1>6. ASSUME NEW n \in MatchingPulls(b), pulls[n].state = "open",
             \/ pulls' = [pulls EXCEPT ![n].state = "closed"]
             \/ pulls' = [pulls EXCEPT ![n].state = "merged"]
             \/ pulls' = [pulls EXCEPT ![n].toBase = FALSE]
      PROVE  Grown /\ Len(pulls') = Len(pulls)
  <2>1. pulls[n] \in PullRequest  BY <1>2 DEF MatchingPulls
  <2>2. PICK x \in {[pulls[n] EXCEPT !.state = "closed"], [pulls[n] EXCEPT !.state = "merged"],
                    [pulls[n] EXCEPT !.toBase = FALSE]} : pulls' = [pulls EXCEPT ![n] = x]
    BY <1>6
  <2>3. /\ x \in PullRequest /\ x.branch = pulls[n].branch /\ x.by = pulls[n].by
        /\ x.seen = pulls[n].seen /\ x.oid = pulls[n].oid
    BY <2>1, <2>2 DEF PullRequest
  <2> QED  BY <1>5, <1>6, <2>2, <2>3
<1> QED  BY <1>4, <1>6 DEF ChangePull

LEMMA PushGrows ==
  ASSUME PublicationInv, PullsInv, NEW p \in Publisher, Push(p)
  PROVE  Grown /\ Len(pulls') = Len(pulls)
<1>1. DOMAIN pulls = 1 .. Len(pulls) /\ Len(pulls) \in Nat  BY LenProperties DEF PullsInv
<1>2. publisher[p] # Idle  BY DEF Push, Idle
<1>3. PICK b \in Branch, commit \in Built :
        b = publisher[p].plan.branch /\ commit = publisher[p].plan.commit
  BY <1>2, WorksOnBuilt
<1>4. CASE UNCHANGED <<branch, pulls>>  BY <1>4, GrownSame
<1>5. CASE /\ branch' = [branch EXCEPT ![b] = PushNewBranch(branch[b], commit)]
           /\ pulls' = Follow(b, branch'[b])
  <2>1. branch'[b] = PushNewBranch(branch[b], commit)  BY <1>5 DEF PullsInv
  <2>2. commit \in Held /\ commit \notin {None, Baseline}
    BY HandoffAssumption DEF Built, Held
  <2>3. branch[b] \in Held  BY DEF PullsInv
  <2>4. PICK c : c = PushNewBranch(branch[b], commit)  OBVIOUS
  <2>5. /\ c \in Held /\ c \notin {None, Baseline}
        /\ c = Foreign \/ c = branch[b] \/ branch[b] \in {None, Baseline}
    BY <2>2, <2>3, <2>4 DEF PushNewBranch
  <2>6. branch' = [branch EXCEPT ![b] = c] /\ pulls' = Follow(b, c)  BY <1>5, <2>1, <2>4
  <2>7. /\ PullsInv' /\ Len(pulls') = Len(pulls)
        /\ \A n \in DOMAIN pulls :
              /\ pulls'[n].branch = pulls[n].branch /\ pulls'[n].by = pulls[n].by
              /\ pulls'[n].seen = pulls[n].seen /\ pulls'[n].oid \in {pulls[n].oid, Foreign}
    BY <2>5, <2>6, FollowKeeps
  <2> QED  BY <1>1, <2>7 DEF Grown
<1> QED  BY <1>3, <1>4, <1>5 DEF Push

LEMMA CreateGrows ==
  ASSUME PublicationInv, PullRequestInv, NEW p \in Publisher, CreateDraft(p)
  PROVE  \/ Grown /\ Len(pulls') = Len(pulls)
         \/ /\ Grown /\ Len(pulls') = Len(pulls) + 1
            /\ pulls'[Len(pulls) + 1].branch = publisher[p].plan.branch
            /\ pulls'[Len(pulls) + 1].seen = publisher[p].began
<1>1. DOMAIN pulls = 1 .. Len(pulls) /\ Len(pulls) \in Nat
  BY LenProperties DEF PullRequestInv, PullsInv
<1>2. publisher[p] # Idle /\ UNCHANGED branch  BY DEF CreateDraft, Idle
<1>3. PICK b \in Branch : b = publisher[p].plan.branch  BY <1>2, WorksOnBuilt
<1>4. PICK began \in Nat : began = publisher[p].began  BY <1>2 DEF PullRequestInv, Bound
<1>5. CASE UNCHANGED pulls  BY <1>2, <1>5, GrownSame DEF PullRequestInv
<1>6. CASE MayCreate(b) /\ pulls' = Append(pulls, Pull(b, "proofbound", began))
  <2>1. /\ PullsInv' /\ Len(pulls') = Len(pulls) + 1
        /\ \A n \in DOMAIN pulls : pulls'[n] = pulls[n]
        /\ pulls'[Len(pulls) + 1] = Pull(b, "proofbound", began)
    BY <1>2, <1>6, AppendKeeps DEF PullRequestInv
  <2>2. Len(pulls) <= Len(pulls')  BY <1>1, <2>1
  <2>3. /\ pulls'[Len(pulls) + 1].branch = publisher[p].plan.branch
        /\ pulls'[Len(pulls) + 1].seen = publisher[p].began
    BY <1>3, <1>4, <2>1 DEF Pull
  <2> QED  BY <2>1, <2>2, <2>3 DEF Grown
<1> QED  BY <1>3, <1>4, <1>5, <1>6 DEF CreateDraft

LEMMA PullSteps ==
  ASSUME Next
  PROVE  \/ \E p \in Publisher : Push(p) \/ CreateDraft(p)
         \/ \E b \in Branch : ChangeBranch(b) \/ ChangePull(b)
         \/ UNCHANGED <<branch, pulls>>
BY DEF Next, Prepares, PublishStep, Others, VerifyRead, VerifyApply, PrepareCheck, PrepareBuild,
   Start, Inspect, LookFirst, Reread, LookAgain, Killed, TamperDelivery, TamperHandoff,
   ChangeSite, MoveBase, remote

\* Whatever the step, the pull requests there are stay, and one that is Proofbound's is one its
\* publisher found missing when it began.
LEMMA StepGrows ==
  ASSUME PublicationInv, PullRequestInv, Next
  PROVE  Grown /\ NoSecondPull'
<1> USE DEF PullRequestInv
<1>1. DOMAIN pulls = 1 .. Len(pulls) /\ Len(pulls) \in Nat  BY LenProperties DEF PullsInv
<1>2. ASSUME Grown, Len(pulls') = Len(pulls) PROVE NoSecondPull'
  <2>1. DOMAIN pulls' = DOMAIN pulls
    <3>1. pulls' \in Seq(PullRequest)  BY <1>2 DEF Grown, PullsInv
    <3> QED  BY <1>1, <1>2, <3>1, LenProperties
  <2> QED  BY <1>2, <2>1 DEF Grown, NoSecondPull
<1>3. ASSUME Grown, Len(pulls') = Len(pulls) + 1,
             \/ pulls'[Len(pulls) + 1].by = "other"
             \/ \A n \in DOMAIN pulls : pulls[n].branch = pulls'[Len(pulls) + 1].branch
                                          => pulls'[Len(pulls) + 1].seen < n
      PROVE  NoSecondPull'
  <2>1. DOMAIN pulls' = 1 .. (Len(pulls) + 1)
    <3>1. pulls' \in Seq(PullRequest)  BY <1>3 DEF Grown, PullsInv
    <3> QED  BY <1>3, <3>1, LenProperties
  <2>2. ASSUME NEW i \in DOMAIN pulls', NEW j \in DOMAIN pulls', i < j,
               pulls'[i].branch = pulls'[j].branch, pulls'[j].by = "proofbound"
        PROVE  pulls'[j].seen < i
    <3>1. i \in DOMAIN pulls  BY <1>1, <2>1, <2>2
    <3>2. CASE j \in DOMAIN pulls  BY <1>3, <2>2, <3>1, <3>2 DEF Grown, NoSecondPull
    <3>3. CASE j = Len(pulls) + 1  BY <1>3, <2>2, <3>1, <3>3 DEF Grown
    <3> QED  BY <1>1, <2>1, <3>2, <3>3
  <2> QED  BY <2>2 DEF NoSecondPull
<1>4. ASSUME NEW p \in Publisher, CreateDraft(p) PROVE Grown /\ NoSecondPull'
  <2>1. publisher[p] # Idle /\ publisher[p].at = "create-intended"
    BY <1>4 DEF CreateDraft, Idle
  <2>2. \A n \in DOMAIN pulls : pulls[n].branch = publisher[p].plan.branch => publisher[p].began < n
    BY <2>1 DEF Bound
  <2> QED  BY <1>2, <1>3, <1>4, <2>2, CreateGrows
<1>5. ASSUME NEW p \in Publisher, Push(p) PROVE Grown /\ NoSecondPull'
  BY <1>2, <1>5, PushGrows
<1>6. ASSUME NEW b \in Branch, ChangeBranch(b) \/ ChangePull(b) PROVE Grown /\ NoSecondPull'
  BY <1>2, <1>3, <1>6, ChangedBranchGrows, ChangedPullGrows
<1>7. CASE UNCHANGED <<branch, pulls>>  BY <1>2, <1>7, GrownSame
<1> QED  BY <1>4, <1>5, <1>6, <1>7, PullSteps

\* What a publisher and a record know stays known as the pull requests grow.
LEMMA KnownStaysKnown ==
  ASSUME PullsInv, Grown
  PROVE  /\ \A x : Bound(x) => Bound(x)'
         /\ \A r : Shown(r) => Shown(r)'
<1>1. /\ DOMAIN pulls = 1 .. Len(pulls) /\ Len(pulls) \in Nat
      /\ DOMAIN pulls' = 1 .. Len(pulls') /\ Len(pulls') \in Nat
  BY LenProperties DEF PullsInv, Grown
<1>2. ASSUME NEW x, Bound(x) PROVE Bound(x)'
  <2>1. x.began \in Nat /\ x.began <= Len(pulls')  BY <1>1, <1>2 DEF Bound, Grown
  <2>2. ASSUME x.at \in {"push-intended", "reread", "create-intended"},
               NEW n \in DOMAIN pulls', pulls'[n].branch = x.plan.branch
        PROVE  x.began < n
    <3>1. CASE n \in DOMAIN pulls  BY <1>2, <2>2, <3>1 DEF Bound, Grown
    <3>2. CASE n \notin DOMAIN pulls  BY <1>1, <1>2, <2>2, <3>2 DEF Bound
    <3> QED  BY <3>1, <3>2
  <2> QED  BY <1>2, <2>1, <2>2 DEF Bound
<1>3. ASSUME NEW r, Shown(r) PROVE Shown(r)'
  BY <1>1, <1>3 DEF Shown, Grown
<1> QED  BY <1>2, <1>3

\* An event is recorded of the publisher's own plan.
LEMMA EventRecords ==
  ASSUME PublisherInv, PullRequestInv, NEW p \in Publisher, publisher[p] # Idle,
         NEW st \in {"push-intended", "create-intended", "published", "blocked"}, NEW pull,
         Event(p, st, pull), UNCHANGED pulls,
         st \in {"push-intended", "create-intended"} =>
           \A n \in DOMAIN pulls : pulls[n].branch = publisher[p].plan.branch => publisher[p].began < n,
         st = "published" => /\ pull \in MatchingPulls(publisher[p].plan.branch)
                             /\ pulls[pull].oid = publisher[p].plan.commit
  PROVE  /\ \E x : (x = Idle \/ Bound(x)) /\ publisher' = [publisher EXCEPT ![p] = x]
         /\ \E r : /\ record' = [record EXCEPT ![publisher[p].handoff] = r]
                   /\ DOMAIN r = {"plan", "state", "pull"}
                   /\ r.state = "published" => Shown(r)
<1>1. Bound(publisher[p])  BY DEF PullRequestInv
<1> DEFINE r == [publisher[p].record EXCEPT !.state = st, !.pull = pull]
<1>2. /\ DOMAIN r = {"plan", "state", "pull"} /\ r.plan = publisher[p].plan
      /\ r.state = st /\ r.pull = pull
  BY <1>1 DEF Bound
<1>3. r.state = "published" => Shown(r)  BY <1>2 DEF Shown, MatchingPulls
<1>4. record' = [record EXCEPT ![publisher[p].handoff] = r]  BY DEF Event
<1>5. publisher' = [publisher EXCEPT ![p] = IF st \in {"published", "blocked"} THEN Idle
                      ELSE [publisher[p] EXCEPT !.record = r, !.at = st]]
  BY DEF Event
<1> HIDE DEF r
<1>6. st \notin {"published", "blocked"} => Bound([publisher[p] EXCEPT !.record = r, !.at = st])
  <2>1. PICK x : x = [publisher[p] EXCEPT !.record = r, !.at = st]  OBVIOUS
  <2>2. /\ DOMAIN x = DOMAIN publisher[p] /\ x.record = r /\ x.at = st
        /\ x.plan = publisher[p].plan /\ x.began = publisher[p].began
    BY <1>1, <2>1 DEF Bound
  <2>3. st \notin {"published", "blocked"} => Bound(x)  BY <1>1, <1>2, <2>2 DEF Bound
  <2> QED  BY <2>1, <2>3
<1> QED  BY <1>2, <1>3, <1>4, <1>5, <1>6

\* What a step of a publisher leaves behind, in its memory and in the record of its handoff.
Leaves(p) ==
  /\ \/ UNCHANGED publisher
     \/ \E x : (x = Idle \/ Bound(x)) /\ publisher' = [publisher EXCEPT ![p] = x]
  /\ \/ UNCHANGED record
     \/ \E h, r : /\ record' = [record EXCEPT ![h] = r]
                  /\ DOMAIN r = {"plan", "state", "pull"}
                  /\ r.state = "published" => Shown(r)

LEMMA BlockedLeaves ==
  ASSUME PublicationInv, PullRequestInv, NEW p \in Publisher, publisher[p] # Idle,
         Blocked(p), UNCHANGED pulls
  PROVE  Leaves(p)
<1>1. PICK pull : Event(p, "blocked", pull)  BY DEF Blocked
<1>2. PublisherInv  BY DEF PublicationInv
<1> QED  BY <1>1, <1>2, EventRecords DEF Leaves

LEMMA StartLeaves ==
  ASSUME PublicationInv, PullRequestInv, NEW p \in Publisher, NEW h \in Handoff, NEW named,
         Start(p, h, named)
  PROVE  Leaves(p)
<1> DEFINE old == IF record[h] = None THEN NoRecord(h) ELSE record[h]
           x == [at |-> "inspect", handoff |-> h, plan |-> plan[h], record |-> old,
                 began |-> Len(pulls), head |-> None]
<1>1. Len(pulls) \in Nat  BY LenProperties DEF PullRequestInv, PullsInv
<1>2. DOMAIN old = {"plan", "state", "pull"}
  BY DEF PullRequestInv, RecordsInv, NoRecord
<1>3. UNCHANGED record  BY DEF Start
<1>4. publisher' = IF ~Continues(old, h) THEN publisher ELSE [publisher EXCEPT ![p] = x]
  BY DEF Start
<1> HIDE DEF old
<1>5. Continues(old, h) => Bound(x)  BY <1>1, <1>2 DEF Bound, Continues
<1> HIDE DEF x
<1> QED  BY <1>3, <1>4, <1>5 DEF Leaves

\* A publisher that goes on, without an event, to where it needs to know nothing more.
LEMMA MovesOn ==
  ASSUME PullRequestInv, NEW p \in Publisher, publisher[p] # Idle, NEW x,
         DOMAIN x = DOMAIN publisher[p], x.plan = publisher[p].plan,
         x.record = publisher[p].record, x.began = publisher[p].began,
         \/ x.at \notin {"push-intended", "reread", "create-intended"}
         \/ publisher[p].at \in {"push-intended", "reread", "create-intended"}
  PROVE  Bound(x)
BY DEF PullRequestInv, Bound

LEMMA InspectLeaves ==
  ASSUME PublicationInv, PullRequestInv, NEW p \in Publisher, Inspect(p)
  PROVE  Leaves(p)
<1>1. publisher[p] # Idle /\ Bound(publisher[p])
  BY DEF Inspect, Idle, PullRequestInv
<1>2. CASE Blocked(p)
  <2>1. UNCHANGED pulls  BY DEF Inspect, remote
  <2> QED  BY <1>1, <1>2, <2>1, BlockedLeaves
<1>3. CASE ~Blocked(p)
  <2> DEFINE head == LsRemote(publisher[p].plan.branch)
  <2>1. /\ publisher' = [publisher EXCEPT ![p].at = "reconcile", ![p].head = head]
        /\ UNCHANGED record
    BY <1>3 DEF Inspect
  <2> HIDE DEF head
  <2>2. PICK x : x = [publisher[p] EXCEPT !.at = "reconcile", !.head = head]  OBVIOUS
  <2>3. publisher' = [publisher EXCEPT ![p] = x]  BY <2>1, <2>2
  <2>4. /\ DOMAIN x = DOMAIN publisher[p] /\ x.at = "reconcile" /\ x.plan = publisher[p].plan
        /\ x.record = publisher[p].record /\ x.began = publisher[p].began
    BY <1>1, <2>2 DEF Bound
  <2>5. Bound(x)  BY <1>1, <2>4, MovesOn
  <2> QED  BY <2>1, <2>3, <2>5 DEF Leaves
<1> QED  BY <1>2, <1>3

\* With a pull request found, it is returned or the publication is blocked.
LEMMA FoundLeaves ==
  ASSUME PublicationInv, PullRequestInv, NEW p \in Publisher, publisher[p] # Idle,
         NEW otherwise \in BOOLEAN, Reconcile(p, otherwise), Found(p) # {}, UNCHANGED pulls
  PROVE  Leaves(p)
<1> DEFINE n == CHOOSE n \in Found(p) : TRUE
<1>1. n \in Found(p)  OBVIOUS
<1>2. \/ Blocked(p)
      \/ IsPlanned(p, n) /\ Event(p, "published", n)
  BY DEF Reconcile
<1> HIDE DEF n
<1>3. ASSUME IsPlanned(p, n), Event(p, "published", n) PROVE Leaves(p)
  <2>1. PublisherInv  BY DEF PublicationInv
  <2>2. n \in MatchingPulls(publisher[p].plan.branch) /\ pulls[n].oid = publisher[p].plan.commit
    BY <1>1, <1>3 DEF Found, IsPlanned
  <2> QED  BY <1>3, <2>1, <2>2, EventRecords DEF Leaves
<1> QED  BY <1>2, <1>3, BlockedLeaves

LEMMA LooksLeave ==
  ASSUME PublicationInv, PullRequestInv, NEW p \in Publisher, LookFirst(p) \/ LookAgain(p)
  PROVE  Leaves(p)
<1>1. publisher[p] # Idle /\ UNCHANGED pulls
  BY DEF LookFirst, LookAgain, Idle, remote
<1>2. CASE Found(p) # {}
  BY <1>1, <1>2, FoundLeaves DEF LookFirst, LookAgain, FirstWrite, Blocked, Event
<1>3. CASE Found(p) = {}
  <2>1. \A n \in DOMAIN pulls : pulls[n].branch = publisher[p].plan.branch => publisher[p].began < n
    BY <1>3 DEF Found, MatchingPulls
  <2>2. \/ Blocked(p)
        \/ \E st \in {"push-intended", "create-intended"} : Event(p, st, publisher[p].record.pull)
    BY <1>3 DEF LookFirst, LookAgain, Reconcile, FirstWrite
  <2>3. PublisherInv  BY DEF PublicationInv
  <2>4. ASSUME NEW st \in {"push-intended", "create-intended"},
               Event(p, st, publisher[p].record.pull)
        PROVE  Leaves(p)
    BY <1>1, <2>1, <2>3, <2>4, EventRecords DEF Leaves
  <2> QED  BY <1>1, <2>2, <2>4, BlockedLeaves
<1> QED  BY <1>2, <1>3

LEMMA RereadLeaves ==
  ASSUME PublicationInv, PullRequestInv, NEW p \in Publisher, Reread(p)
  PROVE  Leaves(p)
<1>1. publisher[p] # Idle /\ publisher[p].at = "reread" /\ UNCHANGED pulls
  BY DEF Reread, Idle, remote
<1>2. \A n \in DOMAIN pulls : pulls[n].branch = publisher[p].plan.branch => publisher[p].began < n
  BY <1>1 DEF PullRequestInv, Bound
<1>3. PublisherInv  BY DEF PublicationInv
<1>4. Blocked(p) \/ Event(p, "create-intended", publisher[p].record.pull)  BY DEF Reread
<1>5. ASSUME Event(p, "create-intended", publisher[p].record.pull) PROVE Leaves(p)
  BY <1>1, <1>2, <1>3, <1>5, EventRecords DEF Leaves
<1> QED  BY <1>1, <1>4, <1>5, BlockedLeaves

LEMMA PublisherLeaves ==
  ASSUME PublicationInv, PullRequestInv, NEW p \in Publisher, PublishStep(p)
  PROVE  Leaves(p)
<1>1. ASSUME NEW at \in {"reread", "look-again"}, publisher[p] # Idle, UNCHANGED record,
             publisher' = [publisher EXCEPT ![p].at = at],
             at = "reread" => publisher[p].at = "push-intended"
      PROVE  Leaves(p)
  <2>1. PICK x : x = [publisher[p] EXCEPT !.at = at]  OBVIOUS
  <2>2. publisher' = [publisher EXCEPT ![p] = x]  BY <1>1, <2>1
  <2>3. Bound(publisher[p])  BY <1>1 DEF PullRequestInv
  <2>4. /\ DOMAIN x = DOMAIN publisher[p] /\ x.at = at /\ x.plan = publisher[p].plan
        /\ x.record = publisher[p].record /\ x.began = publisher[p].began
    BY <2>1, <2>3 DEF Bound
  <2>5. Bound(x)  BY <1>1, <2>4, MovesOn
  <2> QED  BY <1>1, <2>2, <2>5 DEF Leaves
<1>2. CASE Push(p)  BY <1>1, <1>2 DEF Push, Idle
<1>3. CASE CreateDraft(p)  BY <1>1, <1>3 DEF CreateDraft, Idle
<1>4. CASE Killed(p)  BY <1>4 DEF Killed, Leaves
<1> QED
  BY <1>2, <1>3, <1>4, StartLeaves, InspectLeaves, LooksLeave, RereadLeaves DEF PublishStep

LEMMA QuietSteps ==
  ASSUME Next
  PROVE  \/ \E p \in Publisher : PublishStep(p)
         \/ UNCHANGED <<publisher, record>>
BY DEF Next, Prepares, Others, VerifyRead, VerifyApply, PrepareCheck, PrepareBuild,
   TamperDelivery, TamperHandoff, ChangeSite, MoveBase, ChangeBranch, ChangePull, Elsewhere

LEMMA PullRequestStep ==
  PublicationInv /\ PullRequestInv /\ [Next]_vars => PullRequestInv'
<1> SUFFICES ASSUME PublicationInv, PullRequestInv, [Next]_vars PROVE PullRequestInv'
  OBVIOUS
<1>1. CASE UNCHANGED vars
  BY <1>1 DEF vars, remote, PullRequestInv, PullsInv, RecordsInv, NoSecondPull, Bound, Shown
<1>2. CASE Next
  <2>1. Grown /\ NoSecondPull'  BY <1>2, StepGrows
  <2>2. PullsInv /\ PullsInv'  BY <2>1 DEF Grown, PullRequestInv
  <2>3. /\ \A x : Bound(x) => Bound(x)'
        /\ \A r : Shown(r) => Shown(r)'
    BY <2>1, <2>2, KnownStaysKnown
  <2>4. DOMAIN publisher = Publisher /\ DOMAIN record = Handoff
    BY DEF PublicationInv, PublisherInv, PullRequestInv, RecordsInv
  <2>5. \/ \E p \in Publisher : Leaves(p)
        \/ UNCHANGED <<publisher, record>>
    BY <1>2, QuietSteps, PublisherLeaves
  <2>6. \A p \in Publisher : publisher'[p] = Idle \/ Bound(publisher'[p])
    BY <2>4, <2>5 DEF Leaves, PullRequestInv
  <2>7. /\ DOMAIN record' = Handoff
        /\ \A h \in Handoff : record'[h] # None =>
             /\ DOMAIN record'[h] = {"plan", "state", "pull"}
             /\ record'[h].state = "published" => Shown(record'[h])
    BY <2>4, <2>5 DEF Leaves, PullRequestInv, RecordsInv
  <2>8. \A p \in Publisher : publisher'[p] = Idle \/ Bound(publisher[p])'
    <3> SUFFICES ASSUME NEW p \in Publisher, publisher'[p] # Idle PROVE Bound(publisher[p])'
      OBVIOUS
    <3>1. PICK x : x = publisher'[p]  OBVIOUS
    <3>2. Bound(x)'  BY <2>3, <2>6, <3>1
    <3> QED  BY <3>1, <3>2 DEF Bound
  <2>9. \A h \in Handoff : record'[h] # None =>
          /\ DOMAIN record'[h] = {"plan", "state", "pull"}
          /\ record'[h].state = "published" => Shown(record[h])'
    <3> SUFFICES ASSUME NEW h \in Handoff, record'[h] # None, record'[h].state = "published"
                 PROVE  Shown(record[h])'
      BY <2>7
    <3>1. PICK r : r = record'[h]  OBVIOUS
    <3>2. Shown(r)'  BY <2>3, <2>7, <3>1
    <3> QED  BY <3>1, <3>2 DEF Shown
  <2>10. \A p \in Publisher : (publisher[p] = Idle \/ Bound(publisher[p]))'  BY <2>8
  <2>11. RecordsInv'  BY <2>7, <2>9 DEF RecordsInv
  <2> QED  BY <2>1, <2>2, <2>10, <2>11 DEF PullRequestInv
<1> QED  BY <1>1, <1>2

\* The invariant behind the two theorems below: an open pull request shows its branch, a publisher
\* has not looked past one that was there, and a record tells of a pull request that exists.
THEOREM PullRequestInvariant == Spec => []PullRequestInv
BY PublicationInvariant, PullRequestStart, PullRequestStep, PTL DEF Spec

\* For any number of publishers, however often they are killed and started again and whatever
\* others do to branches and pull requests, no second pull request is made by publish-pr for a
\* branch that had one before it began: it creates one only after it looked and found none.
THEOREM OnlyOnePullRequest == Spec => []NoSecondPull
<1>1. PullRequestInv => NoSecondPull  BY DEF PullRequestInv
<1> QED  BY <1>1, PullRequestInvariant, PTL

\* A record that says published names a pull request of the plan's branch which showed the
\* planned commit, and shows it still unless somebody has pushed on top of it.
THEOREM PublishedShowsThePlan == Spec => []PublishedIsThePlan
<1>1. PullRequestInv => PublishedIsThePlan
  BY DEF PullRequestInv, RecordsInv, Shown, PublishedIsThePlan
<1> QED  BY <1>1, PullRequestInvariant, PTL

-----------------------------------------------------------------------------
(* The dependencies of the artifacts: what is reached along them.            *)

LEMMA Smallest ==
  ASSUME NEW S, S \subseteq Nat, S # {}
  PROVE  \E i \in S : \A j \in S : i <= j
<1>1. PICK i \in S : \A j \in S : <<j, i>> \notin OpToRel(<, Nat)
  <2>1. PICK R : R = OpToRel(<, Nat)  OBVIOUS
  <2>2. IsWellFoundedOn(R, Nat)  BY <2>1, NatLessThanWellFounded
  <2>3. \E i \in S : \A j \in S : <<j, i>> \notin R  BY <2>2, WFMin
  <2> QED  BY <2>1, <2>3
<1>2. \A j \in S : ~(j < i)  BY <1>1 DEF OpToRel
<1> QED  BY <1>2

LEMMA FromTheFirst ==
  ASSUME NEW N \in Nat, NEW S, 0 \in S, \A n \in 1 .. N : n - 1 \in S => n \in S
  PROVE  0 .. N \subseteq S
<1> SUFFICES ASSUME NEW m \in 0 .. N, m \notin S PROVE FALSE  OBVIOUS
<1> DEFINE Bad == {n \in 0 .. N : n \notin S}
<1>1. Bad \subseteq Nat /\ Bad # {}  OBVIOUS
<1>2. PICK n \in Bad : \A j \in Bad : n <= j
  <2>1. PICK T : T = Bad  OBVIOUS
  <2> QED  BY <1>1, <2>1, Smallest
<1>3. n \in 1 .. N /\ n - 1 \in 0 .. N /\ n - 1 < n  BY <1>2
<1>4. n - 1 \in S  BY <1>2, <1>3
<1> QED  BY <1>2, <1>3, <1>4

-----------------------------------------------------------------------------
\* A set that whatever its nodes depend on is in.
Closed(edges, S) == \A x \in S \cap DOMAIN edges : edges[x] \subseteq S

Expand(edges, S) == S \cup UNION {edges[x] : x \in S \cap DOMAIN edges}

\* What is reached in so many steps.
Steps(edges, from, N, g) ==
  /\ DOMAIN g = 0 .. N
  /\ g[0] = {from}
  /\ \A n \in 1 .. N : g[n] = Expand(edges, g[n - 1])

LEMMA StepsExist ==
  ASSUME NEW edges, NEW from, NEW N \in Nat
  PROVE  \E g : Steps(edges, from, N, g)
<1> DEFINE Good == {k \in 0 .. N : \E g : Steps(edges, from, k, g)}
<1>1. 0 \in Good
  <2> DEFINE g == [n \in 0 .. 0 |-> {from}]
  <2>1. Steps(edges, from, 0, g)  BY DEF Steps
  <2> QED  BY <2>1
<1>2. ASSUME NEW k \in 1 .. N, k - 1 \in Good PROVE k \in Good
  <2>1. PICK f : Steps(edges, from, k - 1, f)  BY <1>2
  <2> DEFINE next == [n \in 0 .. k |-> IF n = k THEN Expand(edges, f[k - 1]) ELSE f[n]]
  <2>2. PICK g : g = next  OBVIOUS
  <2>3. DOMAIN g = 0 .. k /\ g[0] = {from}  BY <2>1, <2>2 DEF Steps
  <2>4. ASSUME NEW n \in 1 .. k PROVE g[n] = Expand(edges, g[n - 1])
    <3>1. g[n - 1] = f[n - 1] /\ n - 1 \in 0 .. k - 1  BY <2>2
    <3>2. n # k => n \in 1 .. k - 1 /\ g[n] = f[n]  BY <2>2
    <3>3. n = k => g[n] = Expand(edges, f[k - 1])  BY <2>2
    <3> HIDE DEF next
    <3>4. n # k => f[n] = Expand(edges, f[n - 1])  BY <2>1, <3>2 DEF Steps
    <3> QED  BY <3>1, <3>2, <3>3, <3>4
  <2>5. Steps(edges, from, k, g)  BY <2>3, <2>4 DEF Steps
  <2> QED  BY <2>5
<1>3. PICK S : S = Good  OBVIOUS
<1> HIDE DEF Good
<1>4. 0 .. N \subseteq S  BY <1>1, <1>2, <1>3, FromTheFirst
<1> QED  BY <1>3, <1>4 DEF Good

LEMMA ClosureSteps ==
  ASSUME NEW edges, NEW from, Cardinality(DOMAIN edges) \in Nat
  PROVE  \E g : /\ Steps(edges, from, Cardinality(DOMAIN edges), g)
                /\ Closure(edges, from) = g[Cardinality(DOMAIN edges)]
<1> DEFINE N == Cardinality(DOMAIN edges)
           g == CHOOSE f : f = [n \in 0 .. N |->
                  IF n = 0 THEN {from}
                  ELSE f[n - 1] \cup UNION {edges[x] : x \in f[n - 1] \cap DOMAIN edges}]
<1>1. Closure(edges, from) = g[N]  BY DEF Closure
<1>2. \E f : f = [n \in 0 .. N |->
               IF n = 0 THEN {from}
               ELSE f[n - 1] \cup UNION {edges[x] : x \in f[n - 1] \cap DOMAIN edges}]
  <2>1. N \in Nat  OBVIOUS
  <2> HIDE DEF N
  <2>2. PICK s : Steps(edges, from, N, s)  BY <2>1, StepsExist
  <2>3. PICK f : f = [n \in 0 .. N |-> s[n]]  OBVIOUS
  <2>4. ASSUME NEW n \in 0 .. N
        PROVE  s[n] = IF n = 0 THEN {from}
                      ELSE f[n - 1] \cup UNION {edges[x] : x \in f[n - 1] \cap DOMAIN edges}
    <3>1. n # 0 => n \in 1 .. N /\ f[n - 1] = s[n - 1]  BY <2>1, <2>3
    <3> QED  BY <2>2, <3>1 DEF Steps, Expand
  <2>5. f = [n \in 0 .. N |->
               IF n = 0 THEN {from}
               ELSE f[n - 1] \cup UNION {edges[x] : x \in f[n - 1] \cap DOMAIN edges}]
    BY <2>3, <2>4
  <2> QED  BY <2>5, Zenon
<1>3. g = [n \in 0 .. N |->
               IF n = 0 THEN {from}
               ELSE g[n - 1] \cup UNION {edges[x] : x \in g[n - 1] \cap DOMAIN edges}]
  <2> HIDE DEF N
  <2> QED  BY <1>2
<1>4. PICK f : f = g  OBVIOUS
<1>5. f = [n \in 0 .. N |-> IF n = 0 THEN {from} ELSE Expand(edges, f[n - 1])]
  BY <1>3, <1>4 DEF Expand
<1>6. Steps(edges, from, N, f)
  <2> HIDE DEF N, g
  <2>1. N \in Nat  BY DEF N
  <2>2. DOMAIN f = 0 .. N  BY <1>5
  <2>3. \A n \in 0 .. N : f[n] = IF n = 0 THEN {from} ELSE Expand(edges, f[n - 1])  BY <1>5
  <2> QED  BY <2>1, <2>2, <2>3 DEF Steps
<1> HIDE DEF N, g
<1>7. Steps(edges, from, N, f) /\ Closure(edges, from) = f[N]  BY <1>1, <1>4, <1>6
<1> QED  BY <1>7 DEF N

\* The closure of a node is the least closed set it is in.
LEMMA ClosureIsLeast ==
  ASSUME NEW edges, IsFiniteSet(DOMAIN edges), NEW from
  PROVE  /\ from \in Closure(edges, from)
         /\ Closed(edges, Closure(edges, from))
         /\ \A S : from \in S /\ Closed(edges, S) => Closure(edges, from) \subseteq S
<1>0. PICK N \in Nat : N = Cardinality(DOMAIN edges)  BY FS_CardinalityType
<1>1. PICK D : D = DOMAIN edges /\ N = Cardinality(D)  BY <1>0
<1>2. PICK g : Steps(edges, from, N, g) /\ Closure(edges, from) = g[N]  BY <1>1, ClosureSteps
<1>3. /\ g[0] = {from}
      /\ \A n \in 1 .. N : g[n] = Expand(edges, g[n - 1])
  BY <1>2 DEF Steps
<1>4. from \in g[N]
  <2> DEFINE Good == {n \in 0 .. N : from \in g[n]}
  <2>1. 0 \in Good  BY <1>3
  <2>2. ASSUME NEW n \in 1 .. N, n - 1 \in Good PROVE n \in Good
    <3>1. from \in g[n - 1] /\ g[n] = Expand(edges, g[n - 1])  BY <1>3, <2>2
    <3> QED  BY <3>1 DEF Expand
  <2>3. PICK G : G = Good  OBVIOUS
  <2> HIDE DEF Good
  <2>4. 0 .. N \subseteq G  BY <2>1, <2>2, <2>3, FromTheFirst
  <2>5. N \in Good  BY <2>3, <2>4
  <2> QED  BY <2>5 DEF Good
<1>5. ASSUME NEW S, from \in S, Closed(edges, S) PROVE g[N] \subseteq S
  <2> DEFINE Good == {n \in 0 .. N : g[n] \subseteq S}
  <2>1. 0 \in Good  BY <1>3, <1>5
  <2>2. ASSUME NEW n \in 1 .. N, n - 1 \in Good PROVE n \in Good
    <3>1. g[n - 1] \subseteq S /\ g[n] = Expand(edges, g[n - 1])  BY <1>3, <2>2
    <3>2. g[n] \subseteq S  BY <1>5, <3>1 DEF Expand, Closed
    <3> QED  BY <3>2
  <2>3. PICK G : G = Good  OBVIOUS
  <2> HIDE DEF Good
  <2>4. 0 .. N \subseteq G  BY <2>1, <2>2, <2>3, FromTheFirst
  <2>5. N \in Good  BY <2>3, <2>4
  <2> QED  BY <2>5 DEF Good
\* As long as a step adds something, it adds what one more node depends on.
<1>6. Closed(edges, g[N])
  <2> SUFFICES ASSUME ~Closed(edges, g[N]) PROVE FALSE  OBVIOUS
  <2>1. ASSUME NEW n \in 0 .. N PROVE ~Closed(edges, g[n])
    <3> SUFFICES ASSUME Closed(edges, g[n]) PROVE FALSE  OBVIOUS
    <3> DEFINE Good == {m \in 0 .. N : m >= n => g[m] = g[n]}
    <3>1. 0 \in Good
      <4>1. 0 >= n => n = 0  OBVIOUS
      <4> QED  BY <4>1
    <3>2. ASSUME NEW m \in 1 .. N, m - 1 \in Good PROVE m \in Good
      <4>1. CASE m <= n
        <5>1. m >= n => m = n  BY <4>1
        <5> QED  BY <5>1
      <4>2. CASE m > n
        <5>1. g[m - 1] = g[n] /\ g[m] = Expand(edges, g[m - 1])  BY <1>3, <3>2, <4>2
        <5>2. Expand(edges, g[n]) = g[n]  BY DEF Expand, Closed
        <5> QED  BY <5>1, <5>2
      <4> QED  BY <4>1, <4>2
    <3>3. PICK G : G = Good  OBVIOUS
    <3> HIDE DEF Good
    <3>4. 0 .. N \subseteq G  BY <3>1, <3>2, <3>3, FromTheFirst
    <3>5. N \in Good  BY <3>3, <3>4
    <3>6. g[N] = g[n]  BY <3>5 DEF Good
    <3> QED  BY <3>6
  <2> DEFINE Good == {n \in 0 .. N : Cardinality(g[n] \cap D) >= n + 1}
  <2>2. ASSUME NEW n \in 0 .. N
        PROVE  IsFiniteSet(g[n] \cap D) /\ Cardinality(g[n] \cap D) \in Nat
               /\ Cardinality(g[n] \cap D) <= N
    <3>1. g[n] \cap D \in SUBSET D  OBVIOUS
    <3>2. IsFiniteSet(g[n] \cap D) /\ Cardinality(g[n] \cap D) <= N  BY <1>1, <3>1, FS_Subset
    <3> QED  BY <3>2, FS_CardinalityType
  <2>3. 0 \in Good
    <3>1. from \in g[0] \cap D  BY <1>1, <1>3, <2>1 DEF Closed
    <3>2. Cardinality(g[0] \cap D) # 0  BY <2>2, <3>1, FS_EmptySet
    <3> QED  BY <2>2, <3>2
  <2>4. ASSUME NEW n \in 1 .. N, n - 1 \in Good PROVE n \in Good
    <3>1. g[n] = Expand(edges, g[n - 1])  BY <1>3
    <3>2. PICK y \in g[n] \cap D : ~(edges[y] \subseteq g[n])  BY <1>1, <2>1 DEF Closed
    <3>3. y \notin g[n - 1]  BY <1>1, <3>1, <3>2 DEF Expand
    <3>4. PICK A, B : A = g[n - 1] \cap D /\ B = g[n] \cap D  OBVIOUS
    <3>5. A \cup {y} \in SUBSET B /\ y \notin A
      <4>1. g[n - 1] \subseteq g[n]  BY <3>1 DEF Expand
      <4> QED  BY <3>2, <3>3, <3>4, <4>1
    <3>6. n - 1 \in 0 .. N /\ n \in 0 .. N  OBVIOUS
    <3>7. IsFiniteSet(A) /\ Cardinality(A) \in Nat /\ IsFiniteSet(B) /\ Cardinality(B) \in Nat
      BY <2>2, <3>4, <3>6
    <3>8. Cardinality(A \cup {y}) = Cardinality(A) + 1  BY <3>5, <3>7, FS_AddElement
    <3>9. Cardinality(A \cup {y}) <= Cardinality(B)  BY <3>5, <3>7, FS_Subset
    <3>10. Cardinality(A) >= n  BY <2>4, <3>4
    <3>11. Cardinality(B) >= n + 1  BY <3>7, <3>8, <3>9, <3>10
    <3> QED  BY <3>4, <3>6, <3>11
  <2>5. PICK G : G = Good  OBVIOUS
  <2> HIDE DEF Good
  <2>6. 0 .. N \subseteq G  BY <2>3, <2>4, <2>5, FromTheFirst
  <2>7. N \in Good  BY <2>5, <2>6
  <2>8. Cardinality(g[N] \cap D) >= N + 1  BY <2>7 DEF Good
  <2>9. Cardinality(g[N] \cap D) \in Nat /\ Cardinality(g[N] \cap D) <= N  BY <2>2
  <2> QED  BY <2>8, <2>9
<1> QED  BY <1>2, <1>4, <1>5, <1>6

\* With no node among what it depends on, a dependency's closure is smaller.
Depth(edges, x) == Cardinality(Closure(edges, x))

LEMMA ClosuresShrink ==
  ASSUME NEW edges, IsFiniteSet(DOMAIN edges), Acyclic(edges), Closed(edges, DOMAIN edges)
  PROVE  /\ \A x \in DOMAIN edges : /\ Closure(edges, x) \subseteq DOMAIN edges
                                   /\ Depth(edges, x) \in Nat
         /\ \A x \in DOMAIN edges : \A d \in edges[x] :
              /\ d \in DOMAIN edges
              /\ Closure(edges, d) \subseteq Closure(edges, x)
              /\ Depth(edges, d) < Depth(edges, x)
<1>1. ASSUME NEW x \in DOMAIN edges
      PROVE  /\ Closure(edges, x) \subseteq DOMAIN edges
             /\ IsFiniteSet(Closure(edges, x))
             /\ Depth(edges, x) \in Nat
  <2>1. Closure(edges, x) \subseteq DOMAIN edges  BY ClosureIsLeast
  <2>2. IsFiniteSet(Closure(edges, x))  BY <2>1, FS_Subset
  <2> QED  BY <2>1, <2>2, FS_CardinalityType DEF Depth
<1>2. ASSUME NEW x \in DOMAIN edges, NEW d \in edges[x]
      PROVE  /\ d \in DOMAIN edges
             /\ Closure(edges, d) \subseteq Closure(edges, x)
             /\ Depth(edges, d) < Depth(edges, x)
  <2>1. d \in DOMAIN edges  BY DEF Closed
  <2>2. x \in Closure(edges, x) /\ Closed(edges, Closure(edges, x))  BY ClosureIsLeast
  <2>3. d \in Closure(edges, x)  BY <2>2 DEF Closed
  <2>4. Closure(edges, d) \subseteq Closure(edges, x)  BY <2>2, <2>3, ClosureIsLeast
  <2>5. x \notin Closure(edges, d)  BY DEF Acyclic
  <2>6. PICK A, B : A = Closure(edges, d) /\ B = Closure(edges, x)  OBVIOUS
  <2>7. IsFiniteSet(B) /\ A \in SUBSET B /\ A # B  BY <1>1, <2>2, <2>4, <2>5, <2>6
  <2>8. Cardinality(A) <= Cardinality(B) /\ Cardinality(A) # Cardinality(B)  BY <2>7, FS_Subset
  <2>9. Cardinality(A) \in Nat /\ Cardinality(B) \in Nat  BY <1>1, <2>1, <2>6 DEF Depth
  <2>10. Depth(edges, d) < Depth(edges, x)  BY <2>6, <2>8, <2>9 DEF Depth
  <2> QED  BY <2>1, <2>4, <2>10
<1> QED  BY <1>1, <1>2

-----------------------------------------------------------------------------
LEMMA LoadedEdges ==
  ASSUME NEW records, LedgerLoads(records), IsFiniteSet(DOMAIN records)
  PROVE  \E edges :
           /\ edges = DependencyEdges(records)
           /\ DOMAIN edges = DOMAIN records /\ IsFiniteSet(DOMAIN edges)
           /\ \A a \in DOMAIN records : edges[a] = DOMAIN records[a].depends_on
           /\ Acyclic(edges) /\ Closed(edges, DOMAIN edges)
<1>1. PICK edges : edges = DependencyEdges(records)  OBVIOUS
<1>2. DOMAIN edges = DOMAIN records /\ \A a \in DOMAIN records : edges[a] = DOMAIN records[a].depends_on
  BY <1>1 DEF DependencyEdges
<1>3. Acyclic(edges)  BY <1>1 DEF LedgerLoads
<1>4. \A a \in DOMAIN records : DOMAIN records[a].depends_on \subseteq DOMAIN records  BY DEF LedgerLoads
<1>5. Closed(edges, DOMAIN edges)  BY <1>2, <1>4 DEF Closed
<1> QED  BY <1>1, <1>2, <1>3, <1>5

\* The state of a record, by those of what it depends on.
StateOf(records, state, a) ==
  IF file[a] # records[a].content THEN "invalid"
  ELSE IF \E d \in DOMAIN records[a].depends_on :
             records[d].content # records[a].depends_on[d] \/ state[d] # "valid"
       THEN "needs-revalidation"
       ELSE "valid"

\* The states of the records down to some depth are determined.
LEMMA StatesExist ==
  ASSUME NEW records, LedgerLoads(records), IsFiniteSet(DOMAIN records)
  PROVE  \E state : /\ DOMAIN state = DOMAIN records
                    /\ \A a \in DOMAIN records : state[a] = StateOf(records, state, a)
<1>1. PICK edges :
        /\ edges = DependencyEdges(records)
        /\ DOMAIN edges = DOMAIN records /\ IsFiniteSet(DOMAIN edges)
        /\ \A a \in DOMAIN records : edges[a] = DOMAIN records[a].depends_on
        /\ Acyclic(edges) /\ Closed(edges, DOMAIN edges)
  BY LoadedEdges
<1>2. PICK N \in Nat : N = Cardinality(DOMAIN records)  BY FS_CardinalityType
<1> DEFINE depth(a) == Depth(edges, a)
           Down(k) == {a \in DOMAIN records : depth(a) <= k}
           Fits(state, k) == /\ DOMAIN state = Down(k)
                             /\ \A a \in Down(k) : state[a] = StateOf(records, state, a)
           Good == {k \in 0 .. N : \E state : Fits(state, k)}
<1>3. /\ \A a \in DOMAIN records : depth(a) \in Nat /\ depth(a) <= N /\ depth(a) # 0
      /\ \A a \in DOMAIN records : \A d \in DOMAIN records[a].depends_on :
           d \in DOMAIN records /\ depth(d) < depth(a)
  <2>1. ASSUME NEW a \in DOMAIN records PROVE depth(a) \in Nat /\ depth(a) <= N /\ depth(a) # 0
    <3>1. Closure(edges, a) \in SUBSET DOMAIN records  BY <1>1, ClosuresShrink
    <3>2. IsFiniteSet(Closure(edges, a)) /\ Cardinality(Closure(edges, a)) <= N
      BY <1>2, <3>1, FS_Subset
    <3>3. a \in Closure(edges, a)  BY <1>1, ClosureIsLeast
    <3>4. Cardinality(Closure(edges, a)) \in Nat /\ Cardinality(Closure(edges, a)) # 0
      BY <3>2, <3>3, FS_CardinalityType, FS_EmptySet
    <3> QED  BY <3>2, <3>4 DEF Depth
  <2>2. ASSUME NEW a \in DOMAIN records, NEW d \in DOMAIN records[a].depends_on
        PROVE  d \in DOMAIN records /\ depth(d) < depth(a)
    <3>1. d \in edges[a]  BY <1>1
    <3> QED  BY <1>1, <3>1, ClosuresShrink
  <2> QED  BY <2>1, <2>2
<1> HIDE DEF depth
<1>4. 0 \in Good
  <2>1. Down(0) = {}  BY <1>3
  <2>2. PICK state : state = [a \in {} |-> "valid"]  OBVIOUS
  <2>3. Fits(state, 0)  BY <2>1, <2>2
  <2> HIDE DEF Fits
  <2> QED  BY <2>3
<1>5. ASSUME NEW k \in 1 .. N, k - 1 \in Good PROVE k \in Good
  <2>1. PICK old : Fits(old, k - 1)
    <3> HIDE DEF Fits
    <3> QED  BY <1>5
  <2>2. PICK state : state = [a \in Down(k) |-> StateOf(records, old, a)]  OBVIOUS
  <2>3. ASSUME NEW a \in Down(k - 1) PROVE state[a] = old[a]
    <3>1. a \in Down(k)  BY <1>3
    <3>2. state[a] = StateOf(records, old, a)  BY <2>2, <3>1
    <3> QED  BY <2>1, <3>2
  <2>4. ASSUME NEW a \in Down(k) PROVE state[a] = StateOf(records, state, a)
    <3>1. \A d \in DOMAIN records[a].depends_on : d \in Down(k - 1)  BY <1>3
    <3>2. \A d \in DOMAIN records[a].depends_on : state[d] = old[d]  BY <2>3, <3>1
    <3>3. state[a] = StateOf(records, old, a)  BY <2>2
    <3> HIDE DEF Down
    <3> QED  BY <3>2, <3>3 DEF StateOf
  <2>5. Fits(state, k)  BY <2>2, <2>4
  <2>6. k \in 0 .. N  OBVIOUS
  <2> HIDE DEF Fits
  <2> QED  BY <2>5, <2>6
<1>6. PICK G : G = Good  OBVIOUS
<1>7. 0 .. N \subseteq G
  <2> HIDE DEF Good
  <2> QED  BY <1>4, <1>5, <1>6, FromTheFirst
<1>8. PICK state : Fits(state, N)
  <2> HIDE DEF Fits
  <2> QED  BY <1>6, <1>7
<1>9. Down(N) = DOMAIN records  BY <1>3
<1> QED  BY <1>8, <1>9

LEMMA DeriveStatesIs ==
  ASSUME NEW records, LedgerLoads(records), IsFiniteSet(DOMAIN records)
  PROVE  \A a \in DOMAIN records :
           DeriveStates(records)[a] = StateOf(records, DeriveStates(records), a)
<1> DEFINE D == DOMAIN records
           states == CHOOSE state : state = [a \in D |->
                       IF file[a] # records[a].content THEN "invalid"
                       ELSE IF \E d \in DOMAIN records[a].depends_on :
                                  records[d].content # records[a].depends_on[d] \/ state[d] # "valid"
                            THEN "needs-revalidation"
                            ELSE "valid"]
<1>1. DeriveStates(records) = states  BY DEF DeriveStates
<1>2. \E state : state = [a \in D |->
                       IF file[a] # records[a].content THEN "invalid"
                       ELSE IF \E d \in DOMAIN records[a].depends_on :
                                  records[d].content # records[a].depends_on[d] \/ state[d] # "valid"
                            THEN "needs-revalidation"
                            ELSE "valid"]
  <2>1. PICK s : DOMAIN s = D /\ \A a \in D : s[a] = StateOf(records, s, a)  BY StatesExist
  <2>2. PICK state : state = [a \in D |-> s[a]]  OBVIOUS
  <2> HIDE DEF D
  <2>3. ASSUME NEW a \in D
        PROVE  s[a] = IF file[a] # records[a].content THEN "invalid"
                       ELSE IF \E d \in DOMAIN records[a].depends_on :
                                  records[d].content # records[a].depends_on[d] \/ state[d] # "valid"
                            THEN "needs-revalidation"
                            ELSE "valid"
    <3>1. \A d \in DOMAIN records[a].depends_on : d \in D  BY DEF D, LedgerLoads
    <3>2. \A d \in DOMAIN records[a].depends_on : state[d] = s[d]  BY <2>2, <3>1
    <3> QED  BY <2>1, <3>2 DEF StateOf
  <2>4. state = [a \in D |->
                       IF file[a] # records[a].content THEN "invalid"
                       ELSE IF \E d \in DOMAIN records[a].depends_on :
                                  records[d].content # records[a].depends_on[d] \/ state[d] # "valid"
                            THEN "needs-revalidation"
                            ELSE "valid"]
    BY <2>2, <2>3
  <2> QED  BY <2>4, Zenon
<1>3. states = [a \in D |->
                       IF file[a] # records[a].content THEN "invalid"
                       ELSE IF \E d \in DOMAIN records[a].depends_on :
                                  records[d].content # records[a].depends_on[d] \/ states[d] # "valid"
                            THEN "needs-revalidation"
                            ELSE "valid"]
  <2> HIDE DEF D
  <2> QED  BY <1>2
<1>4. PICK state : state = states  OBVIOUS
<1> HIDE DEF states
<1>5. \A a \in D : state[a] = StateOf(records, state, a)  BY <1>3, <1>4 DEF StateOf
<1> QED  BY <1>1, <1>4, <1>5

\* A record is valid when everything its dependencies lead to is as accepted.
Holds(records, x) ==
  /\ file[x] = records[x].content
  /\ \A d \in DOMAIN records[x].depends_on : records[d].content = records[x].depends_on[d]

LEMMA ValidIs ==
  ASSUME NEW records, LedgerLoads(records), IsFiniteSet(DOMAIN records), NEW a \in DOMAIN records
  PROVE  DeriveStates(records)[a] = "valid" <=>
           \A x \in Closure(DependencyEdges(records), a) : Holds(records, x)
<1>1. PICK edges :
        /\ edges = DependencyEdges(records)
        /\ DOMAIN edges = DOMAIN records /\ IsFiniteSet(DOMAIN edges)
        /\ \A x \in DOMAIN records : edges[x] = DOMAIN records[x].depends_on
        /\ Acyclic(edges) /\ Closed(edges, DOMAIN edges)
  BY LoadedEdges
<1>2. PICK state : state = DeriveStates(records)  OBVIOUS
<1>3. ASSUME NEW x \in DOMAIN records
      PROVE  state[x] = "valid" <=>
               Holds(records, x) /\ \A d \in edges[x] : state[d] = "valid"
  <2>1. state[x] = StateOf(records, state, x)  BY <1>2, DeriveStatesIs
  <2> QED  BY <1>1, <2>1 DEF StateOf, Holds
<1>4. ASSUME state[a] = "valid" PROVE \A x \in Closure(edges, a) : Holds(records, x)
  <2>1. PICK S : S = {x \in DOMAIN records : state[x] = "valid"}  OBVIOUS
  <2>2. ASSUME NEW x \in S \cap DOMAIN edges PROVE edges[x] \subseteq S
    <3>1. x \in DOMAIN records /\ state[x] = "valid"  BY <2>1
    <3>2. edges[x] \subseteq DOMAIN records  BY <1>1, <3>1 DEF Closed
    <3>3. \A d \in edges[x] : state[d] = "valid"  BY <1>3, <3>1
    <3> QED  BY <2>1, <3>2, <3>3
  <2>3. Closed(edges, S)  BY <2>2 DEF Closed
  <2>4. a \in S  BY <1>4, <2>1
  <2>5. Closure(edges, a) \subseteq S  BY <1>1, <2>3, <2>4, ClosureIsLeast
  <2>6. \A x \in S : Holds(records, x)  BY <1>3, <2>1
  <2> QED  BY <2>5, <2>6
<1>5. ASSUME \A x \in Closure(edges, a) : Holds(records, x) PROVE state[a] = "valid"
  <2>1. PICK Bad : Bad = {x \in DOMAIN records : /\ \A y \in Closure(edges, x) : Holds(records, y)
                                                 /\ state[x] # "valid"}
    OBVIOUS
  <2> SUFFICES ASSUME a \in Bad PROVE FALSE  BY <1>5, <2>1
  <2>2. PICK T : T = {Depth(edges, x) : x \in Bad}  OBVIOUS
  <2>3. T \subseteq Nat /\ T # {}  BY <1>1, <2>1, <2>2, ClosuresShrink
  <2>4. PICK m \in T : \A j \in T : m <= j  BY <2>3, Smallest
  <2>5. PICK x \in Bad : m = Depth(edges, x)  BY <2>2, <2>4
  <2>6. x \in DOMAIN records /\ x \in DOMAIN edges  BY <1>1, <2>1
  <2>7. x \in Closure(edges, x)  BY <1>1, ClosureIsLeast
  <2>8. Holds(records, x)  BY <2>1, <2>7
  <2>9. PICK d \in edges[x] : state[d] # "valid"  BY <1>3, <2>1, <2>6, <2>8
  <2>10. /\ d \in DOMAIN records /\ Closure(edges, d) \subseteq Closure(edges, x)
         /\ Depth(edges, d) < Depth(edges, x)
    BY <1>1, <2>6, ClosuresShrink
  <2>11. d \in Bad  BY <2>1, <2>9, <2>10
  <2>12. Depth(edges, d) \in T  BY <2>2, <2>11
  <2>13. PICK n \in T : n = Depth(edges, d)  BY <2>12
  <2>14. m \in Nat /\ n \in Nat /\ m <= n /\ n < m  BY <2>3, <2>4, <2>5, <2>10, <2>13
  <2> QED  BY <2>14
<1> QED  BY <1>1, <1>2, <1>4, <1>5

\* Without some of its nodes, what had no cycle has none.
LEMMA SubgraphIsAcyclic ==
  ASSUME NEW edges, IsFiniteSet(DOMAIN edges), Acyclic(edges),
         NEW sub, DOMAIN sub \subseteq DOMAIN edges, \A x \in DOMAIN sub : sub[x] = edges[x]
  PROVE  Acyclic(sub)
<1>1. IsFiniteSet(DOMAIN sub)  BY FS_Subset
<1>2. ASSUME NEW d PROVE Closure(sub, d) \subseteq Closure(edges, d)
  <2>1. d \in Closure(edges, d) /\ Closed(edges, Closure(edges, d))  BY ClosureIsLeast
  <2>2. Closed(sub, Closure(edges, d))  BY <2>1 DEF Closed
  <2> QED  BY <1>1, <2>1, <2>2, ClosureIsLeast
<1> QED  BY <1>2 DEF Acyclic

-----------------------------------------------------------------------------
\* A ledger that loads, of the project's artifacts.
Sound(records) == DOMAIN records \subseteq Artifact /\ LedgerLoads(records)

\* Whatever was written or is about to be loads, and a consistency record rests on a review of
\* its candidate.
AuthorityInv ==
  /\ DOMAIN pending = Command /\ DOMAIN task = Task
  /\ ledger # NoValue => Sound(ledger)
  /\ \A p \in Command : pending[p] # NoValue => Sound(pending[p].records)
  /\ \A f \in DOMAIN consistency :
       /\ consistency[f] \in Task
       /\ task[consistency[f]] # NoValue
       /\ task[consistency[f]].purpose = "consistency-reflection"
       /\ task[consistency[f]].candidate = f

LEMMA SoundIsFinite ==
  ASSUME NEW records, Sound(records)
  PROVE  IsFiniteSet(DOMAIN records)
BY AuthorityAssumption, FS_Subset DEF Sound

LEMMA RecordedIsSound ==
  ASSUME NEW records, Sound(records), NEW a \in Artifact, NEW entry,
         RoleQualifies(entry.purpose, entry.role), DOMAIN entry.depends_on \subseteq DOMAIN records,
         Acyclic(DependencyEdges(Put(records, a, entry)))
  PROVE  Sound(Put(records, a, entry))
<1>1. PICK new : new = Put(records, a, entry)  OBVIOUS
<1>2. DOMAIN new = DOMAIN records \cup {a}
      /\ \A x \in DOMAIN new : new[x] = IF x = a THEN entry ELSE records[x]
  BY <1>1 DEF Put
<1>3. ASSUME NEW x \in DOMAIN new
      PROVE  /\ RoleQualifies(new[x].purpose, new[x].role)
             /\ DOMAIN new[x].depends_on \subseteq DOMAIN new
  BY <1>2 DEF Sound, LedgerLoads
<1> QED  BY <1>1, <1>2, <1>3 DEF Sound, LedgerLoads

LEMMA WithdrawnIsSound ==
  ASSUME NEW records, Sound(records), NEW a,
         \A x \in DOMAIN records \ {a} : a \notin DOMAIN records[x].depends_on
  PROVE  Sound(Restrict(records, DOMAIN records \ {a}))
<1>1. PICK new : new = Restrict(records, DOMAIN records \ {a})  OBVIOUS
<1>2. DOMAIN new = DOMAIN records \ {a} /\ \A x \in DOMAIN new : new[x] = records[x]
  BY <1>1 DEF Restrict
<1>3. ASSUME NEW x \in DOMAIN new
      PROVE  /\ RoleQualifies(new[x].purpose, new[x].role)
             /\ DOMAIN new[x].depends_on \subseteq DOMAIN new
  BY <1>2 DEF Sound, LedgerLoads
<1>4. Acyclic(DependencyEdges(new))
  <2>1. PICK edges : edges = DependencyEdges(records) /\ DOMAIN edges = DOMAIN records
                     /\ IsFiniteSet(DOMAIN edges) /\ Acyclic(edges)
                     /\ \A x \in DOMAIN records : edges[x] = DOMAIN records[x].depends_on
    BY SoundIsFinite, LoadedEdges DEF Sound
  <2>2. PICK sub : sub = DependencyEdges(new)  OBVIOUS
  <2>3. DOMAIN sub = DOMAIN new /\ \A x \in DOMAIN new : sub[x] = DOMAIN new[x].depends_on
    BY <2>2 DEF DependencyEdges
  <2>4. DOMAIN sub \subseteq DOMAIN edges /\ \A x \in DOMAIN sub : sub[x] = edges[x]
    BY <1>2, <2>1, <2>3
  <2> QED  BY <2>1, <2>2, <2>4, SubgraphIsAcyclic
<1> QED  BY <1>1, <1>2, <1>3, <1>4 DEF Sound, LedgerLoads

LEMMA AuthorityStart == AuthorityInit => AuthorityInv
<1> SUFFICES ASSUME AuthorityInit PROVE AuthorityInv  OBVIOUS
<1>1. \A p \in Command : pending[p] = NoValue  BY DEF AuthorityInit
<1>2. DOMAIN pending = Command /\ DOMAIN task = Task /\ ledger = NoValue /\ DOMAIN consistency = {}
  BY DEF AuthorityInit
<1> QED  BY <1>1, <1>2 DEF AuthorityInv

\* What a command is about to write is sound.
LEMMA PendingStep ==
  ASSUME AuthorityInv, NEW p \in Command, NEW records, Sound(records),
         pending' = [pending EXCEPT ![p] = [records |-> records]],
         UNCHANGED <<ledger, task, consistency>>
  PROVE  AuthorityInv'
<1>1. DOMAIN pending' = Command  BY DEF AuthorityInv
<1>2. pending'[p].records = records  BY DEF AuthorityInv
<1>3. \A q \in Command \ {p} : pending'[q] = pending[q]  BY DEF AuthorityInv
<1>4. Sound(records)' = Sound(records)  BY DEF Sound, LedgerLoads
<1>5. ASSUME NEW q \in Command, pending'[q] # NoValue PROVE Sound(pending'[q].records)
  BY <1>2, <1>3, <1>5 DEF AuthorityInv
<1> QED  BY <1>1, <1>5 DEF AuthorityInv, Sound, LedgerLoads

LEMMA AuthorityStep ==
  ASSUME AuthorityInv, AuthorityNext
  PROVE  AuthorityInv'
<1>1. CASE UNCHANGED <<ledger, task, consistency, pending>>
  BY <1>1 DEF AuthorityInv, Sound, LedgerLoads
<1>2. ASSUME NEW p \in Command, NEW t \in Task, NEW a \in Artifact, NEW D \in SUBSET Artifact,
             Record(p, t, a, D)
      PROVE  AuthorityInv'
  <2>1. PICK loaded, entry :
          /\ loaded = IF ledger = NoValue THEN [x \in {} |-> NoValue] ELSE ledger
          /\ entry = [content |-> file[a], purpose |-> task[t].purpose, role |-> task[t].role,
                      gate |-> t, depends_on |-> [d \in D |-> loaded[d].content]]
    OBVIOUS
  <2>2. /\ RoleQualifies(task[t].purpose, task[t].role)
        /\ LedgerLoads(loaded)
        /\ D \subseteq DOMAIN loaded \ {a}
        /\ Acyclic(DependencyEdges(Put(loaded, a, entry)))
        /\ pending' = [pending EXCEPT ![p] = [records |-> Put(loaded, a, entry)]]
        /\ UNCHANGED <<ledger, task, consistency>>
    BY <1>2, <2>1 DEF Record
  <2>3. Sound(loaded)  BY <2>1, <2>2 DEF Sound, AuthorityInv
  <2>4. RoleQualifies(entry.purpose, entry.role) /\ DOMAIN entry.depends_on = D  BY <2>1, <2>2
  <2>5. Sound(Put(loaded, a, entry))  BY <2>2, <2>3, <2>4, RecordedIsSound
  <2> QED  BY <2>2, <2>5, PendingStep
<1>3. ASSUME NEW p \in Command, NEW a \in Artifact, Withdraw(p, a) PROVE AuthorityInv'
  <2>1. PICK records : records = Restrict(ledger, DOMAIN ledger \ {a})  OBVIOUS
  <2>2. /\ ledger # NoValue
        /\ \A x \in DOMAIN ledger \ {a} : a \notin DOMAIN ledger[x].depends_on
        /\ pending' = [pending EXCEPT ![p] = [records |-> records]]
        /\ UNCHANGED <<ledger, task, consistency>>
    BY <1>3, <2>1 DEF Withdraw
  <2>3. Sound(records)  BY <2>1, <2>2, WithdrawnIsSound DEF AuthorityInv
  <2> QED  BY <2>2, <2>3, PendingStep
<1>4. ASSUME NEW p \in Command, ReplaceLedger(p) PROVE AuthorityInv'
  <2>1. /\ pending[p] # NoValue /\ ledger' = pending[p].records
        /\ pending' = [pending EXCEPT ![p] = NoValue]
        /\ UNCHANGED <<task, consistency>>
    BY <1>4 DEF ReplaceLedger
  <2>2. DOMAIN pending' = Command /\ \A q \in Command : pending'[q] # NoValue => pending'[q] = pending[q]
    BY <2>1 DEF AuthorityInv
  <2>3. Sound(ledger')  BY <2>1 DEF AuthorityInv
  <2> QED  BY <2>1, <2>2, <2>3 DEF AuthorityInv, Sound, LedgerLoads
<1>5. ASSUME NEW p \in Command, KillCommand(p) PROVE AuthorityInv'
  <2>1. /\ pending' = [pending EXCEPT ![p] = NoValue]
        /\ UNCHANGED <<ledger, task, consistency>>
    BY <1>5 DEF KillCommand
  <2>2. DOMAIN pending' = Command /\ \A q \in Command : pending'[q] # NoValue => pending'[q] = pending[q]
    BY <2>1 DEF AuthorityInv
  <2> QED  BY <2>1, <2>2 DEF AuthorityInv, Sound, LedgerLoads
<1>6. ASSUME NEW t \in Task, NEW purpose, NEW boundary, NEW candidate,
             AcceptTask(t, purpose, boundary, candidate)
      PROVE  AuthorityInv'
  <2>1. PICK accepted : task' = [task EXCEPT ![t] = accepted]  BY <1>6, Zenon DEF AcceptTask
  <2>2. task[t] = NoValue /\ UNCHANGED <<ledger, consistency, pending>>  BY <1>6 DEF AcceptTask
  <2>3. DOMAIN task' = Task /\ \A u \in Task : task[u] # NoValue => task'[u] = task[u]
    BY <2>1, <2>2 DEF AuthorityInv
  <2> QED  BY <2>2, <2>3 DEF AuthorityInv, Sound, LedgerLoads
<1>7. ASSUME NEW t \in Task, NEW f \in freezes, RecordConsistency(t, f) PROVE AuthorityInv'
  <2>1. /\ task[t] # NoValue /\ task[t].purpose = "consistency-reflection" /\ task[t].candidate = f
        /\ consistency' = Put(consistency, f, t)
        /\ UNCHANGED <<ledger, task, pending>>
    BY <1>7 DEF RecordConsistency
  <2>2. \A g \in DOMAIN consistency' :
          IF g = f THEN consistency'[g] = t ELSE g \in DOMAIN consistency /\ consistency'[g] = consistency[g]
    BY <2>1 DEF Put
  <2> QED  BY <2>1, <2>2 DEF AuthorityInv, Sound, LedgerLoads
<1>8. ASSUME NEW a, NEW c, Edit(a, c) PROVE AuthorityInv'
  <2>1. UNCHANGED <<ledger, task, consistency, pending>>  BY <1>8 DEF Edit
  <2> QED  BY <1>1, <2>1
<1>9. ASSUME NEW g, DeclareGraph(g) PROVE AuthorityInv'
  <2>1. UNCHANGED <<ledger, task, consistency, pending>>  BY <1>9 DEF DeclareGraph
  <2> QED  BY <1>1, <2>1
<1>10. ASSUME LoseRun \/ (\E t \in Task : ChangeGate(t)) PROVE AuthorityInv'
  <2>1. UNCHANGED <<ledger, task, consistency, pending>>  BY <1>10 DEF LoseRun, ChangeGate
  <2> QED  BY <1>1, <2>1
<1>11. ASSUME (\E consulted \in BOOLEAN : CreateFreeze(consulted)) \/ (\E f \in freezes : Admit(f))
       PROVE AuthorityInv'
  <2>1. UNCHANGED <<ledger, task, consistency, pending>>  BY <1>11 DEF CreateFreeze, Admit
  <2> QED  BY <1>1, <2>1
<1> QED  BY <1>2, <1>3, <1>4, <1>5, <1>6, <1>7, <1>8, <1>9, <1>10, <1>11 DEF AuthorityNext

\* However ledger commands overlap and are killed, what they leave is a ledger without cycles.
THEOREM AuthorityInvariant == AuthoritySpec => []AuthorityInv
<1>1. AuthorityInit => AuthorityInv  BY AuthorityStart
<1>2. AuthorityInv /\ [AuthorityNext]_authorityVars => AuthorityInv'
  <2>1. AuthorityInv /\ UNCHANGED authorityVars => AuthorityInv'
    BY DEF authorityVars, AuthorityInv, Sound, LedgerLoads
  <2> QED  BY <2>1, AuthorityStep
<1> QED  BY <1>1, <1>2, PTL DEF AuthoritySpec

\* A record is valid exactly when all it stands on is as accepted, and validate only succeeds if
\* that is so of every record and no retained gate was changed.
THEOREM ValidRecordsHold == AuthoritySpec => []ValidMeansGroundHolds
<1>1. AuthorityInv => ValidMeansGroundHolds
  <2> SUFFICES ASSUME AuthorityInv, ledger # NoValue
               PROVE  ValidMeansGroundHolds
    BY DEF ValidMeansGroundHolds
  <2>1. Sound(ledger) /\ LedgerLoads(ledger) /\ IsFiniteSet(DOMAIN ledger)
    BY SoundIsFinite DEF AuthorityInv, Sound
  <2> DEFINE holds(a) == \A x \in Closure(DependencyEdges(ledger), a) :
                           /\ file[x] = ledger[x].content
                           /\ \A d \in DOMAIN ledger[x].depends_on :
                                ledger[d].content = ledger[x].depends_on[d]
  <2>2. ASSUME NEW a \in DOMAIN ledger PROVE DeriveStates(ledger)[a] = "valid" <=> holds(a)
    <3>1. DeriveStates(ledger)[a] = "valid" <=>
            \A x \in Closure(DependencyEdges(ledger), a) : Holds(ledger, x)
      BY <2>1, ValidIs
    <3> QED  BY <3>1 DEF Holds
  <2>3. ASSUME ValidateLedger(TRUE).ok, NEW a \in DOMAIN ledger
        PROVE  holds(a) /\ gate[ledger[a].gate] # "changed"
    <3>1. PICK overall, provenance :
            provenance = Provenance(ledger, TRUE) /\ overall = Overall(provenance)
      OBVIOUS
    <3>2. (\A x \in DOMAIN ledger : DeriveStates(ledger)[x] = "valid") /\ overall # "contradicted"
      BY <2>3, <3>1 DEF ValidateLedger
    <3>3. DOMAIN provenance = DOMAIN ledger
          /\ (gate[ledger[a].gate] = "changed" => provenance[a] = "contradicted")
      BY <3>1 DEF Provenance
    <3>4. "contradicted" \notin {provenance[x] : x \in DOMAIN provenance}
      BY <3>1, <3>2 DEF Overall
    <3>5. gate[ledger[a].gate] # "changed"  BY <3>3, <3>4
    <3>6. holds(a)
      <4> HIDE DEF holds
      <4> QED  BY <2>2, <3>2
    <3> QED  BY <3>5, <3>6
  <2> QED  BY <2>2, <2>3 DEF ValidMeansGroundHolds
<1> QED  BY <1>1, AuthorityInvariant, PTL

\* The members of a candidate are recorded, and they and what they were reviewed against are
\* as they were then.
LEMMA CandidateHolds ==
  ASSUME AuthorityInv, CandidateIsDerivable, NEW a \in DOMAIN CurrentCandidate
  PROVE  /\ CurrentCandidate[a].content = file[a]
         /\ \A d \in DOMAIN CurrentCandidate[a].depends_on :
              file[d] = CurrentCandidate[a].depends_on[d]
<1>1. LedgerLoads(ledger) /\ ledger # NoValue /\ Evaluate(graph, ledger) = {}
  BY DEF CandidateIsDerivable
<1>2. IsFiniteSet(DOMAIN ledger)  BY <1>1, SoundIsFinite DEF AuthorityInv
<1>3. a \in DOMAIN graph
      /\ CurrentCandidate[a].content = ledger[a].content
      /\ CurrentCandidate[a].depends_on = ledger[a].depends_on
  BY DEF CurrentCandidate, Derive, BindingOf
<1>4. MemberFindings(graph, ledger, a) = {}
  <2>1. MemberFindings(graph, ledger, a) \subseteq Evaluate(graph, ledger)  BY <1>3 DEF Evaluate
  <2> QED  BY <1>1, <2>1
<1>5. a \in DOMAIN ledger  BY <1>4 DEF MemberFindings
<1>6. DeriveStates(ledger)[a] = "valid"
  <2>1. Finding(DeriveStates(ledger)[a] # "valid", <<"artifact-not-valid", a>>) = {}
    BY <1>4, <1>5 DEF MemberFindings
  <2> QED  BY <2>1 DEF Finding
<1>7. PICK state : state = DeriveStates(ledger)  OBVIOUS
<1>8. \A x \in DOMAIN ledger : state[x] = StateOf(ledger, state, x)  BY <1>1, <1>2, <1>7, DeriveStatesIs
<1>9. /\ file[a] = ledger[a].content
      /\ \A d \in DOMAIN ledger[a].depends_on :
           ledger[d].content = ledger[a].depends_on[d] /\ state[d] = "valid"
  BY <1>5, <1>6, <1>7, <1>8 DEF StateOf
<1>10. ASSUME NEW d \in DOMAIN ledger[a].depends_on PROVE file[d] = ledger[d].content
  <2>1. d \in DOMAIN ledger  BY <1>1, <1>5 DEF LedgerLoads
  <2>2. state[d] = "valid" /\ state[d] = StateOf(ledger, state, d)  BY <1>8, <1>9, <2>1
  <2> QED  BY <2>2 DEF StateOf
<1> QED  BY <1>3, <1>9, <1>10

\* A freeze that compares as equivalent is one whose files nobody touched.
THEOREM EquivalentFreezesAreUntouched == AuthoritySpec => []EquivalentMeansUntouched
<1>1. AuthorityInv => EquivalentMeansUntouched
  <2> SUFFICES ASSUME AuthorityInv, NEW f \in freezes, CompareCommand(f, FALSE).candidate = {}
               PROVE  CompareCommand(f, FALSE).repository = {}
    BY DEF EquivalentMeansUntouched
  <2>1. CandidateIsDerivable /\ Compare(f, CurrentCandidate) = {}
    <3>1. CompareCommand(f, FALSE).candidate =
            IF CandidateIsDerivable THEN Compare(f, CurrentCandidate)
            ELSE {<<"candidate-not-computable", f>>}
      BY DEF CompareCommand
    <3> QED  BY <3>1
  <2>2. PICK candidate : candidate = CurrentCandidate  OBVIOUS
  <2>3. /\ {<<"member-removed", a>> : a \in DOMAIN f \ DOMAIN candidate} = {}
        /\ {<<"content-differs", a>> :
              a \in {x \in DOMAIN f \cap DOMAIN candidate : f[x].content # candidate[x].content}} = {}
    BY <2>1, <2>2 DEF Compare
  <2>4. ASSUME NEW a \in DOMAIN f PROVE file[a] = f[a].content
    <3>1. a \in DOMAIN candidate /\ f[a].content = candidate[a].content  BY <2>3
    <3>2. candidate[a].content = file[a]  BY <2>1, <2>2, <3>1, CandidateHolds
    <3> QED  BY <3>1, <3>2
  <2>5. RepositoryFindings(f) = {}  BY <2>4 DEF RepositoryFindings
  <2> QED  BY <2>5 DEF CompareCommand
<1> QED  BY <1>1, AuthorityInvariant, PTL

\* Work is only admitted against files that are as they were reviewed, under a contract that a
\* consistency review of exactly it accepted.
THEOREM AdmissionsAreEarned == AuthoritySpec => AdmissionIsEarned
<1> DEFINE Earned ==
      \A f \in admissions' \ admissions :
       /\ \A a \in DOMAIN f :
            /\ file[a] = f[a].content
            /\ \A d \in DOMAIN f[a].depends_on : file[d] = f[a].depends_on[d]
       /\ \E t \in Task :
            /\ task[t] # NoValue
            /\ task[t].purpose = "consistency-reflection"
            /\ task[t].candidate = f
            /\ gate[t] # "changed"
<1>1. AuthorityInv /\ [AuthorityNext]_authorityVars => [Earned]_authorityVars
  <2> SUFFICES ASSUME AuthorityInv, AuthorityNext, NEW f \in admissions' \ admissions
               PROVE  /\ \A a \in DOMAIN f :
                           /\ file[a] = f[a].content
                           /\ \A d \in DOMAIN f[a].depends_on : file[d] = f[a].depends_on[d]
                      /\ \E t \in Task :
                           /\ task[t] # NoValue
                           /\ task[t].purpose = "consistency-reflection"
                           /\ task[t].candidate = f
                           /\ gate[t] # "changed"
    OBVIOUS
  <2>1. Admit(f)
    <3>1. PICK g \in freezes : Admit(g)
      <4>1. /\ \A a, c : Edit(a, c) => UNCHANGED admissions
            /\ \A g : DeclareGraph(g) => UNCHANGED admissions
            /\ LoseRun => UNCHANGED admissions
            /\ \A t : ChangeGate(t) => UNCHANGED admissions
            /\ \A consulted : CreateFreeze(consulted) => UNCHANGED admissions
        BY DEF Edit, DeclareGraph, LoseRun, ChangeGate, CreateFreeze
      <4>2. /\ \A t, purpose, boundary, candidate :
                 AcceptTask(t, purpose, boundary, candidate) => UNCHANGED admissions
            /\ \A t, g : RecordConsistency(t, g) => UNCHANGED admissions
        BY DEF AcceptTask, RecordConsistency
      <4>3. /\ \A p, t, a, D : Record(p, t, a, D) => UNCHANGED admissions
            /\ \A p, a : Withdraw(p, a) => UNCHANGED admissions
            /\ \A p : ReplaceLedger(p) \/ KillCommand(p) => UNCHANGED admissions
        BY DEF Record, Withdraw, ReplaceLedger, KillCommand
      <4> QED  BY <4>1, <4>2, <4>3 DEF AuthorityNext
    <3> QED  BY <3>1 DEF Admit
  <2>2. AuthorizeFindings(f) = {}  BY <2>1 DEF Admit
  <2>3. /\ CandidateIsDerivable /\ CurrentCandidate = f /\ Lookup(f)
        /\ ConsistencyProvenance(f) # "contradicted"
    BY <2>2 DEF AuthorizeFindings, Finding
  <2>4. ASSUME NEW a \in DOMAIN f
        PROVE  file[a] = f[a].content /\ \A d \in DOMAIN f[a].depends_on : file[d] = f[a].depends_on[d]
    BY <2>3, CandidateHolds
  <2>5. PICK t : t = consistency[f]  OBVIOUS
  <2>6. t \in Task /\ task[t] # NoValue /\ task[t].purpose = "consistency-reflection"
        /\ task[t].candidate = f
    BY <2>3, <2>5 DEF AuthorityInv, Lookup
  <2>7. gate[t] # "changed"  BY <2>3, <2>5 DEF ConsistencyProvenance
  <2> QED  BY <2>4, <2>6, <2>7
<1> QED  BY <1>1, AuthorityInvariant, PTL DEF AuthoritySpec, AdmissionIsEarned
=============================================================================
