--------------------------- MODULE CampaignProofs ---------------------------
(***************************************************************************)
(* The lifecycle of a campaign candidate, for every depth and length, and  *)
(* the slots the scheduler gives it, for every number of targets.          *)
(***************************************************************************)
EXTENDS CampaignRunner, CampaignScheduler, FiniteSetTheorems, WellFoundedInduction, TLAPS

CampaignTypeOK ==
  /\ at \in {"start", "reconcileBefore", "checkBefore", "execute", "reconcileAction",
             "checkAction", "checkRun", "cleanup", "checkCleanup", "done"}
  /\ length \in Nat
  /\ failOnRevert \in BOOLEAN
  /\ executed \in Seq(Outcomes)
  /\ failures \in BOOLEAN
  /\ failureKind \in {"none", "execution-error", "invalid-depth"}
  /\ passed \in BOOLEAN
  /\ opened \in Nat /\ closed \in Nat
  /\ trouble \in BOOLEAN

\* The verdict so far, with its reason; hooks that precede the cleanup run
\* only on a candidate that still passes.
JudgeInv ==
  /\ passed <=> ~trouble
  /\ at \in {"start", "reconcileBefore", "checkBefore", "execute", "reconcileAction",
             "checkAction", "checkRun"} => passed
  /\ ~passed => \/ failureKind # "none"
                \/ failures
                \/ \E k \in DOMAIN executed : ~Acceptable(executed[k])
  /\ at \in {"reconcileAction", "checkAction"} => executed # <<>>

\* Which context is open at which hook.
PairInv ==
  /\ at = "start" => opened = 0 /\ closed = 0
  /\ at \notin {"start", "checkCleanup", "done"} => opened = 1 /\ closed = 0
  /\ at = "checkCleanup" => opened = 1 /\ closed = 1
  /\ at = "done" => opened = closed

CampaignInv == CampaignTypeOK /\ JudgeInv /\ PairInv

LEMMA InitCampaign == CampaignInit => CampaignInv
  <1>. SUFFICES ASSUME CampaignInit PROVE CampaignInv
    OBVIOUS
  <1>. USE CampaignAssumption DEF CampaignInit
  <1>1. CampaignTypeOK
    <2>1. length \in Nat
      OBVIOUS
    <2>2. executed \in Seq(Outcomes)
      OBVIOUS
    <2>. QED
      BY <2>1, <2>2 DEF CampaignTypeOK
  <1>2. JudgeInv
    BY DEF JudgeInv
  <1>3. PairInv
    BY DEF PairInv
  <1>. QED
    BY <1>1, <1>2, <1>3 DEF CampaignInv

\* A hook throws: the candidate fails, and the failure kind says so.
LEMMA ThrownJudged ==
  ASSUME CampaignInv, Thrown
  PROVE /\ ~passed' /\ trouble' /\ failures' = failures /\ passed' \in BOOLEAN /\ trouble' \in BOOLEAN
        /\ failureKind' \in {"execution-error", "invalid-depth"}
  BY DEF CampaignInv, CampaignTypeOK, Thrown

\* A check resolves: what it found, or what the caller adds, decides.
LEMMA CheckedJudged ==
  ASSUME CampaignInv, NEW bad \in BOOLEAN, Checked(bad)
  PROVE /\ passed' \in BOOLEAN /\ failures' \in BOOLEAN /\ trouble' \in BOOLEAN
        /\ failureKind' = failureKind
        /\ passed' <=> ~trouble'
        /\ failures => failures'
        /\ ~passed' => ~passed \/ failures' \/ bad
  BY DEF CampaignInv, CampaignTypeOK, JudgeInv, Checked

\* Where the loop goes: on while the candidate passes, to the cleanup if not.
LEMMA LoopHeads ==
  ASSUME CampaignInv, passed' \in BOOLEAN, LoopHead
  PROVE at' \in {"execute", "checkRun", "cleanup"} /\ (at' # "cleanup" => passed')
  <1>1. Len(executed) \in Nat /\ length \in Nat
    BY DEF CampaignInv, CampaignTypeOK
  <1>2. Len(executed) < length \/ Len(executed) >= length
    BY <1>1
  <1>. QED
    BY <1>2 DEF LoopHead

LEMMA NextCampaign == CampaignInv /\ [CampaignNext]_campaignVars => CampaignInv'
  <1>. SUFFICES ASSUME CampaignInv, [CampaignNext]_campaignVars PROVE CampaignInv'
    OBVIOUS
  <1>. USE CampaignAssumption DEF CampaignInv
  <1>1. CASE InvalidDepth
    BY <1>1 DEF InvalidDepth, CampaignTypeOK, JudgeInv, PairInv, settings
  <1>2. CASE SetUp
    <2>1. CASE UNCHANGED verdictVars
      BY <1>2, <2>1 DEF SetUp, Thrown, CampaignTypeOK, JudgeInv, PairInv, settings, verdictVars, Acceptable
    <2>2. CASE Thrown
      BY <1>2, <2>2, ThrownJudged DEF SetUp, Thrown, CampaignTypeOK, JudgeInv, PairInv, settings, verdictVars
    <2>. QED
      BY <1>2, <2>1, <2>2 DEF SetUp
  <1>3. CASE ReconcileBefore
    <2>1. CASE UNCHANGED verdictVars
      BY <1>3, <2>1 DEF ReconcileBefore, Thrown, CampaignTypeOK, JudgeInv, PairInv, settings, verdictVars, Acceptable
    <2>2. CASE Thrown
      BY <1>3, <2>2, ThrownJudged DEF ReconcileBefore, Thrown, CampaignTypeOK, JudgeInv, PairInv, settings, verdictVars
    <2>. QED
      BY <1>3, <2>1, <2>2 DEF ReconcileBefore
  <1>4. CASE CheckBefore
    <2>1. CASE Checked(FALSE) /\ LoopHead
      <3>1. at' \in {"execute", "checkRun", "cleanup"} /\ (at' # "cleanup" => passed')
        BY <2>1, CheckedJudged, LoopHeads
      <3>. QED
        BY <1>4, <2>1, <3>1, CheckedJudged
        DEF CheckBefore, CampaignTypeOK, JudgeInv, PairInv, settings, Acceptable
    <2>2. CASE Thrown /\ at' = "cleanup"
      BY <1>4, <2>2, ThrownJudged DEF CheckBefore, CampaignTypeOK, JudgeInv, PairInv, settings
    <2>. QED
      BY <1>4, <2>1, <2>2 DEF CheckBefore
  <1>5. CASE Execute
    <2>1. PICK outcome \in Outcomes :
            /\ executed' = Append(executed, outcome)
            /\ at' = IF outcome = "accepted" THEN "reconcileAction" ELSE "checkAction"
      BY <1>5 DEF Execute
    <2>2. UNCHANGED <<length, failOnRevert, failures, failureKind, passed, trouble, opened, closed>>
      BY <1>5 DEF Execute, settings, verdictVars
    <2>3. at = "execute" /\ passed
      BY <1>5 DEF Execute, JudgeInv
    <2>4. executed' \in Seq(Outcomes) /\ executed' # <<>>
      BY <2>1 DEF CampaignTypeOK
    <2>5. CampaignTypeOK' /\ PairInv'
      BY <2>1, <2>2, <2>3, <2>4 DEF CampaignTypeOK, PairInv
    <2>6. JudgeInv'
      BY <2>1, <2>2, <2>3, <2>4 DEF JudgeInv
    <2>. QED
      BY <2>5, <2>6
  <1>6. CASE ReconcileAction
    <2>1. CASE UNCHANGED verdictVars /\ at' = "checkAction"
      BY <1>6, <2>1 DEF ReconcileAction, CampaignTypeOK, JudgeInv, PairInv, settings, verdictVars, Acceptable
    <2>2. CASE Thrown /\ at' = "cleanup"
      BY <1>6, <2>2, ThrownJudged DEF ReconcileAction, CampaignTypeOK, JudgeInv, PairInv, settings
    <2>. QED
      BY <1>6, <2>1, <2>2 DEF ReconcileAction
  <1>7. CASE CheckAction
    <2>. DEFINE bad == ~Acceptable(executed[Len(executed)])
    <2>0. /\ at = "checkAction" /\ passed /\ Len(executed) \in DOMAIN executed
          /\ UNCHANGED <<length, failOnRevert, executed, opened, closed>>
      BY <1>7 DEF CheckAction, settings, CampaignTypeOK, JudgeInv
    <2>1. CASE Checked(bad) /\ LoopHead
      <3>1. bad \in BOOLEAN
        BY DEF Acceptable
      <3>2. /\ passed' \in BOOLEAN /\ failures' \in BOOLEAN /\ trouble' \in BOOLEAN
            /\ failureKind' = failureKind /\ (passed' <=> ~trouble')
            /\ ~passed' => failures' \/ bad
        BY <2>0, <2>1, <3>1, CheckedJudged
      <3>3. at' \in {"execute", "checkRun", "cleanup"} /\ (at' # "cleanup" => passed')
        BY <2>1, <3>2, LoopHeads
      <3>4. CampaignTypeOK' /\ PairInv'
        BY <2>0, <3>2, <3>3 DEF CampaignTypeOK, PairInv
      <3>5. ~passed' => failures' \/ \E k \in DOMAIN executed' : ~Acceptable(executed[k])'
        BY <2>0, <3>2 DEF Acceptable
      <3>6. JudgeInv'
        BY <3>2, <3>3, <3>5 DEF JudgeInv
      <3>. QED
        BY <3>4, <3>6
    <2>2. CASE Thrown /\ at' = "cleanup"
      BY <2>0, <2>2, ThrownJudged DEF CampaignTypeOK, JudgeInv, PairInv
    <2>. QED
      BY <1>7, <2>1, <2>2 DEF CheckAction
  <1>8. CASE CheckRun \/ CheckCleanup
    <2>0. /\ \/ at = "checkRun" /\ at' = "cleanup"
             \/ at = "checkCleanup" /\ at' = "done"
          /\ Checked(FALSE) \/ Thrown
          /\ UNCHANGED <<length, failOnRevert, executed, opened, closed>>
      BY <1>8 DEF CheckRun, CheckCleanup, settings
    <2>1. CASE Checked(FALSE)
      BY <2>0, <2>1, CheckedJudged DEF CampaignTypeOK, JudgeInv, PairInv, Acceptable
    <2>2. CASE Thrown
      BY <2>0, <2>2, ThrownJudged DEF CampaignTypeOK, JudgeInv, PairInv
    <2>. QED
      BY <2>0, <2>1, <2>2
  <1>9. CASE CleanUp
    <2>0. /\ at = "cleanup" /\ at' = "checkCleanup" /\ closed' = closed + 1
          /\ UNCHANGED <<length, failOnRevert, executed, opened>>
      BY <1>9 DEF CleanUp, settings
    <2>1. CASE UNCHANGED verdictVars
      BY <2>0, <2>1 DEF CampaignTypeOK, JudgeInv, PairInv, verdictVars, Acceptable
    <2>2. CASE Thrown
      BY <2>0, <2>2, ThrownJudged DEF CampaignTypeOK, JudgeInv, PairInv
    <2>. QED
      BY <1>9, <2>1, <2>2 DEF CleanUp
  <1>10. CASE UNCHANGED campaignVars
    BY <1>10 DEF campaignVars, settings, verdictVars, CampaignTypeOK, JudgeInv, PairInv, Acceptable
  <1>. QED
    BY <1>1, <1>2, <1>3, <1>4, <1>5, <1>6, <1>7, <1>8, <1>9, <1>10 DEF CampaignNext

LEMMA CampaignInvariant == CampaignSpec => []CampaignInv
  BY InitCampaign, NextCampaign, PTL DEF CampaignSpec

(* A candidate passes exactly when nothing went wrong, whatever hook threw *)
(* and whatever its check found, and the trace of a failing one says why   *)
(* (runCampaignCandidateAsync), for every depth.                           *)
THEOREM VerdictsAreExact == CampaignSpec => []VerdictExact
  <1>1. CampaignInv => VerdictExact
    BY DEF CampaignInv, JudgeInv, VerdictExact
  <1>. QED
    BY <1>1, CampaignInvariant, PTL

(* Every context that was set up is cleaned up exactly once (the finally   *)
(* clause of runCampaignCandidateAsync).                                   *)
THEOREM CleanupsArePaired == CampaignSpec => []CleanupPaired
  <1>1. CampaignInv => CleanupPaired
    BY DEF CampaignInv, CampaignTypeOK, PairInv, CleanupPaired
  <1>. QED
    BY <1>1, CampaignInvariant, PTL

(* Nothing is sent to the ledger once something went wrong (the loop's     *)
(* condition in runCampaignCandidateAsync).                                *)
THEOREM NothingRunsAfterTrouble == CampaignSpec => NothingAfterTrouble
  <1>1. CampaignInv /\ [CampaignNext]_campaignVars
          => [trouble => executed' = executed]_campaignVars
    BY DEF CampaignInv, JudgeInv, CampaignNext, InvalidDepth, SetUp, ReconcileBefore, CheckBefore,
           Execute, ReconcileAction, CheckAction, CheckRun, CleanUp, CheckCleanup, campaignVars
  <1>. QED
    BY <1>1, CampaignInvariant, PTL DEF CampaignSpec, NothingAfterTrouble

-----------------------------------------------------------------------------
(* The slots of a campaign.                                                *)

\* What holds of 0 and passes from one number to the next holds up to m.
LEMMA UpTo ==
  ASSUME NEW m \in Nat, NEW T, 0 \in T, \A k \in 0..(m - 1) : k \in T => k + 1 \in T
  PROVE \A k \in 0..m : k \in T
  <1>. SUFFICES ASSUME NEW z \in 0..m, z \notin T PROVE FALSE
    OBVIOUS
  <1>. DEFINE R == OpToRel(<, Nat)
              Bad == {k \in 0..m : k \notin T}
  <1>1. IsWellFoundedOn(R, Nat)
    BY NatLessThanWellFounded
  <1>2. \A x, y \in Nat : x < y => <<x, y>> \in R
    BY DEF OpToRel
  <1>. HIDE DEF R
  <1>3. Bad \subseteq Nat /\ Bad # {}
    OBVIOUS
  <1>4. PICK k \in Bad : \A y \in Bad : ~(<<y, k>> \in R)
    BY <1>1, <1>3, WFMin
  <1>5. k \in Nat /\ k # 0 /\ k - 1 \in 0..(m - 1) /\ k - 1 < k /\ (k - 1) + 1 = k
    BY <1>4
  <1>6. k - 1 \notin Bad
    BY <1>2, <1>3, <1>4, <1>5
  <1>7. k - 1 \in T
    BY <1>5, <1>6
  <1>. QED
    BY <1>4, <1>5, <1>7

\* What the scheduler is given: its targets, and whether a contract exists.
SchedulerTypeOK == targets \in Seq(Target) /\ hasContract \in BOOLEAN

\* A schedule leaves what it was given alone.
LEMMA SchedulerTypes == SchedulerSpec => []SchedulerTypeOK
  <1>1. SchedulerInit => SchedulerTypeOK
    BY DEF SchedulerInit, SchedulerTypeOK, SeqOf
  <1>2. SchedulerTypeOK /\ [Schedule]_schedulerVars => SchedulerTypeOK'
    BY DEF SchedulerTypeOK, Schedule, schedulerVars
  <1>. QED
    BY <1>1, <1>2, PTL DEF SchedulerSpec

\* A target weighs what it is due; one that may not run weighs nothing.
LEMMA Weights ==
  ASSUME SchedulerTypeOK
  PROVE /\ Len(targets) \in Nat /\ DOMAIN targets = 1..Len(targets)
        /\ \A i \in 1..Len(targets) :
             /\ Weight(i) \in Nat /\ ShareOf(targets[i]) = Weight(i)
             /\ i \in Eligible => targets[i].weight = Weight(i) /\ Weight(i) # 0
             /\ i \notin Eligible => Weight(i) = 0
  <1>1. Len(targets) \in Nat /\ DOMAIN targets = 1..Len(targets)
    BY DEF SchedulerTypeOK
  <1>2. ASSUME NEW i \in 1..Len(targets)
        PROVE /\ Weight(i) \in Nat /\ ShareOf(targets[i]) = Weight(i)
              /\ i \in Eligible => targets[i].weight = Weight(i) /\ Weight(i) # 0
              /\ i \notin Eligible => Weight(i) = 0
    <2>. DEFINE t == targets[i]
    <2>1. t \in Target
      BY <1>1 DEF SchedulerTypeOK
    <2>2. t.weight \in Nat /\ t.needsContract \in BOOLEAN
      BY <2>1, SchedulerAssumption DEF Target
    <2>3. i \in Eligible <=> MayRun(t)
      BY <1>1 DEF Eligible
    <2>. HIDE DEF t
    <2>4. MayRun(t) <=> t.weight > 0 /\ t.actors # <<>> /\ (t.needsContract => hasContract)
      BY <2>2 DEF MayRun, SchedulerTypeOK
    <2>5. ~MayRun(t) => ShareOf(t) = 0
      <3>1. t.weight > 0 \/ t.weight = 0
        BY <2>2
      <3>. QED
        BY <2>4, <3>1 DEF ShareOf
    <2>6. MayRun(t) => ShareOf(t) = t.weight /\ t.weight # 0
      BY <2>2, <2>4 DEF ShareOf
    <2>. QED
      BY <2>2, <2>3, <2>5, <2>6 DEF Weight, t
  <1>. QED
    BY <1>1, <1>2

\* The recursion is well defined: the weights add up one after the other.
LEMMA SumDefined ==
  ASSUME SchedulerTypeOK
  PROVE /\ WeightUpTo \in [0..Len(targets) -> Nat] /\ WeightUpTo[0] = 0
        /\ \A k \in 1..Len(targets) : WeightUpTo[k] = WeightUpTo[k - 1] + Weight(k)
  <1>0. PICK n \in Nat : n = Len(targets)
    BY Weights
  <1>1. \A k \in 1..n : Weight(k) \in Nat
    BY <1>0, Weights
  <1>. DEFINE Sums(k) == {f \in [0..n -> Nat] : f[0] = 0 /\ \A j \in 1..k : f[j] = f[j - 1] + Weight(j)}
              T == {k \in 0..n : Sums(k) # {}}
  <1>2. 0 \in T
    <2>1. [j \in 0..n |-> 0] \in Sums(0)
      OBVIOUS
    <2>. QED
      BY <2>1
  <1>3. ASSUME NEW k \in 0..(n - 1), k \in T PROVE k + 1 \in T
    <2>1. PICK f \in [0..n -> Nat] : f[0] = 0 /\ \A j \in 1..k : f[j] = f[j - 1] + Weight(j)
      BY <1>3
    <2>. DEFINE g == [f EXCEPT ![k + 1] = f[k] + Weight(k + 1)]
    <2>2. g \in [0..n -> Nat]
      BY <1>1, <2>1
    <2>3. g[0] = 0
      BY <2>1
    <2>4. ASSUME NEW j \in 1..(k + 1) PROVE g[j] = g[j - 1] + Weight(j)
      BY <2>1
    <2>5. k + 1 \in 0..n
      OBVIOUS
    <2>. QED
      BY <2>2, <2>3, <2>4, <2>5
  <1>. HIDE DEF T
  <1>4. n \in T
    BY <1>2, <1>3, UpTo
  <1>5. PICK f \in [0..n -> Nat] : f[0] = 0 /\ \A j \in 1..n : f[j] = f[j - 1] + Weight(j)
    BY <1>4 DEF T
  <1>6. f = [j \in 0..n |-> IF j = 0 THEN 0 ELSE f[j - 1] + Weight(j)]
    BY <1>5
  <1>7. WeightUpTo = [j \in 0..n |-> IF j = 0 THEN 0 ELSE WeightUpTo[j - 1] + Weight(j)]
    BY <1>0, <1>6 DEF WeightUpTo
  <1>. DEFINE U == {k \in 0..n : WeightUpTo[k] \in Nat}
  <1>8. 0 \in U
    BY <1>7
  <1>8a. ASSUME NEW k \in 1..n PROVE WeightUpTo[k] = WeightUpTo[k - 1] + Weight(k)
    <2>1. k \in 0..n /\ k # 0
      OBVIOUS
    <2>. QED
      BY <1>7, <2>1
  <1>9. ASSUME NEW k \in 0..(n - 1), k \in U PROVE k + 1 \in U
    <2>1. k + 1 \in 1..n /\ k + 1 \in 0..n /\ (k + 1) - 1 = k
      OBVIOUS
    <2>2. WeightUpTo[k + 1] = WeightUpTo[k] + Weight(k + 1) /\ Weight(k + 1) \in Nat
      BY <1>1, <1>8a, <2>1
    <2>. QED
      BY <1>9, <2>1, <2>2
  <1>. HIDE DEF U
  <1>10. \A k \in 0..n : k \in U
    BY <1>8, <1>9, UpTo
  <1>11. \A k \in 0..n : WeightUpTo[k] \in Nat
    BY <1>10 DEF U
  <1>12. WeightUpTo \in [0..n -> Nat]
    BY <1>7, <1>11
  <1>13. WeightUpTo[0] = 0
    BY <1>7
  <1>. QED
    BY <1>0, <1>8a, <1>12, <1>13

\* The sum never falls.
LEMMA SumGrows ==
  ASSUME SchedulerTypeOK, NEW i \in 0..Len(targets), NEW j \in 0..Len(targets), i <= j
  PROVE WeightUpTo[i] <= WeightUpTo[j]
  <1>0. PICK n \in Nat : n = Len(targets)
    BY Weights
  <1>. DEFINE T == {k \in 0..n : i <= k => WeightUpTo[i] <= WeightUpTo[k]}
  <1>a. \A k \in 0..n : WeightUpTo[k] \in Nat
    BY <1>0, SumDefined
  <1>1. 0 \in T
    BY <1>0, <1>a
  <1>2. ASSUME NEW k \in 0..(n - 1), k \in T PROVE k + 1 \in T
    <2>1. k + 1 \in 1..n /\ k + 1 \in 0..n /\ (k + 1) - 1 = k /\ k \in 0..n
      OBVIOUS
    <2>2. WeightUpTo[k + 1] = WeightUpTo[(k + 1) - 1] + Weight(k + 1)
      BY <1>0, <2>1, SumDefined
    <2>3. Weight(k + 1) \in Nat
      BY <1>0, <2>1, Weights
    <2>4. WeightUpTo[k + 1] = WeightUpTo[k] + Weight(k + 1)
      BY <2>1, <2>2
    <2>5. WeightUpTo[k] \in Nat /\ WeightUpTo[i] \in Nat
      BY <1>0, <1>a, <2>1
    <2>6. CASE i = k + 1
      <3>1. WeightUpTo[i] = WeightUpTo[k + 1]
        BY <2>6
      <3>. QED
        BY <2>1, <2>5, <3>1
    <2>7. CASE i # k + 1
      <3>1. i <= k + 1 => i <= k
        BY <1>0, <2>7
      <3>. DEFINE a == WeightUpTo[i]
                  b == WeightUpTo[k]
                  c == WeightUpTo[k + 1]
      <3>2. i <= k => a <= b
        BY <1>2
      <3>3. b <= c
        BY <2>3, <2>4, <2>5
      <3>4. a \in Nat /\ b \in Nat /\ c \in Nat
        BY <1>a, <2>1, <2>5
      <3>. HIDE DEF a, b, c
      <3>5. i <= k + 1 => a <= c
        BY <3>1, <3>2, <3>3, <3>4
      <3>. QED
        BY <2>1, <3>5 DEF a, c
    <2>. QED
      BY <2>6, <2>7
  <1>. HIDE DEF T
  <1>3. j \in T
    BY <1>0, <1>1, <1>2, UpTo
  <1>. QED
    BY <1>3 DEF T

\* The roll counted down through the first k targets.
LEMMA CountDownIs ==
  ASSUME SchedulerTypeOK, NEW roll \in Nat, TotalWeight # 0
  PROVE /\ TotalWeight \in Nat /\ roll % TotalWeight \in 0..(TotalWeight - 1)
        /\ \A k \in 0..Len(targets) : CountDown(roll)[k] = (roll % TotalWeight) - WeightUpTo[k]
  <1>0. PICK n \in Nat : n = Len(targets)
    BY Weights
  <1>1. TotalWeight \in Nat
    BY <1>0, SumDefined DEF TotalWeight
  <1>. DEFINE r == roll % TotalWeight
  <1>2. r \in 0..(TotalWeight - 1)
    BY <1>1
  <1>3. \A k \in 1..n : Weight(k) \in Nat
    BY <1>0, Weights
  <1>4. /\ \A k \in 0..n : WeightUpTo[k] \in Nat
        /\ WeightUpTo[0] = 0
        /\ \A k \in 1..n : WeightUpTo[k] = WeightUpTo[k - 1] + Weight(k)
    BY <1>0, SumDefined
  <1>. DEFINE c == [k \in 0..n |-> r - WeightUpTo[k]]
  <1>5. c = [k \in 0..n |-> IF k = 0 THEN r ELSE c[k - 1] - Weight(k)]
    <2>1. ASSUME NEW k \in 0..n PROVE c[k] = IF k = 0 THEN r ELSE c[k - 1] - Weight(k)
      <3>1. CASE k = 0
        BY <1>2, <1>4, <3>1
      <3>2. CASE k # 0
        <4>1. k \in 1..n /\ k - 1 \in 0..n
          BY <3>2
        <4>2. c[k - 1] = r - WeightUpTo[k - 1] /\ c[k] = r - WeightUpTo[k]
          BY <4>1
        <4>. QED
          BY <1>2, <1>3, <1>4, <3>2, <4>1, <4>2
      <3>. QED
        BY <3>1, <3>2
    <2>. QED
      BY <2>1
  <1>. DEFINE d == CountDown(roll)
  <1>. HIDE DEF c
  <1>6. d = [k \in 0..n |-> IF k = 0 THEN r ELSE d[k - 1] - Weight(k)]
    BY <1>0, <1>5 DEF CountDown
  <1>. HIDE DEF d
  <1>. DEFINE T == {k \in 0..n : d[k] = r - WeightUpTo[k]}
  <1>7. 0 \in T
    BY <1>2, <1>4, <1>6
  <1>8. ASSUME NEW k \in 0..(n - 1), k \in T PROVE k + 1 \in T
    <2>1. k + 1 \in 1..n /\ k + 1 \in 0..n /\ (k + 1) - 1 = k /\ k + 1 # 0 /\ k \in 0..n
      OBVIOUS
    <2>2. d[k + 1] = d[(k + 1) - 1] - Weight(k + 1)
      BY <1>6, <2>1
    <2>3. WeightUpTo[k + 1] = WeightUpTo[(k + 1) - 1] + Weight(k + 1)
      BY <1>4, <2>1
    <2>4. d[k] = r - WeightUpTo[k]
      BY <1>8
    <2>5. Weight(k + 1) \in Nat /\ WeightUpTo[k] \in Nat /\ r \in Nat
      BY <1>2, <1>3, <1>4, <2>1
    <2>6. d[k + 1] = r - WeightUpTo[k + 1]
      BY <2>1, <2>2, <2>3, <2>4, <2>5
    <2>. QED
      BY <2>1, <2>6
  <1>. HIDE DEF T
  <1>9. \A k \in 0..n : k \in T
    BY <1>7, <1>8, UpTo
  <1>. QED
    BY <1>0, <1>1, <1>2, <1>9 DEF T, d

\* A set of numbers that is not empty has a least one.
LEMMA FirstOf ==
  ASSUME NEW T, T \subseteq Nat, T # {}
  PROVE \E x \in T : \A y \in T : x <= y
  <1>. DEFINE R == OpToRel(<, Nat)
  <1>1. IsWellFoundedOn(R, Nat)
    BY NatLessThanWellFounded
  <1>2. \A x, y \in Nat : x < y => <<x, y>> \in R
    BY DEF OpToRel
  <1>. HIDE DEF R
  <1>3. PICK x \in T : \A y \in T : ~(<<y, x>> \in R)
    BY <1>1, WFMin
  <1>4. ASSUME NEW y \in T PROVE x <= y
    <2>1. x \in Nat /\ y \in Nat /\ ~(y < x)
      BY <1>2, <1>3
    <2>. QED
      BY <2>1
  <1>. QED
    BY <1>4

\* A roll falls on the target whose stretch of the weights it lies in.
LEMMA SelectIs ==
  ASSUME SchedulerTypeOK, NEW roll \in Nat, TotalWeight # 0
  PROVE /\ SelectByWeight(roll) \in Eligible
        /\ \A i \in 1..Len(targets) : SelectByWeight(roll) = i <=>
              /\ WeightUpTo[i - 1] <= roll % TotalWeight
              /\ roll % TotalWeight < WeightUpTo[i]
  <1>0. PICK n \in Nat : n = Len(targets) /\ DOMAIN targets = 1..n
    BY Weights
  <1>. DEFINE r == roll % TotalWeight
  <1>1. r \in Nat /\ TotalWeight \in Nat /\ r < TotalWeight
    <2>1. TotalWeight \in Nat
      BY CountDownIs
    <2>2. r \in 0..(TotalWeight - 1)
      BY CountDownIs
    <2>. HIDE DEF r
    <2>. QED
      BY <2>1, <2>2
  <1>2. \A k \in 0..n : CountDown(roll)[k] = r - WeightUpTo[k]
    BY <1>0, CountDownIs
  <1>3. /\ \A k \in 0..n : WeightUpTo[k] \in Nat
        /\ WeightUpTo[0] = 0 /\ WeightUpTo[n] = TotalWeight
        /\ \A k \in 1..n : WeightUpTo[k] = WeightUpTo[k - 1] + Weight(k)
    BY <1>0, SumDefined DEF TotalWeight
  <1>4. \A i, j \in 0..n : i <= j => WeightUpTo[i] <= WeightUpTo[j]
    BY <1>0, SumGrows
  <1>5. \A i \in 1..n : /\ Weight(i) \in Nat
                        /\ i \in Eligible => targets[i].weight = Weight(i)
                        /\ i \notin Eligible => Weight(i) = 0
    BY <1>0, Weights
  <1>. HIDE DEF r
  <1>. DEFINE found == {i \in Eligible : Falls(CountDown(roll)[i - 1], targets[i])}
  <1>6. Eligible \subseteq 1..n
    BY <1>0 DEF Eligible
  <1>7. ASSUME NEW i \in 1..n PROVE i \in found <=> i \in Eligible /\ r < WeightUpTo[i]
    <2>1. i - 1 \in 0..n /\ i \in 0..n
      OBVIOUS
    <2>2. CountDown(roll)[i - 1] = r - WeightUpTo[i - 1]
      BY <1>2, <2>1
    <2>3. WeightUpTo[i - 1] \in Nat /\ WeightUpTo[i] = WeightUpTo[i - 1] + Weight(i) /\ Weight(i) \in Nat
      BY <1>3, <1>5, <2>1
    <2>4. r - WeightUpTo[i - 1] < Weight(i) <=> r < WeightUpTo[i]
      BY <1>1, <2>3
    <2>. QED
      BY <1>5, <2>2, <2>4 DEF Falls
  <1>. HIDE DEF found
  <1>. DEFINE past == {k \in 0..n : r < WeightUpTo[k]}
  <1>8. PICK j \in past : \A k \in past : j <= k
    <2>1. n \in past
      BY <1>1, <1>3
    <2>2. past \subseteq Nat
      OBVIOUS
    <2>. HIDE DEF past
    <2>. QED
      BY <2>1, <2>2, FirstOf
  <1>9. j \in 1..n /\ j - 1 \in 0..n /\ r < WeightUpTo[j]
    BY <1>1, <1>3, <1>8
  <1>10. WeightUpTo[j - 1] <= r
    <2>1. ~(j <= j - 1)
      BY <1>9
    <2>2. ~(r < WeightUpTo[j - 1])
      BY <1>8, <1>9, <2>1
    <2>. QED
      BY <1>1, <1>3, <1>9, <2>2
  <1>11. j \in Eligible
    <2>1. WeightUpTo[j] = WeightUpTo[j - 1] + Weight(j)
      BY <1>3, <1>9
    <2>2. Weight(j) # 0
      BY <1>1, <1>3, <1>9, <1>10, <2>1
    <2>. QED
      BY <1>5, <1>9, <2>2
  <1>12. j \in found /\ \A k \in found : j <= k
    <2>1. j \in found
      BY <1>7, <1>9, <1>11
    <2>2. ASSUME NEW k \in found PROVE j <= k
      <3>1. k \in 1..n
        BY <1>6 DEF found
      <3>2. k \in past
        BY <1>7, <3>1
      <3>. QED
        BY <1>8, <3>2
    <2>. QED
      BY <2>1, <2>2
  <1>13. SelectByWeight(roll) = j
    <2>1. SelectByWeight(roll) = CHOOSE i \in found : \A k \in found : i <= k
      BY <1>12 DEF SelectByWeight, found
    <2>2. \A x \in found : (\A k \in found : x <= k) => x = j
      <3>a. found \subseteq Eligible
        BY DEF found
      <3>1. found \subseteq Nat
        BY <1>6, <3>a
      <3>. QED
        BY <1>12, <3>1
    <2>. QED
      BY <1>12, <2>1, <2>2
  <1>14. ASSUME NEW i \in 1..n, WeightUpTo[i - 1] <= r, r < WeightUpTo[i] PROVE i = j
    <2>1. i \in past /\ j <= i
      BY <1>8, <1>14
    <2>2. i - 1 \in 0..n
      OBVIOUS
    <2>3. j <= i - 1 => WeightUpTo[j] <= WeightUpTo[i - 1]
      BY <1>4, <1>9, <2>2
    <2>4. WeightUpTo[j] \in Nat /\ WeightUpTo[i - 1] \in Nat
      BY <1>3, <1>9, <2>2
    <2>5. ~(WeightUpTo[j] <= WeightUpTo[i - 1])
      BY <1>1, <1>9, <1>14, <2>4
    <2>. QED
      BY <1>9, <2>1, <2>3, <2>5
  <1>. QED
    BY <1>0, <1>9, <1>10, <1>11, <1>13, <1>14 DEF r

\* As many consecutive rolls as there are weights fall into a stretch of
\* them exactly as often as it is long.
LEMMA Window ==
  ASSUME NEW t \in Nat, t # 0, NEW a \in 0..t, NEW b \in a..t, NEW first \in 0..t
  PROVE Cardinality({roll \in first..(first + t - 1) : a <= roll % t /\ roll % t < b}) = b - a
  <1>. DEFINE S == a..(b - 1)
              V == {roll \in first..(first + t - 1) : a <= roll % t /\ roll % t < b}
              f == [v \in S |-> IF first <= v THEN v ELSE v + t]
  <1>1. \A x \in 0..(t - 1) : x % t = x
    OBVIOUS
  <1>2. \A x \in 0..(t - 1) : (x + t) % t = x
    OBVIOUS
  <1>3. ASSUME NEW v \in S PROVE f[v] \in V /\ f[v] % t = v
    <2>1. v \in 0..(t - 1) /\ a <= v /\ v < b
      OBVIOUS
    <2>2. f[v] % t = v
      BY <1>1, <1>2, <2>1
    <2>3. f[v] \in first..(first + t - 1)
      BY <2>1
    <2>. QED
      BY <2>1, <2>2, <2>3
  <1>4. ASSUME NEW roll \in V PROVE roll % t \in S /\ f[roll % t] = roll
    <2>1. roll \in Nat /\ first <= roll /\ roll <= first + t - 1
      OBVIOUS
    <2>2. a <= roll % t /\ roll % t < b
      OBVIOUS
    <2>3. roll % t \in 0..(t - 1)
      BY <2>1
    <2>4. roll % t \in S
      BY <2>2, <2>3
    <2>5. CASE roll < t
      <3>1. roll % t = roll
        BY <2>1, <2>5, <1>1
      <3>. QED
        BY <2>1, <2>4, <3>1
    <2>6. CASE ~(roll < t)
      <3>1. roll - t \in 0..(t - 1) /\ (roll - t) + t = roll /\ ~(first <= roll - t)
        BY <2>1, <2>6
      <3>2. roll % t = roll - t
        BY <1>2, <3>1
      <3>. QED
        BY <2>1, <2>4, <3>1, <3>2
    <2>. QED
      BY <2>5, <2>6
  <1>5. f \in [S -> V]
    BY <1>3
  <1>6. \A u, v \in S : f[u] = f[v] => u = v
    BY <1>3
  <1>7. \A roll \in V : \E v \in S : f[v] = roll
    BY <1>4
  <1>. HIDE DEF f, V
  <1>8. ExistsBijection(S, V)
    BY <1>5, <1>6, <1>7 DEF ExistsBijection, Bijection, Injection, Surjection, IsInjective
  <1>9. IsFiniteSet(S) /\ Cardinality(S) = b - a
    <2>1. a \in Int /\ b - 1 \in Int
      OBVIOUS
    <2>2. IsFiniteSet(S) /\ Cardinality(S) = IF a > b - 1 THEN 0 ELSE (b - 1) - a + 1
      BY <2>1, FS_Interval
    <2>3. (IF a > b - 1 THEN 0 ELSE (b - 1) - a + 1) = b - a
      OBVIOUS
    <2>. QED
      BY <2>2, <2>3
  <1>10. Cardinality(V) = Cardinality(S)
    BY <1>8, <1>9, FS_Bijection
  <1>. QED
    BY <1>9, <1>10 DEF V

\* The targets share the rolls by weight, for every number of targets and
\* every weight: any TotalWeight consecutive rolls hand each target exactly
\* its weight (selectByWeight of campaign-scheduler.ts).
THEOREM WeightsAreShared == SchedulerSpec => []WeightsShared
  <1>1. ASSUME SchedulerTypeOK PROVE WeightsShared
    <2>. SUFFICES ASSUME TotalWeight > 0, NEW first \in 0..TotalWeight
                  PROVE LET run == first..(first + TotalWeight - 1)
                        IN  /\ \A roll \in run : SelectByWeight(roll) # 0
                            /\ \A i \in DOMAIN targets :
                                  Cardinality({roll \in run : SelectByWeight(roll) = i}) = ShareOf(targets[i])
      BY DEF WeightsShared
    <2>0. PICK n \in Nat : n = Len(targets) /\ DOMAIN targets = 1..n
      BY <1>1, Weights
    <2>1. TotalWeight \in Nat /\ WeightUpTo[n] = TotalWeight
      BY <1>1, <2>0, SumDefined DEF TotalWeight
    <2>2. TotalWeight # 0
      BY <2>1
    <2>. DEFINE run == first..(first + TotalWeight - 1)
    <2>3. run \subseteq Nat
      BY <2>1
    <2>4. ASSUME NEW roll \in run PROVE SelectByWeight(roll) # 0
      <3>1. SelectByWeight(roll) \in Eligible
        BY <1>1, <2>2, <2>3, SelectIs
      <3>. QED
        BY <2>0, <3>1 DEF Eligible
    <2>5. ASSUME NEW i \in 1..n
          PROVE Cardinality({roll \in run : SelectByWeight(roll) = i}) = ShareOf(targets[i])
      <3>. DEFINE a == WeightUpTo[i - 1]
                  b == WeightUpTo[i]
      <3>1. i - 1 \in 0..n /\ i \in 0..n /\ n \in 0..n /\ i <= n
        OBVIOUS
      <3>2. a \in Nat /\ b \in Nat /\ b = a + Weight(i) /\ Weight(i) \in Nat
        BY <1>1, <2>0, <3>1, SumDefined, Weights
      <3>3. b <= TotalWeight
        BY <1>1, <2>0, <2>1, <3>1, SumGrows
      <3>4. \A roll \in run : SelectByWeight(roll) = i <=> a <= roll % TotalWeight /\ roll % TotalWeight < b
        BY <1>1, <2>0, <2>2, <2>3, SelectIs
      <3>5. ShareOf(targets[i]) = Weight(i)
        BY <1>1, <2>0, Weights
      <3>. HIDE DEF a, b
      <3>6. a \in 0..TotalWeight /\ b \in a..TotalWeight
        BY <2>1, <3>2, <3>3
      <3>7. Cardinality({roll \in run : a <= roll % TotalWeight /\ roll % TotalWeight < b}) = b - a
        BY <2>1, <2>2, <3>6, Window
      <3>8. {roll \in run : SelectByWeight(roll) = i} =
              {roll \in run : a <= roll % TotalWeight /\ roll % TotalWeight < b}
        BY <3>4
      <3>9. b - a = Weight(i)
        BY <3>2
      <3>. QED
        BY <3>5, <3>7, <3>8, <3>9
    <2>. QED
      BY <2>0, <2>4, <2>5
  <1>. QED
    BY <1>1, SchedulerTypes, PTL

=============================================================================
