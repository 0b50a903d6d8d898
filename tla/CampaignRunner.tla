--------------------------- MODULE CampaignRunner ---------------------------
(***************************************************************************)
(* runCampaignCandidateAsync: the lifecycle of one candidate of a stateful *)
(* test campaign.  The hooks (setup, reconcile, execute, check, cleanup)   *)
(* belong to the application and may throw at any time; an action runs     *)
(* from the settlement of one hook to the call of the next.                *)
(***************************************************************************)
EXTENDS Integers, Sequences

CONSTANTS
  Depth,      (* init.depth                                                *)
  MaxActions  (* bound: length of the candidates tried                     *)

ASSUME CampaignAssumption == Depth \in Nat \ {0} /\ MaxActions \in Nat

VARIABLES
  at,            (* the hook the candidate is suspended at                 *)
  length,        (* actions.length                                         *)
  failOnRevert,  (* init.failOnRevert                                      *)
  executed,      (* outcomes of the actions executed                       *)
  failures,      (* whether an invariant failure was recorded              *)
  failureKind,   (* the trace's failureKind                                *)
  passed,        (* the verdict so far                                     *)
  opened,        (* history: contexts set up                               *)
  closed,        (* history: cleanups called                               *)
  trouble        (* history: something happened that a test must report    *)

verdictVars == <<failures, failureKind, passed, trouble>>

settings == <<length, failOnRevert>>

campaignVars == <<at, settings, executed, verdictVars, opened, closed>>

\* "other" stands for discarded, malformed-response, timeout, transport-error
\* and unknown-commit-outcome; a throwing execute hook is a transport-error.
Outcomes == {"accepted", "protocol-revert", "other"}

Acceptable(outcome) == outcome = "accepted" \/ (outcome = "protocol-revert" /\ ~failOnRevert)

CampaignInit ==
  /\ at = "start"
  /\ length \in 0..MaxActions
  /\ failOnRevert \in BOOLEAN
  /\ executed = <<>>
  /\ failures = FALSE
  /\ failureKind = "none"
  /\ passed = TRUE
  /\ opened = 0
  /\ closed = 0
  /\ trouble = FALSE

\* The catch clauses: the first failure kind is kept.
Thrown ==
  /\ passed' = FALSE
  /\ failureKind' = IF failureKind = "none" THEN "execution-error" ELSE failureKind
  /\ trouble' = TRUE
  /\ UNCHANGED failures

InvalidDepth ==
  /\ at = "start"
  /\ length # Depth
  /\ at' = "done"
  /\ passed' = FALSE
  /\ failureKind' = "invalid-depth"
  /\ trouble' = TRUE
  /\ UNCHANGED <<settings, executed, failures, opened, closed>>

SetUp ==
  /\ at = "start"
  /\ length = Depth
  /\ \/ /\ at' = "reconcileBefore"
        /\ opened' = opened + 1
        /\ UNCHANGED verdictVars
     \/ /\ at' = "done"
        /\ Thrown
        /\ UNCHANGED opened
  /\ UNCHANGED <<settings, executed, closed>>

\* Slip: a throw before the run returns without cleaning up.
ReconcileBeforeUncleaned ==
  /\ at = "reconcileBefore"
  /\ \/ /\ at' = "checkBefore"
        /\ UNCHANGED verdictVars
     \/ /\ at' = "done"
        /\ Thrown
  /\ UNCHANGED <<settings, executed, opened, closed>>

ReconcileBefore ==
  /\ at = "reconcileBefore"
  /\ \/ /\ at' = "checkBefore"
        /\ UNCHANGED verdictVars
     \/ /\ at' = "cleanup"
        /\ Thrown
  /\ UNCHANGED <<settings, executed, opened, closed>>

\* Slip: the loop looks at the verdict only when it has ended.
LoopHeadEager ==
  at' = CASE Len(executed) < length -> "execute"
          [] Len(executed) >= length /\ passed' -> "checkRun"
          [] Len(executed) >= length /\ ~passed' -> "cleanup"

\* The loop goes on while the candidate passes; then the final check.
LoopHead ==
  at' = CASE passed' /\ Len(executed) < length -> "execute"
          [] passed' /\ Len(executed) >= length -> "checkRun"
          [] ~passed' -> "cleanup"

\* checkInvariantsAsync resolves; bad is whether the caller adds a reason to fail.
Checked(bad) ==
  \E found \in BOOLEAN :
    /\ failures' = (failures \/ found)
    /\ passed' = (passed /\ ~found /\ ~bad)
    /\ trouble' = (trouble \/ found \/ bad)
    /\ UNCHANGED failureKind

CheckBefore ==
  /\ at = "checkBefore"
  /\ \/ Checked(FALSE) /\ LoopHead
     \/ Thrown /\ at' = "cleanup"
  /\ UNCHANGED <<settings, executed, opened, closed>>

Execute ==
  /\ at = "execute"
  /\ \E outcome \in Outcomes :
       /\ executed' = Append(executed, outcome)
       /\ at' = IF outcome = "accepted" THEN "reconcileAction" ELSE "checkAction"
  /\ UNCHANGED <<settings, verdictVars, opened, closed>>

ReconcileAction ==
  /\ at = "reconcileAction"
  /\ \/ /\ at' = "checkAction"
        /\ UNCHANGED verdictVars
     \/ /\ at' = "cleanup"
        /\ Thrown
  /\ UNCHANGED <<settings, executed, opened, closed>>

\* The outcome is judged after the check.
CheckAction ==
  /\ at = "checkAction"
  /\ \/ Checked(~Acceptable(executed[Len(executed)])) /\ LoopHead
     \/ Thrown /\ at' = "cleanup"
  /\ UNCHANGED <<settings, executed, opened, closed>>

CheckRun ==
  /\ at = "checkRun"
  /\ Checked(FALSE) \/ Thrown
  /\ at' = "cleanup"
  /\ UNCHANGED <<settings, executed, opened, closed>>

\* Slip: a throwing cleanup is logged and forgotten.
CleanUpLenient ==
  /\ at = "cleanup"
  /\ at' = "checkCleanup"
  /\ closed' = closed + 1
  /\ trouble' \in {trouble, TRUE}
  /\ UNCHANGED <<settings, executed, failures, failureKind, passed, opened>>

CleanUp ==
  /\ at = "cleanup"
  /\ at' = "checkCleanup"
  /\ closed' = closed + 1
  /\ Thrown \/ UNCHANGED verdictVars
  /\ UNCHANGED <<settings, executed, opened>>

CheckCleanup ==
  /\ at = "checkCleanup"
  /\ at' = "done"
  /\ Checked(FALSE) \/ Thrown
  /\ UNCHANGED <<settings, executed, opened, closed>>

CampaignNext ==
  \/ InvalidDepth \/ SetUp \/ ReconcileBefore \/ CheckBefore \/ Execute \/ ReconcileAction
  \/ CheckAction \/ CheckRun \/ CleanUp \/ CheckCleanup

CampaignSpec == CampaignInit /\ [][CampaignNext]_campaignVars

-----------------------------------------------------------------------------

(* A candidate passes exactly when nothing went wrong: no hook threw, no   *)
(* invariant failed at any of the checks, the one after the cleanup        *)
(* included, and every outcome was acceptable; and the trace of one that   *)
(* fails says why.                                                         *)
VerdictExact ==
  at = "done" =>
    /\ passed <=> ~trouble
    /\ ~passed => \/ failureKind # "none"
                  \/ failures
                  \/ \E k \in DOMAIN executed : ~Acceptable(executed[k])

(* Every context set up is cleaned up once, and nothing else is, whichever *)
(* hook threw (the finally clause).                                        *)
CleanupPaired == closed <= opened /\ (at = "done" => closed = opened)

(* No action is executed once something has gone wrong, so the last action *)
(* of a trace is the one that failed.                                      *)
NothingAfterTrouble == [][trouble => executed' = executed]_campaignVars
=============================================================================
