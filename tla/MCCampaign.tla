----------------------------- MODULE MCCampaign -----------------------------
(***************************************************************************)
(* Instance of the campaign: the scheduler makes the slots before the      *)
(* runner starts on them, and the two share no variable, so each is        *)
(* explored while the other rests in a fixed state.                        *)
(***************************************************************************)
EXTENDS CampaignRunner, CampaignScheduler

VARIABLE runs  (* "scheduler" or "runner" *)

SchedulerRests == targets = <<>> /\ hasContract = FALSE /\ SchedulerInit
RunnerRests == length = 0 /\ failOnRevert = FALSE /\ CampaignInit

BothInit ==
  \/ runs = "scheduler" /\ SchedulerInit /\ RunnerRests
  \/ runs = "runner" /\ SchedulerRests /\ CampaignInit

bothVars == <<runs, campaignVars, schedulerVars>>

BothNext ==
  /\ UNCHANGED runs
  /\ \/ runs = "scheduler" /\ Schedule /\ UNCHANGED campaignVars
     \/ runs = "runner" /\ CampaignNext /\ UNCHANGED schedulerVars

BothSpec == BothInit /\ [][BothNext]_bothVars
=============================================================================
