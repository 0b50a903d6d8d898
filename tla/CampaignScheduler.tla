-------------------------- MODULE CampaignScheduler --------------------------
(***************************************************************************)
(* scheduleCampaignSlots: turns the numbers fast-check generates (and      *)
(* shrinks) into the slots of a campaign, one per step.  Targets without   *)
(* weight, without actors, or that need an active contract when there is   *)
(* none are left out; the others share the rolls by weight.                *)
(***************************************************************************)
EXTENDS Integers, FiniteSets, Sequences, SequencesExt

CONSTANTS
    MaxTargets,   \* bound: number of targets
    MaxWeight,    \* bound: their weights
    Actors,       \* actor names
    ScheduleDepth \* the campaign's depth

ASSUME SchedulerAssumption ==
    MaxTargets \in Nat /\ MaxWeight \in Nat /\ ScheduleDepth \in Nat \ {0}

VARIABLES
    targets,     \* init.targets
    hasContract, \* init.hasActiveContract
    slots        \* the slots so far

schedulerVars == <<targets, hasContract, slots>>

Target == [weight : 0..MaxWeight, actors : {a \in SeqOf(Actors, 2) : IsInjective(a)}, needsContract : BOOLEAN]

SchedulerInit ==
    /\ targets \in SeqOf(Target, MaxTargets)
    /\ hasContract \in BOOLEAN
    /\ slots = <<>>

(* The positions of the targets a slot may go to, and what they weigh.     *)
MayRun(t) == t.weight > 0 /\ t.actors # <<>> /\ (hasContract \/ ~t.needsContract)
Eligible == {i \in DOMAIN targets : MayRun(targets[i])}
Weight(i) == IF i \in Eligible THEN targets[i].weight ELSE 0

WeightUpTo[n \in 0..Len(targets)] == IF n = 0 THEN 0 ELSE WeightUpTo[n - 1] + Weight(n)
TotalWeight == WeightUpTo[Len(targets)]

(* Slip: off by one.                                                       *)
FallsAtEnd(remaining, t) == remaining <= t.weight

(* selectByWeight: counts the roll down through the weights and takes the  *)
(* first target that what remains of it falls on.                          *)
Falls(remaining, t) == remaining < t.weight
CountDown(roll) ==
    LET remaining[n \in 0..Len(targets)] ==
            IF n = 0 THEN roll % TotalWeight ELSE remaining[n - 1] - Weight(n)
    IN  remaining
SelectByWeight(roll) ==
    LET found == {i \in Eligible : Falls(CountDown(roll)[i - 1], targets[i])}
    IN  IF found = {} THEN 0 ELSE CHOOSE i \in found : \A j \in found : i <= j

Slot(targetRoll, actorRoll) ==
    IF TotalWeight = 0 THEN [kind |-> "probe"]
    ELSE LET i == SelectByWeight(targetRoll)
         IN  [kind |-> "target", target |-> i,
              actor |-> targets[i].actors[(actorRoll % Len(targets[i].actors)) + 1]]

Rolls == 0..(2 * MaxWeight * MaxTargets)

Schedule ==
    /\ Len(slots) < ScheduleDepth
    /\ \E targetRoll \in Rolls, actorRoll \in 0..2 :
          slots' = Append(slots, Slot(targetRoll, actorRoll))
    /\ UNCHANGED <<targets, hasContract>>

SchedulerSpec == SchedulerInit /\ [][Schedule]_schedulerVars

-----------------------------------------------------------------------------
(* What a target is due out of every TotalWeight rolls.                    *)
ShareOf(t) ==
    IF t.actors # <<>> /\ (t.needsContract => hasContract) THEN t.weight ELSE 0

(* Wherever the rolls start (fast-check shrinks them towards zero), any    *)
(* TotalWeight consecutive ones hand each target exactly its weight in     *)
(* slots, and a target without actors, or one that needs a contract while  *)
(* there is none, gets no slot; every roll finds a target.                 *)
WeightsShared ==
    TotalWeight > 0 =>
        \A first \in 0..TotalWeight :
            LET run == first..(first + TotalWeight - 1)
            IN  /\ \A roll \in run : SelectByWeight(roll) # 0
                /\ \A i \in DOMAIN targets :
                      Cardinality({roll \in run : SelectByWeight(roll) = i}) = ShareOf(targets[i])

=============================================================================
