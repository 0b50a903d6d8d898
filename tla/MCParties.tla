----------------------------- MODULE MCParties -----------------------------
(***************************************************************************)
(* Instance of the party operations: the wait for a hosting, the           *)
(* activation of an external party and the creation of a decentralized     *)
(* one.  They are calls of different clients that share no variable, so    *)
(* each is explored while the others rest in a fixed state.                *)
(***************************************************************************)
EXTENDS PartyHostingWait, ExternalPartyActivation, DecentralizedParty

CONSTANTS p1, p2

VARIABLE operation  (* the operation that runs *)

ClientOrder == <<p1, p2>>

\* One below, at and above zero.
AroundZero == {-1, 0, 1}

\* Keys are interchangeable: they are numbered as the request names them.
KeysNumbered ==
  LET all == owners \o partyKeys
  IN  \A n \in DOMAIN all : all[n] = 1 \/ \E m \in 1..(n - 1) : all[m] >= all[n] - 1

WaitRests ==
  /\ timeoutMs = (CHOOSE t \in WaitTimeouts : TRUE)
  /\ pollIntervalMs = (CHOOSE t \in WaitIntervals : TRUE)
  /\ hosted = FALSE /\ decoy = FALSE
  /\ WaitInit
ActivationRests ==
  /\ timeout = (CHOOSE t \in Timeouts : TRUE)
  /\ interval = (CHOOSE t \in Intervals : TRUE)
  /\ active = NoMapping
  /\ ActivationInit
PartyRests ==
  /\ mode = "offline" /\ hasWriter = FALSE
  /\ owners = <<>> /\ partyKeys = <<>> /\ ownerThreshold = 0 /\ partyThreshold = 0
  /\ signers = {}
  /\ PartyInit

OperationsInit ==
  \/ operation = "wait" /\ WaitInit /\ ActivationRests /\ PartyRests
  \/ operation = "activate" /\ WaitRests /\ ActivationInit /\ PartyRests
  \/ operation = "create" /\ WaitRests /\ ActivationRests /\ PartyInit /\ KeysNumbered

operationVars == <<operation, waitVars, activationVars, partyVars>>

\* A step of one operation.
Waiting(step) ==
  operation = "wait" /\ step /\ UNCHANGED <<operation, activationVars, partyVars>>
Activating(step) ==
  operation = "activate" /\ step /\ UNCHANGED <<operation, waitVars, partyVars>>
Creating(step) ==
  operation = "create" /\ step /\ UNCHANGED <<operation, waitVars, activationVars>>

OperationsNext ==
  \/ Waiting(WaitNext)
  \/ Activating(ActivationNext)
  \/ Creating(PartyNext)

\* The fairness of WaitSpec and of ActivationSpec.
OperationsSpec ==
  /\ OperationsInit /\ [][OperationsNext]_operationVars
  /\ WF_operationVars(Waiting(WaitStep)) /\ WF_operationVars(Waiting(TimePasses))
  /\ WF_operationVars(Activating(CallStep)) /\ WF_operationVars(Activating(Passes))

-----------------------------------------------------------------------------

(* Every operation that waits for the topology ends: a wait for a hosting  *)
(* (pollUntilAsync), also with a zero interval, also when the hosting      *)
(* never appears; and each of the repeated activations, whatever the       *)
(* topology does meanwhile (activateAsync).                                *)
OperationsEnd == (operation = "wait" => WaitEnds) /\ CallEnds
=============================================================================
