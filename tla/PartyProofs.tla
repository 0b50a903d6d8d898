---------------------------- MODULE PartyProofs -----------------------------
(***************************************************************************)
(* Theorems about the operations on parties: the wait for a hosting, the   *)
(* activation of an external party and the creation of a decentralized     *)
(* one, for every timeout, interval and lag, any number of clients and any *)
(* keys.                                                                   *)
(***************************************************************************)
EXTENDS PartyHostingWait, ExternalPartyActivation, DecentralizedParty, FiniteSetTheorems,
        TLAPS

-----------------------------------------------------------------------------
(***************************************************************************)
(* waitForPartyHostingAsync.  What each await knows of the last read makes *)
(* the end of the wait truthful.                                           *)
(***************************************************************************)

WaitTypeOK ==
  /\ now \in Nat /\ deadline \in Nat /\ timerDue \in Nat /\ heardAt \in Nat
  /\ pollIntervalMs \in Nat
  /\ waitAt \in {"reading", "replied", "sleeping", "done"}
  /\ hosted \in BOOLEAN /\ decoy \in BOOLEAN /\ hostedSeen \in BOOLEAN /\ missing \in BOOLEAN

\* What the history says at each await: an unanswered read has seen what is
\* there now; an answer on its way was true at a moment of the read; a sleep
\* follows a look that did not match and ends within one interval of it.
WaitKnows ==
  /\ waitAt # "done" => waitOutcome = "pending"
  /\ waitAt = "reading" => (hosted => hostedSeen) /\ (Obstructed => missing)
  /\ waitAt = "replied" => IF reply = "match" THEN hostedSeen ELSE missing
  /\ waitAt = "sleeping" => /\ last = reply /\ missing
                            /\ timerDue <= heardAt + pollIntervalMs
                            /\ now <= timerDue + MaxTimerLag

WaitInv == WaitTypeOK /\ WaitKnows /\ WaitTruthful

LEMMA InitWait == WaitInit => WaitInv
  <1>. SUFFICES ASSUME WaitInit PROVE WaitInv
    OBVIOUS
  <1>1. timeoutMs \in Nat /\ pollIntervalMs \in Nat
    BY WaitAssumption DEF WaitInit
  <1>2. WaitTypeOK
    <2>1. Obstructed \in BOOLEAN
      BY DEF Obstructed
    <2>. QED
      BY <1>1, <2>1 DEF WaitInit, WaitTypeOK
  <1>3. WaitKnows /\ WaitTruthful
    BY DEF WaitInit, WaitKnows, WaitTruthful
  <1>. QED
    BY <1>2, <1>3 DEF WaitInv

\* What the participant lists was so when it was asked.
LEMMA ListingTrue ==
  ASSUME WaitTypeOK
  PROVE \A value \in Listing : IF value = "match" THEN hosted ELSE Obstructed
  BY DEF Listing, Obstructed, WaitTypeOK

\* A sleep is never longer than the interval and never runs into the past.
LEMMA WakeInTime ==
  ASSUME WaitTypeOK, now < deadline
  PROVE WakeAt(now) \in Nat /\ now <= WakeAt(now) /\ WakeAt(now) <= now + pollIntervalMs
  BY DEF WakeAt, WaitTypeOK

LEMMA NextWait == WaitInv /\ [WaitNext]_waitVars => WaitInv'
  <1>. SUFFICES ASSUME WaitInv, [WaitNext]_waitVars PROVE WaitInv'
    OBVIOUS
  <1>. USE WaitAssumption DEF WaitInv
  <1>1. CASE Answer
    BY <1>1, ListingTrue DEF Answer, WaitTypeOK, WaitKnows, WaitTruthful, waitRequest, listingVars, history
  <1>2. CASE ReadResolves
    <2>0. /\ waitAt = "replied" /\ waitOutcome = "pending" /\ last' = reply /\ heardAt' = now
          /\ UNCHANGED <<now, pollIntervalMs, deadline, reply, hosted, decoy, hostedSeen, missing>>
          /\ IF reply = "match" THEN hostedSeen ELSE missing
      BY <1>2 DEF ReadResolves, WaitKnows, waitRequest, listingVars
    <2>1. CASE Matches(reply) /\ EndWait("found") /\ UNCHANGED timerDue
      BY <2>0, <2>1 DEF EndWait, Matches, WaitTypeOK, WaitKnows, WaitTruthful
    <2>2. CASE ~Matches(reply) /\ now >= deadline /\ EndWait("timeout") /\ UNCHANGED timerDue
      BY <2>0, <2>2 DEF EndWait, Matches, WaitTypeOK, WaitKnows, WaitTruthful
    <2>3. CASE /\ ~Matches(reply) /\ now < deadline
               /\ waitAt' = "sleeping" /\ timerDue' = WakeAt(now) /\ UNCHANGED waitOutcome
      BY <2>0, <2>3, WakeInTime DEF Matches, WaitTypeOK, WaitKnows, WaitTruthful
    <2>. QED
      BY <1>2, <2>1, <2>2, <2>3 DEF ReadResolves
  <1>3. CASE ReadRejects
    BY <1>3 DEF ReadRejects, EndWait, WaitTypeOK, WaitKnows, WaitTruthful, waitRequest, listingVars, history
  <1>4. CASE Wakes
    <2>0. /\ waitAt = "sleeping" /\ waitOutcome = "pending"
          /\ UNCHANGED <<now, pollIntervalMs, deadline, timerDue, reply, last, hosted, decoy, heardAt>>
      BY <1>4 DEF Wakes, WaitKnows, waitRequest, listingVars
    <2>1. CASE /\ now < deadline /\ waitAt' = "reading"
               /\ hostedSeen' = hosted /\ missing' = Obstructed /\ UNCHANGED waitOutcome
      BY <2>0, <2>1 DEF WaitTypeOK, WaitKnows, WaitTruthful, Obstructed
    <2>2. CASE now >= deadline /\ EndWait("timeout") /\ UNCHANGED <<hostedSeen, missing>>
      BY <2>0, <2>2 DEF EndWait, WaitTypeOK, WaitKnows, WaitTruthful
    <2>. QED
      BY <1>4, <2>1, <2>2 DEF Wakes
  <1>5. CASE TimePasses
    BY <1>5 DEF TimePasses, WaitTypeOK, WaitKnows, WaitTruthful, waitRequest, listingVars, history, Obstructed
  <1>6. CASE TopologyChanges
    BY <1>6 DEF TopologyChanges, WaitTypeOK, WaitKnows, WaitTruthful, waitRequest, Obstructed
  <1>7. CASE UNCHANGED waitVars
    BY <1>7 DEF waitVars, WaitTypeOK, WaitKnows, WaitTruthful, waitRequest, listingVars, history, Obstructed
  <1>. QED
    BY <1>1, <1>2, <1>3, <1>4, <1>5, <1>6, <1>7 DEF WaitNext, WaitStep

(* The end of waitForPartyHostingAsync tells the truth for every timeout,  *)
(* poll interval and timer lag: what it found existed during the last      *)
(* read, and when it gave up that read, less than an interval and a lag    *)
(* before the deadline, had shown the hosting absent or hidden.            *)
THEOREM WaitsTellTheTruth == WaitSpec => []WaitTruthful
  <1>1. WaitInv => WaitTruthful
    BY DEF WaitInv
  <1>. QED
    BY <1>1, InitWait, NextWait, PTL DEF WaitSpec

-----------------------------------------------------------------------------
(***************************************************************************)
(* activateAsync.  The clients before the next one have signed, and a      *)
(* delay remembers what its look has seen.                                 *)
(***************************************************************************)

ActivationTypeOK ==
  /\ timeout \in Int /\ interval \in Int
  /\ pc \in {"idle", "look", "authorize", "delay", "done"}
  /\ phase \in {"proposal", "activation"}
  /\ elapsed \in Nat /\ wake \in Int /\ heard \in Int
  /\ gotProposal \in Mappings \cup {Unhashed, "asked"}
  /\ active \in Mappings /\ proposal \in Mappings
  /\ signed \in [Hashes -> SUBSET Signers]

\* Who has signed while the clients are asked one after the other.
SigningInv ==
  pc = "authorize" =>
    /\ phase = "proposal"
    /\ hash \in Hashes /\ next \in 1..Len(Clients)
    /\ \A i \in 1..(next - 1) : Clients[i] \in signed[hash]

\* What the answers and the clock of a wait say about its last look.
LookInv ==
  /\ pc # "done" => outcome = "none"
  /\ pc \in {"look", "authorize", "delay"} => interval >= 0
  /\ pc = "look" =>
       /\ Moment \in shown
       /\ gotActive # "asked" => \E m \in shown : m.active = gotActive
       /\ gotProposal # "asked" /\ gotProposal = NoMapping => \E m \in shown : m.proposal = NoMapping
  /\ pc = "delay" =>
       /\ wake = heard + interval /\ elapsed <= wake + MaxLate
       /\ \E m \in shown : m.active = NoMapping
       /\ phase = "proposal" => \E m \in shown : m.proposal = NoMapping

ActivationInv ==
  ActivationTypeOK /\ SigningInv /\ AllSignedBeforeWait /\ LookInv /\ ActivationTruthful

LEMMA InitActivation == ActivationInit => ActivationInv
  <1>. SUFFICES ASSUME ActivationInit PROVE ActivationInv
    OBVIOUS
  <1>. USE DEF ActivationInit
  <1>1. ActivationTypeOK
    <2>1. timeout \in Int /\ interval \in Int
      BY ActivationAssumption
    <2>2. signed \in [Hashes -> SUBSET Signers]
      OBVIOUS
    <2>. QED
      BY <2>1, <2>2 DEF ActivationTypeOK, Mappings
  <1>2. SigningInv /\ AllSignedBeforeWait /\ LookInv /\ ActivationTruthful
    BY DEF SigningInv, AllSignedBeforeWait, LookInv, ActivationTruthful
  <1>. QED
    BY <1>1, <1>2 DEF ActivationInv

\* A look that starts has seen the topology as it is.
LEMMA LookStarts ==
  ASSUME StartLook, UNCHANGED topology
  PROVE /\ pc' = "look" /\ gotActive' = "asked" /\ gotProposal' = "asked" /\ Moment' \in shown'
  BY DEF StartLook, Moment, topology

\* Asking the next client, or starting the second wait when there is none.
LEMMA AskedInOrder ==
  ASSUME ActivationTypeOK, signed' \in [Hashes -> SUBSET Signers], hash' \in Hashes,
         NEW i \in 1..(Len(Clients) + 1), AskOrWait(i),
         \A k \in 1..(i - 1) : Clients[k] \in signed'[hash'],
         phase = "proposal"
  PROVE /\ SigningInv' /\ AllSignedBeforeWait'
        /\ \/ pc' = "authorize" /\ UNCHANGED <<phase, elapsed, replies, shown>>
           \/ StartWait("activation")
  <1>1. CASE /\ i <= Len(Clients) /\ pc' = "authorize"
             /\ UNCHANGED <<phase, elapsed, replies, shown>>
    BY <1>1 DEF AskOrWait, SigningInv, AllSignedBeforeWait
  <1>2. CASE i > Len(Clients) /\ StartWait("activation")
    <2>1. pc' = "look"
      BY <1>2 DEF StartWait, StartLook
    <2>2. Len(Clients) \in Nat /\ DOMAIN Clients = 1..Len(Clients)
      BY ActivationAssumption
    <2>3. Signers \subseteq signed'[hash']
      BY <1>2, <2>2 DEF Signers
    <2>. QED
      BY <1>2, <2>1, <2>3 DEF SigningInv, AllSignedBeforeWait
  <1>. QED
    BY <1>1, <1>2 DEF AskOrWait

LEMMA NextActivation == ActivationInv /\ [ActivationNext]_activationVars => ActivationInv'
  <1>. SUFFICES ASSUME ActivationInv, [ActivationNext]_activationVars PROVE ActivationInv'
    OBVIOUS
  <1>. USE ActivationAssumption DEF ActivationInv, options, replies, topology, ended
  <1>1. CASE Activate
    <2>0. /\ pc \in {"idle", "done"}
          /\ UNCHANGED <<timeout, interval, wake, active, proposal, signed, heard>>
      BY <1>1 DEF Activate
    <2>1. CASE Finish("invalid", NoMapping) /\ UNCHANGED <<phase, elapsed, replies, shown>>
      BY <2>0, <2>1
      DEF Finish, ActivationTypeOK, SigningInv, AllSignedBeforeWait, LookInv, ActivationTruthful
    <2>2. CASE interval >= 0 /\ StartWait("proposal") /\ outcome' = "none"
      <3>1. StartLook /\ phase' = "proposal" /\ elapsed' = 0
        BY <2>2 DEF StartWait
      <3>2. pc' = "look" /\ gotActive' = "asked" /\ gotProposal' = "asked" /\ Moment' \in shown'
        BY <2>0, <3>1, LookStarts
      <3>3. ActivationTypeOK'
        BY <2>0, <3>1, <3>2 DEF ActivationTypeOK
      <3>4. SigningInv' /\ AllSignedBeforeWait' /\ LookInv' /\ ActivationTruthful'
        BY <2>0, <2>2, <3>1, <3>2 DEF SigningInv, AllSignedBeforeWait, LookInv, ActivationTruthful
      <3>. QED
        BY <3>3, <3>4
    <2>. QED
      BY <1>1, <2>1, <2>2 DEF Activate
  <1>2. CASE AnswerActive
    <2>1. /\ pc = "look" /\ gotActive' = active
          /\ UNCHANGED <<timeout, interval, pc, phase, elapsed, wake, gotProposal, hash, next, outcome,
                         response, active, proposal, signed, heard, shown>>
      BY <1>2 DEF AnswerActive
    <2>2. ActivationTypeOK' /\ SigningInv' /\ AllSignedBeforeWait' /\ ActivationTruthful'
      BY <2>1 DEF ActivationTypeOK, SigningInv, AllSignedBeforeWait, ActivationTruthful
    <2>3. \E m \in shown : m.active = active
      BY <2>1 DEF LookInv, Moment
    <2>4. LookInv'
      BY <2>1, <2>3 DEF LookInv, Moment
    <2>. QED
      BY <2>2, <2>4
  <1>3. CASE AnswerProposal
    <2>1. /\ pc = "look" /\ gotProposal' \in {proposal, Unhashed}
          /\ UNCHANGED <<timeout, interval, pc, phase, elapsed, wake, gotActive, hash, next, outcome,
                         response, active, proposal, signed, heard, shown>>
      BY <1>3 DEF AnswerProposal
    <2>2. ActivationTypeOK' /\ SigningInv' /\ AllSignedBeforeWait' /\ ActivationTruthful'
      BY <2>1 DEF ActivationTypeOK, SigningInv, AllSignedBeforeWait, ActivationTruthful
    <2>3. gotProposal' = NoMapping => \E m \in shown : m.proposal = NoMapping
      BY <2>1 DEF LookInv, Moment
    <2>4. LookInv'
      BY <2>1, <2>3 DEF LookInv, Moment
    <2>. QED
      BY <2>2, <2>4
  <1>4. CASE LookRejects \/ AuthorizeRejects
    <2>1. /\ Finish("rejected", NoMapping)
          /\ UNCHANGED <<timeout, interval, phase, elapsed, wake, gotProposal, active, proposal, heard>>
      BY <1>4 DEF LookRejects, AuthorizeRejects
    <2>2. signed' \in [Hashes -> SUBSET Signers]
      <3>1. CASE signed' = signed
        BY <3>1 DEF ActivationTypeOK
      <3>2. CASE pc = "authorize" /\ signed' = [signed EXCEPT ![hash] = @ \cup {Clients[next]}]
        <4>1. Clients[next] \in Signers
          BY <3>2 DEF SigningInv, Signers
        <4>. QED
          BY <3>2, <4>1 DEF ActivationTypeOK
      <3>. QED
        BY <1>4, <3>1, <3>2 DEF LookRejects, AuthorizeRejects
    <2>. QED
      BY <2>1, <2>2
      DEF Finish, ActivationTypeOK, SigningInv, AllSignedBeforeWait, LookInv, ActivationTruthful
  <1>5. CASE LookResolves
    <2>0. /\ pc = "look" /\ gotActive # "asked" /\ gotProposal # "asked" /\ heard' = elapsed
          /\ UNCHANGED <<timeout, interval, active, proposal, signed>>
          /\ \E m \in shown : m.active = gotActive
          /\ gotProposal = NoMapping => \E m \in shown : m.proposal = NoMapping
      BY <1>5 DEF LookResolves, LookInv
    <2>1. CASE /\ \E result \in {"active", "unhashed"} :
                    /\ Finish(result, IF result = "active" THEN gotActive ELSE NoMapping)
               /\ UNCHANGED <<phase, elapsed, replies, shown, hash, next, wake>>
      <3>1. ActivationTypeOK'
        BY <2>0, <2>1 DEF Finish, ActivationTypeOK
      <3>2. SigningInv' /\ AllSignedBeforeWait' /\ LookInv'
        BY <2>0, <2>1 DEF Finish, SigningInv, AllSignedBeforeWait, LookInv
      <3>3. ActivationTruthful'
        BY <2>0, <2>1 DEF Finish, ActivationTruthful
      <3>. QED
        BY <3>1, <3>2, <3>3
    <2>2. CASE /\ Settles /\ gotProposal # Unhashed /\ hash' = gotProposal
               /\ AskOrWait(1) /\ UNCHANGED <<ended, wake>>
      <3>1. hash' \in Hashes /\ phase = "proposal"
        BY <2>0, <2>2 DEF Settles, ActivationTypeOK, Mappings
      <3>2. Len(Clients) \in Nat
        OBVIOUS
      <3>3. /\ SigningInv' /\ AllSignedBeforeWait'
            /\ \/ pc' = "authorize" /\ UNCHANGED <<phase, elapsed, replies, shown>>
               \/ StartWait("activation")
        <4>1. signed' \in [Hashes -> SUBSET Signers] /\ 1 \in 1..(Len(Clients) + 1)
          BY <2>0, <3>2 DEF ActivationTypeOK
        <4>2. \A k \in 1..(1 - 1) : Clients[k] \in signed'[hash']
          OBVIOUS
        <4>. QED
          BY <2>2, <3>1, <4>1, <4>2, AskedInOrder
      <3>4. CASE pc' = "authorize" /\ UNCHANGED <<phase, elapsed, replies, shown>>
        <4>1. ActivationTypeOK'
          BY <2>0, <2>2, <3>4 DEF ActivationTypeOK
        <4>2. LookInv' /\ ActivationTruthful'
          BY <2>0, <2>2, <3>4 DEF LookInv, ActivationTruthful
        <4>. QED
          BY <3>3, <4>1, <4>2
      <3>5. CASE StartWait("activation")
        <4>1. StartLook /\ phase' = "activation" /\ elapsed' = 0
          BY <3>5 DEF StartWait
        <4>2. pc' = "look" /\ gotActive' = "asked" /\ gotProposal' = "asked" /\ Moment' \in shown'
          BY <2>0, <4>1, LookStarts
        <4>3. ActivationTypeOK'
          BY <2>0, <2>2, <4>1, <4>2 DEF ActivationTypeOK
        <4>4. LookInv' /\ ActivationTruthful'
          BY <2>0, <2>2, <4>1, <4>2 DEF LookInv, ActivationTruthful
        <4>. QED
          BY <3>3, <4>3, <4>4
      <3>. QED
        BY <3>3, <3>4, <3>5
    <2>3. CASE /\ gotActive = NoMapping /\ ~Settles /\ pc' = "delay" /\ wake' = elapsed + interval
               /\ UNCHANGED <<phase, elapsed, replies, shown, hash, next, ended>>
      <3>1. ActivationTypeOK'
        BY <2>0, <2>3 DEF ActivationTypeOK
      <3>2. SigningInv' /\ AllSignedBeforeWait' /\ ActivationTruthful'
        BY <2>0, <2>3 DEF SigningInv, AllSignedBeforeWait, ActivationTruthful, LookInv
      <3>3. phase = "proposal" => gotProposal = NoMapping
        BY <2>3 DEF Settles
      <3>4. interval \in Nat /\ elapsed \in Nat
        BY <2>0 DEF LookInv, ActivationTypeOK
      <3>5. LookInv'
        BY <2>0, <2>3, <3>3, <3>4 DEF LookInv
      <3>. QED
        BY <3>1, <3>2, <3>5
    <2>. QED
      BY <1>5, <2>1, <2>2, <2>3 DEF LookResolves
  <1>6. CASE DelayEnds
    <2>0. /\ pc = "delay"
          /\ UNCHANGED <<timeout, interval, phase, elapsed, wake, hash, next, active, proposal, signed, heard>>
      BY <1>6 DEF DelayEnds
    <2>1. CASE StartLook /\ UNCHANGED ended
      <3>1. pc' = "look" /\ gotActive' = "asked" /\ gotProposal' = "asked" /\ Moment' \in shown'
        BY <2>0, <2>1, LookStarts
      <3>2. ActivationTypeOK'
        BY <2>0, <3>1 DEF ActivationTypeOK
      <3>3. SigningInv' /\ AllSignedBeforeWait'
        BY <2>0, <3>1 DEF SigningInv, AllSignedBeforeWait
      <3>4. LookInv' /\ ActivationTruthful'
        BY <2>0, <2>1, <3>1 DEF LookInv, ActivationTruthful
      <3>. QED
        BY <3>2, <3>3, <3>4
    <2>2. CASE elapsed > timeout /\ Finish("timeout", NoMapping) /\ UNCHANGED <<replies, shown>>
      <3>1. ActivationTypeOK' /\ SigningInv' /\ AllSignedBeforeWait' /\ LookInv'
        BY <2>0, <2>2 DEF Finish, ActivationTypeOK, SigningInv, AllSignedBeforeWait, LookInv
      <3>2. heard > timeout - interval - MaxLate
        BY <2>0, <2>2 DEF LookInv, ActivationTypeOK
      <3>3. ActivationTruthful'
        BY <2>0, <2>2, <3>2 DEF Finish, ActivationTruthful, LookInv
      <3>. QED
        BY <3>1, <3>3
    <2>. QED
      BY <1>6, <2>1, <2>2 DEF DelayEnds
  <1>7. CASE AuthorizeResolves
    <2>0. /\ pc = "authorize" /\ hash \in Hashes /\ next \in 1..Len(Clients)
          /\ \A i \in 1..(next - 1) : Clients[i] \in signed[hash]
          /\ signed' = [signed EXCEPT ![hash] = @ \cup {Clients[next]}]
          /\ AskOrWait(next + 1)
          /\ UNCHANGED <<timeout, interval, wake, hash, outcome, response, active, proposal, heard>>
      BY <1>7 DEF AuthorizeResolves, SigningInv
    <2>1. Clients[next] \in Signers
      BY <2>0 DEF Signers
    <2>2. signed' \in [Hashes -> SUBSET Signers]
      BY <2>0, <2>1 DEF ActivationTypeOK
    <2>3. \A k \in 1..(next + 1 - 1) : Clients[k] \in signed'[hash']
      BY <2>0 DEF ActivationTypeOK
    <2>4. CASE phase = "proposal"
      <3>1. next + 1 \in 1..(Len(Clients) + 1)
        BY <2>0
      <3>2. /\ SigningInv' /\ AllSignedBeforeWait'
            /\ \/ pc' = "authorize" /\ UNCHANGED <<phase, elapsed, replies, shown>>
               \/ StartWait("activation")
        BY <2>0, <2>2, <2>3, <2>4, <3>1, AskedInOrder
      <3>3. CASE pc' = "authorize" /\ UNCHANGED <<phase, elapsed, replies, shown>>
        <4>1. ActivationTypeOK'
          BY <2>0, <2>2, <3>3 DEF ActivationTypeOK
        <4>2. LookInv' /\ ActivationTruthful'
          BY <2>0, <3>3 DEF LookInv, ActivationTruthful
        <4>. QED
          BY <3>2, <4>1, <4>2
      <3>4. CASE StartWait("activation")
        <4>1. pc' = "look" /\ gotActive' = "asked" /\ gotProposal' = "asked" /\ Moment' \in shown'
              /\ phase' = "activation" /\ elapsed' = 0
          BY <2>0, <3>4 DEF StartWait, StartLook, Moment
        <4>2. ActivationTypeOK'
          BY <2>0, <2>2, <4>1 DEF ActivationTypeOK
        <4>3. LookInv' /\ ActivationTruthful'
          BY <2>0, <4>1 DEF LookInv, ActivationTruthful
        <4>. QED
          BY <3>2, <4>2, <4>3
      <3>. QED
        BY <3>2, <3>3, <3>4
    <2>. QED
      BY <2>0, <2>4 DEF SigningInv
  <1>8. CASE TopologyStep
    <2>0. /\ pc # "idle" /\ Show
          /\ UNCHANGED <<timeout, interval, pc, phase, elapsed, wake, gotActive, gotProposal, hash, next,
                         outcome, response, heard>>
      BY <1>8 DEF TopologyStep
    <2>1. /\ active' \in Mappings /\ proposal' \in Mappings
          /\ signed' \in [Hashes -> SUBSET Signers]
          /\ \A h \in Hashes : signed[h] \subseteq signed'[h]
      <3>1. CASE Propose \/ Becomes \/ Withdraw
        BY <3>1 DEF Propose, Becomes, Withdraw, ActivationTypeOK, Mappings
      <3>2. CASE OtherSigns
        BY <3>2 DEF OtherSigns, ActivationTypeOK, Mappings
      <3>. QED
        BY <1>8, <3>1, <3>2 DEF TopologyStep
    <2>2. shown \subseteq shown' /\ (pc = "look" => Moment' \in shown') /\ (pc # "look" => shown' = shown)
      BY <2>0 DEF Show
    <2>3. ActivationTypeOK'
      BY <2>0, <2>1 DEF ActivationTypeOK
    <2>4. SigningInv' /\ AllSignedBeforeWait'
      BY <2>0, <2>1 DEF SigningInv, AllSignedBeforeWait
    <2>5. LookInv'
      BY <2>0, <2>2 DEF LookInv
    <2>6. ActivationTruthful'
      BY <2>0, <2>2 DEF ActivationTruthful
    <2>. QED
      BY <2>3, <2>4, <2>5, <2>6
  <1>9. CASE Passes
    <2>0. /\ pc \in {"look", "delay"} /\ elapsed' = elapsed + 1
          /\ pc = "delay" => elapsed < wake + MaxLate
          /\ UNCHANGED <<timeout, interval, pc, phase, wake, gotActive, gotProposal, hash, next, outcome,
                         response, active, proposal, signed, heard, shown>>
      BY <1>9 DEF Passes
    <2>1. ActivationTypeOK' /\ SigningInv' /\ AllSignedBeforeWait'
      BY <2>0 DEF ActivationTypeOK, SigningInv, AllSignedBeforeWait
    <2>2. pc = "delay" => elapsed' <= wake + MaxLate
      BY <2>0 DEF ActivationTypeOK
    <2>3. LookInv' /\ ActivationTruthful'
      BY <2>0, <2>2 DEF LookInv, ActivationTruthful, Moment
    <2>. QED
      BY <2>1, <2>3
  <1>10. CASE UNCHANGED activationVars
    BY <1>10
    DEF activationVars, ActivationTypeOK, SigningInv, AllSignedBeforeWait, LookInv, ActivationTruthful, Moment
  <1>. QED
    BY <1>1, <1>2, <1>3, <1>4, <1>5, <1>6, <1>7, <1>8, <1>9, <1>10 DEF ActivationNext, CallStep

(* The end of activateAsync tells the truth, for every timeout, interval   *)
(* and timer lag: a mapping it names was active during its last look, and  *)
(* when it gave up that look, less than an interval and a lag before the   *)
(* timeout, had a moment without one.                                      *)
THEOREM ActivationsTellTheTruth == ActivationSpec => []ActivationTruthful
  <1>1. ActivationInv => ActivationTruthful
    BY DEF ActivationInv
  <1>. QED
    BY <1>1, InitActivation, NextActivation, PTL DEF ActivationSpec

(* However many clients authorize: the second wait starts only when each   *)
(* of them has signed the transaction the first wait found.                *)
THEOREM AllSignBeforeTheWait == ActivationSpec => []AllSignedBeforeWait
  <1>1. ActivationInv => AllSignedBeforeWait
    BY DEF ActivationInv
  <1>. QED
    BY <1>1, InitActivation, NextActivation, PTL DEF ActivationSpec

-----------------------------------------------------------------------------
(***************************************************************************)
(* The decentralized party.  Finalization counts signing requests and      *)
(* Canton counts keys: both agree because one transaction has one request  *)
(* per owner.                                                              *)
(***************************************************************************)

Roles == {"owner", "partySigningKey"}

PartyTypeOK ==
  /\ owners \in Seq(Keys) /\ partyKeys \in Seq(Keys)
  /\ ownerThreshold \in Nat
  /\ sent \subseteq Requests /\ signedRequests \subseteq Requests
  /\ accepted = {Id(r) : r \in sent}

\* How far a call has come; the online one finalizes what it signed itself.
FinalizationInv ==
  /\ at \in {"prepare", "sign", "finalize"} => Valid
  /\ at # "done" => partyOutcome = "none"
  /\ mode = "online" /\ at = "finalize" => signedRequests = Requests

PartyInv == PartyTypeOK /\ FinalizationInv /\ FinalizationExact

\* What a request is made of, and that its id identifies it.
LEMMA RequestsAre ==
  ASSUME PartyTypeOK
  PROVE /\ \A r \in Requests : /\ r = [tx |-> r.tx, role |-> r.role, key |-> r.key]
                               /\ r.tx \in Transactions /\ r.tx \in Nat /\ r.role \in Roles /\ r.key \in Keys
                               /\ r.role = "owner" => r.key \in Range(owners)
                               /\ r.role = "partySigningKey" => r.tx = Mapping /\ r.key \in Range(partyKeys)
        /\ \A tx \in Transactions, k \in Range(owners) : [tx |-> tx, role |-> "owner", key |-> k] \in Requests
        /\ \A k \in Range(partyKeys) : [tx |-> Mapping, role |-> "partySigningKey", key |-> k] \in Requests
        /\ Stranger \notin Requests
        /\ \A r, s \in Requests : Id(r) = Id(s) => r = s
  <1>0. Len(owners) \in Nat /\ Mapping \in Transactions /\ Transactions \subseteq Nat
    BY DEF PartyTypeOK, Mapping, Transactions
  <1>1. Range(owners) \subseteq Keys /\ Range(partyKeys) \subseteq Keys
    BY DEF PartyTypeOK, Range
  <1>2. ASSUME NEW r \in Requests
        PROVE /\ r = [tx |-> r.tx, role |-> r.role, key |-> r.key]
              /\ r.tx \in Transactions /\ r.tx \in Nat /\ r.role \in Roles /\ r.key \in Keys
              /\ r.role = "owner" => r.key \in Range(owners)
              /\ r.role = "partySigningKey" => r.tx = Mapping /\ r.key \in Range(partyKeys)
    BY <1>0, <1>1, <1>2 DEF Requests, Roles
  <1>3. Stranger \notin Requests
    BY <1>2, PartyAssumption DEF Roles
  <1>4. \A r, s \in Requests : Id(r) = Id(s) => r = s
    BY <1>2 DEF Id
  <1>. QED
    BY <1>2, <1>3, <1>4 DEF Requests

\* The accepted requests of a transaction are those whose signatures go out.
LEMMA ProvidedAreSent ==
  ASSUME PartyTypeOK, NEW rs \in SUBSET Requests
  PROVE Provided(rs) = rs \cap sent
  BY RequestsAre DEF Provided, PartyTypeOK

LEMMA KeysFinite ==
  ASSUME PartyTypeOK
  PROVE IsFiniteSet(Range(owners)) /\ IsFiniteSet(Range(partyKeys))
  <1>1. ASSUME NEW s \in Seq(Keys) PROVE IsFiniteSet(Range(s))
    <2>1. Len(s) \in Nat /\ DOMAIN s = 1..Len(s)
      OBVIOUS
    <2>2. s \in Surjection(1..Len(s), Range(s))
      BY <2>1 DEF Surjection, Range
    <2>3. IsFiniteSet(1..Len(s))
      BY <2>1, FS_Interval
    <2>. QED
      BY <2>2, <2>3, FS_Surjection
  <1>. QED
    BY <1>1 DEF PartyTypeOK

\* As many owner requests among some of one transaction as there are keys.
LEMMA OneRequestPerOwner ==
  ASSUME PartyTypeOK, NEW tx \in Transactions, NEW rs \in SUBSET RequestsOf(tx, "owner"),
         NEW ks \in SUBSET Range(owners),
         \A k \in Range(owners) : k \in ks <=> [tx |-> tx, role |-> "owner", key |-> k] \in rs
  PROVE IsFiniteSet(rs) /\ IsFiniteSet(ks) /\ Cardinality(rs) = Cardinality(ks) /\ Cardinality(ks) \in Nat
  <1>. DEFINE f == [r \in rs |-> r.key]
  <1>1. \A r \in rs : /\ r = [tx |-> tx, role |-> "owner", key |-> r.key] /\ r.key \in Range(owners)
    BY RequestsAre DEF RequestsOf
  <1>2. f \in [rs -> ks]
    BY <1>1
  <1>3. \A r, s \in rs : f[r] = f[s] => r = s
    BY <1>1
  <1>4. \A k \in ks : \E r \in rs : f[r] = k
    OBVIOUS
  <1>5. f \in Injection(rs, ks) /\ f \in Surjection(rs, ks)
    BY <1>2, <1>3, <1>4 DEF Injection, Surjection, IsInjective
  <1>6. IsFiniteSet(ks)
    BY KeysFinite, FS_Subset
  <1>7. Cardinality(ks) \in Nat
    BY <1>6, FS_CardinalityType
  <1>. HIDE DEF f
  <1>. QED
    BY <1>5, <1>6, <1>7, FS_Injection

\* A signature that goes out counts for its transaction.
LEMMA SentIsSigned ==
  ASSUME NEW tx, NEW role, NEW k, [tx |-> tx, role |-> role, key |-> k] \in sent
  PROVE k \in SignersOf(tx)
  <1>. DEFINE r == [tx |-> tx, role |-> role, key |-> k]
  <1>1. r \in {s \in sent : s.tx = tx} /\ r.key = k
    OBVIOUS
  <1>. HIDE DEF r
  <1>. QED
    BY <1>1 DEF SignersOf

\* What finalization counts is what Canton will count.
LEMMA CompleteIsAuthorized ==
  ASSUME PartyTypeOK, Valid
  PROVE /\ Complete => Authorized
        /\ Range(owners) \cap Range(partyKeys) = {} /\ Authorized => Complete
        /\ sent = Requests => Complete
  <1>. DEFINE byOwner(tx) == RequestsOf(tx, "owner") \cap sent
              ownersOn(tx) == {k \in Range(owners) : [tx |-> tx, role |-> "owner", key |-> k] \in sent}
  <1>0. /\ Definition \in Transactions /\ Mapping \in Transactions /\ Definition # Mapping
        /\ Transactions \subseteq Nat /\ Len(owners) \in Nat
    BY DEF PartyTypeOK, Definition, Mapping, Transactions
  <1>1. \A tx, role : Provided(RequestsOf(tx, role)) = RequestsOf(tx, role) \cap sent
    BY ProvidedAreSent DEF RequestsOf
  <1>2. ASSUME NEW tx \in Transactions
        PROVE /\ IsFiniteSet(byOwner(tx)) /\ Cardinality(byOwner(tx)) = Cardinality(ownersOn(tx))
              /\ Cardinality(ownersOn(tx)) \in Nat /\ IsFiniteSet(ownersOn(tx))
    <2>1. \A k \in Range(owners) : k \in ownersOn(tx) <=> [tx |-> tx, role |-> "owner", key |-> k] \in byOwner(tx)
      BY RequestsAre DEF RequestsOf
    <2>2. ownersOn(tx) \in SUBSET Range(owners) /\ byOwner(tx) \in SUBSET RequestsOf(tx, "owner")
      OBVIOUS
    <2>. HIDE DEF ownersOn, byOwner
    <2>. QED
      BY <2>1, <2>2, OneRequestPerOwner
  <1>3. ASSUME NEW tx \in Transactions
        PROVE /\ IsFiniteSet(RequestsOf(tx, "owner"))
              /\ Cardinality(RequestsOf(tx, "owner")) = Cardinality(Range(owners))
              /\ Cardinality(Range(owners)) \in Nat
    <2>1. \A k \in Range(owners) :
            k \in Range(owners) <=> [tx |-> tx, role |-> "owner", key |-> k] \in RequestsOf(tx, "owner")
      BY RequestsAre DEF RequestsOf
    <2>. QED
      BY <2>1, OneRequestPerOwner
  <1>4. \A tx \in Transactions : ownersOn(tx) \subseteq Range(owners) \cap SignersOf(tx)
    BY DEF SignersOf
  <1>5. Complete => Authorized
    <2>. SUFFICES ASSUME Complete PROVE Authorized
      OBVIOUS
    <2>1. Range(owners) \subseteq SignersOf(Definition)
      <3>1. Cardinality(byOwner(Definition)) >= Cardinality(RequestsOf(Definition, "owner"))
        BY <1>0, <1>1 DEF Complete, OwnersRequired
      <3>2. byOwner(Definition) = RequestsOf(Definition, "owner")
        <4>1. byOwner(Definition) \in SUBSET RequestsOf(Definition, "owner")
          OBVIOUS
        <4>. HIDE DEF byOwner, ownersOn
        <4>2. Cardinality(byOwner(Definition)) <= Cardinality(RequestsOf(Definition, "owner"))
          BY <1>0, <1>3, <4>1, FS_Subset
        <4>3. Cardinality(byOwner(Definition)) \in Nat /\ Cardinality(RequestsOf(Definition, "owner")) \in Nat
          BY <1>0, <1>2, <1>3
        <4>4. Cardinality(byOwner(Definition)) = Cardinality(RequestsOf(Definition, "owner"))
          BY <3>1, <4>2, <4>3
        <4>. QED
          BY <1>0, <1>3, <4>1, <4>4, FS_Subset
      <3>3. \A k \in Range(owners) : [tx |-> Definition, role |-> "owner", key |-> k] \in sent
        BY <1>0, <3>2, RequestsAre DEF RequestsOf
      <3>. QED
        BY <3>3, SentIsSigned
    <2>2. ASSUME NEW tx \in Transactions \ {Definition}
          PROVE Cardinality(Range(owners) \cap SignersOf(tx)) >= ownerThreshold
      <3>1. Cardinality(byOwner(tx)) >= ownerThreshold
        BY <1>1, <2>2 DEF Complete, OwnersRequired
      <3>2. IsFiniteSet(Range(owners) \cap SignersOf(tx))
        BY KeysFinite, FS_Subset
      <3>3. ownersOn(tx) \in SUBSET (Range(owners) \cap SignersOf(tx))
        BY <1>4
      <3>. HIDE DEF ownersOn, byOwner
      <3>4. /\ Cardinality(ownersOn(tx)) <= Cardinality(Range(owners) \cap SignersOf(tx))
            /\ Cardinality(Range(owners) \cap SignersOf(tx)) \in Nat
        BY <3>2, <3>3, FS_Subset, FS_CardinalityType
      <3>. QED
        BY <1>2, <3>1, <3>4 DEF PartyTypeOK
    <2>3. Range(partyKeys) \subseteq SignersOf(Mapping)
      <3>1. RequestsOf(Mapping, "partySigningKey") \subseteq sent
        BY <1>0, <1>1 DEF Complete
      <3>2. \A k \in Range(partyKeys) : [tx |-> Mapping, role |-> "partySigningKey", key |-> k] \in sent
        BY <3>1, RequestsAre DEF RequestsOf
      <3>. QED
        BY <3>2, SentIsSigned
    <2>. QED
      BY <2>1, <2>2, <2>3 DEF Authorized
  <1>6. ASSUME Range(owners) \cap Range(partyKeys) = {}, Authorized PROVE Complete
    <2>1. ASSUME NEW tx \in Transactions PROVE Range(owners) \cap SignersOf(tx) = ownersOn(tx)
      <3>1. ASSUME NEW k \in Range(owners) \cap SignersOf(tx)
            PROVE [tx |-> tx, role |-> "owner", key |-> k] \in sent
        <4>1. PICK s \in sent : s.tx = tx /\ s.key = k
          BY DEF SignersOf
        <4>2. s.role = "owner"
          BY <1>6, <4>1, RequestsAre DEF PartyTypeOK, Roles
        <4>. QED
          BY <4>1, <4>2, RequestsAre DEF PartyTypeOK
      <3>. QED
        BY <1>4, <3>1
    <2>2. \A k \in Range(partyKeys) : [tx |-> Mapping, role |-> "partySigningKey", key |-> k] \in sent
      <3>. SUFFICES ASSUME NEW k \in Range(partyKeys)
                    PROVE [tx |-> Mapping, role |-> "partySigningKey", key |-> k] \in sent
        OBVIOUS
      <3>1. PICK s \in sent : s.tx = Mapping /\ s.key = k
        BY <1>6 DEF Authorized, SignersOf
      <3>2. s.role = "partySigningKey"
        BY <1>6, <3>1, RequestsAre DEF PartyTypeOK, Roles
      <3>. QED
        BY <3>1, <3>2, RequestsAre DEF PartyTypeOK
    <2>3. ASSUME NEW tx \in Transactions
          PROVE Cardinality(Provided(RequestsOf(tx, "owner"))) >= OwnersRequired(tx)
      <3>1. Provided(RequestsOf(tx, "owner")) = byOwner(tx)
        BY <1>1
      <3>2. CASE tx = Definition
        <4>1. ownersOn(tx) = Range(owners)
          BY <1>6, <2>1, <3>2 DEF Authorized
        <4>. HIDE DEF byOwner, ownersOn
        <4>. QED
          BY <1>2, <1>3, <3>1, <3>2, <4>1 DEF OwnersRequired
      <3>3. CASE tx # Definition
        <4>1. Cardinality(ownersOn(tx)) >= ownerThreshold
          BY <1>6, <2>1, <3>3 DEF Authorized
        <4>. HIDE DEF byOwner, ownersOn
        <4>. QED
          BY <1>2, <3>1, <3>3, <4>1 DEF OwnersRequired
      <3>. QED
        BY <3>2, <3>3
    <2>4. ASSUME NEW tx \in Transactions
          PROVE Provided(RequestsOf(tx, "partySigningKey")) = RequestsOf(tx, "partySigningKey")
      <3>1. RequestsOf(tx, "partySigningKey") \subseteq sent
        BY <2>2, RequestsAre DEF RequestsOf
      <3>. QED
        BY <1>1, <3>1
    <2>. QED
      BY <2>3, <2>4 DEF Complete
  <1>7. ASSUME sent = Requests PROVE Complete
    <2>1. \A tx, role : Provided(RequestsOf(tx, role)) = RequestsOf(tx, role)
      <3>. TAKE tx, role
      <3>1. RequestsOf(tx, role) \subseteq sent
        BY <1>7 DEF RequestsOf
      <3>. QED
        BY <1>1, <3>1
    <2>2. Cardinality(Range(owners)) >= ownerThreshold
      BY DEF Valid, Unique
    <2>. QED
      BY <1>3, <2>1, <2>2 DEF Complete, OwnersRequired
  <1>. QED
    BY <1>5, <1>6, <1>7

LEMMA InitParty == PartyInit => PartyInv
  <1>. SUFFICES ASSUME PartyInit PROVE PartyInv
    OBVIOUS
  <1>1. ASSUME NEW n \in Nat, NEW s \in SeqsUpTo(n) PROVE s \in Seq(Keys)
    BY DEF SeqsUpTo
  <1>2. owners \in Seq(Keys) /\ partyKeys \in Seq(Keys)
    BY <1>1, PartyAssumption DEF PartyInit
  <1>3. ownerThreshold \in Nat
    BY PartyAssumption DEF PartyInit
  <1>4. PartyTypeOK
    BY <1>2, <1>3 DEF PartyInit, PartyTypeOK
  <1>. QED
    BY <1>4 DEF PartyInit, PartyInv, FinalizationInv, FinalizationExact

LEMMA NextParty == PartyInv /\ [PartyNext]_partyVars => PartyInv'
  <1>. SUFFICES ASSUME PartyInv, [PartyNext]_partyVars PROVE PartyInv'
    OBVIOUS
  <1>0. /\ UNCHANGED <<mode, owners, partyKeys, ownerThreshold, partyThreshold>>
        /\ Requests' = Requests /\ Valid' = Valid /\ Stranger \notin Requests
    <2>1. UNCHANGED partyRequest
      BY DEF PartyNext, partyVars, Construct, Prepare, AllSigned, Allocate, Sign, Accept
    <2>2. UNCHANGED <<mode, owners, partyKeys, ownerThreshold, partyThreshold>>
      BY <2>1 DEF partyRequest
    <2>. QED
      BY <2>2, RequestsAre DEF PartyInv, Requests, Transactions, Mapping, Valid, Unique
  <1>. USE DEF PartyInv
  <1>1. CASE Construct \/ Prepare \/ AllSigned \/ \E r \in Requests : Sign(r)
    <2>1. /\ UNCHANGED <<accepted, sent>> /\ at # "done" /\ at # "finalize"
          /\ signedRequests' \subseteq Requests
          /\ partyOutcome' \in {"none", "invalid", "unsupported", "rejected", "unsigned"}
          /\ at' \in {"prepare", "sign", "finalize", "done"}
          /\ at' # "done" => partyOutcome' = "none" /\ Valid
          /\ mode = "online" /\ at' = "finalize" => signedRequests' = Requests
      <3>0. at # "done" => partyOutcome = "none"
        BY DEF FinalizationInv
      <3>1. CASE Construct
        BY <3>0, <3>1 DEF Construct, Fail, PartyTypeOK
      <3>2. CASE Prepare
        <4>1. at = "prepare" /\ Valid /\ UNCHANGED <<accepted, sent, signedRequests>>
          BY <3>2 DEF Prepare, FinalizationInv
        <4>2. \/ \E reason \in {"unsupported", "invalid", "rejected"} : Fail(reason)
              \/ at' = (IF mode = "online" THEN "sign" ELSE "finalize") /\ UNCHANGED partyOutcome
          BY <3>2 DEF Prepare
        <4>. QED
          BY <3>0, <4>1, <4>2 DEF Fail, PartyTypeOK
      <3>3. CASE AllSigned
        BY <3>0, <3>3 DEF AllSigned, FinalizationInv, PartyTypeOK
      <3>4. CASE \E r \in Requests : Sign(r)
        BY <3>0, <3>4 DEF Sign, Fail, FinalizationInv, PartyTypeOK
      <3>. QED
        BY <1>1, <3>1, <3>2, <3>3, <3>4
    <2>2. PartyTypeOK'
      BY <1>0, <2>1 DEF PartyTypeOK, Id
    <2>3. FinalizationInv' /\ FinalizationExact'
      BY <1>0, <2>1 DEF FinalizationInv, FinalizationExact
    <2>. QED
      BY <2>2, <2>3
  <1>2. ASSUME NEW r \in Requests \cup {Stranger}, NEW empty \in BOOLEAN, Accept(r, empty)
        PROVE PartyInv'
    <2>0. /\ at = "finalize" /\ r \in Offered /\ partyOutcome = "none" /\ Valid
          /\ signedRequests' = signedRequests
      BY <1>2 DEF Accept, FinalizationInv
    <2>1. CASE /\ r = Stranger \/ (r # Stranger /\ Id(r) \in accepted)
               /\ Fail("unexpected") /\ UNCHANGED <<accepted, sent>>
      <3>1. mode # "online"
        <4>. SUFFICES ASSUME mode = "online" PROVE FALSE
          OBVIOUS
        <4>1. r \in signedRequests /\ r \notin sent /\ r \in Requests
          BY <2>0 DEF Offered, PartyTypeOK
        <4>2. Id(r) \notin accepted
          BY <4>1, RequestsAre DEF PartyTypeOK
        <4>. QED
          BY <1>0, <2>1, <4>1, <4>2
      <3>2. PartyTypeOK'
        BY <1>0, <2>0, <2>1 DEF PartyTypeOK, Id
      <3>3. FinalizationInv' /\ FinalizationExact'
        BY <1>0, <2>0, <2>1, <3>1 DEF FinalizationInv, FinalizationExact, Fail
      <3>. QED
        BY <3>2, <3>3
    <2>2. CASE Fail("malformed") /\ UNCHANGED <<accepted, sent>>
      <3>1. PartyTypeOK'
        BY <1>0, <2>0, <2>2 DEF PartyTypeOK, Id
      <3>2. FinalizationInv' /\ FinalizationExact'
        BY <1>0, <2>0, <2>2 DEF FinalizationInv, FinalizationExact, Fail
      <3>. QED
        BY <3>1, <3>2
    <2>3. CASE /\ r # Stranger /\ accepted' = accepted \cup {Id(r)} /\ sent' = sent \cup {r}
               /\ UNCHANGED <<at, partyOutcome>>
      <3>1. PartyTypeOK'
        <4>1. accepted' = {Id(s) : s \in sent'}
          BY <2>3 DEF PartyTypeOK
        <4>. QED
          BY <1>0, <2>0, <2>3, <4>1 DEF PartyTypeOK, Id
      <3>2. FinalizationInv' /\ FinalizationExact'
        BY <1>0, <2>0, <2>3 DEF FinalizationInv, FinalizationExact
      <3>. QED
        BY <3>1, <3>2
    <2>. QED
      BY <1>2, <2>1, <2>2, <2>3 DEF Accept
  <1>3. CASE Allocate
    <2>0. /\ at = "finalize" /\ partyOutcome = "none" /\ Valid
          /\ UNCHANGED <<signedRequests, accepted, sent>>
          /\ \E reason \in {"allocated", "rejected", "missing"} :
               Fail(reason) /\ (reason = "missing" <=> ~Complete)
      BY <1>3 DEF Allocate, FinalizationInv
    <2>1. Authorized' = Authorized
      BY <1>0, <2>0 DEF Authorized, SignersOf, Transactions, Definition, Mapping
    <2>2. mode = "online" => Complete
      <3>1. mode = "online" => sent = Requests
        BY <1>3 DEF Allocate, Offered, FinalizationInv, PartyTypeOK
      <3>. QED
        BY <2>0, <3>1, CompleteIsAuthorized
    <2>3. PartyTypeOK'
      BY <1>0, <2>0 DEF PartyTypeOK, Id
    <2>4. FinalizationInv'
      BY <1>0, <2>0 DEF FinalizationInv, Fail
    <2>5. FinalizationExact'
      BY <1>0, <2>0, <2>1, <2>2, CompleteIsAuthorized DEF FinalizationExact, Fail
    <2>. QED
      BY <2>3, <2>4, <2>5
  <1>4. CASE UNCHANGED partyVars
    <2>1. UNCHANGED <<at, signedRequests, accepted, sent, partyOutcome>>
      BY <1>4 DEF partyVars
    <2>2. Authorized' = Authorized
      BY <1>0, <2>1 DEF Authorized, SignersOf, Transactions, Definition, Mapping
    <2>3. PartyTypeOK'
      BY <1>0, <2>1 DEF PartyTypeOK, Id
    <2>4. FinalizationInv' /\ FinalizationExact'
      BY <1>0, <2>1, <2>2 DEF FinalizationInv, FinalizationExact
    <2>. QED
      BY <2>3, <2>4
  <1>. QED
    BY <1>1, <1>2, <1>3, <1>4 DEF PartyNext

(* For any number of owners and party keys: finalization submits exactly   *)
(* when the founders, a threshold of owners and the party keys signed what *)
(* Canton asks of them, and the online method never fails on signatures it *)
(* collected itself.                                                       *)
THEOREM FinalizationIsExact == PartySpec => []FinalizationExact
  <1>1. PartyInv => FinalizationExact
    BY DEF PartyInv
  <1>. QED
    BY <1>1, InitParty, NextParty, PTL DEF PartySpec
=============================================================================
