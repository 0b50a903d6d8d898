----------------------- MODULE ExternalPartyActivation -----------------------
(***************************************************************************)
(* ExternalPartyActivationClient.activateAsync: wait until the source      *)
(* participant lists a PartyToParticipant mapping of the party, ask the    *)
(* other participants to sign it, and wait until it is active.  A call     *)
(* that failed may be repeated by the application.                         *)
(*                                                                         *)
(* A look at the topology is two concurrent requests, one for the active   *)
(* mapping and one for the proposal; each is evaluated at a moment of its  *)
(* own while proposals come, are signed by others, become active and go.   *)
(* Times are relative to startedAt, the only way the code uses the clock.  *)
(***************************************************************************)
EXTENDS Integers, Sequences

CONSTANTS
  Hashes,      (* topology transactions that map the party                 *)
  NoMapping,   (* an empty listing                                         *)
  Unhashed,    (* a listed mapping whose transaction hash is empty         *)
  Clients,     (* request.authorizingClients, in order                     *)
  Timeouts,    (* request.activationTimeoutMs tried                        *)
  Intervals,   (* request.pollIntervalMs tried                             *)
  MaxLate,     (* how late a timer fires at most                           *)
  MaxElapsed,  (* bound: how late in a wait a look may still be unanswered *)
  MaxCalls     (* bound: calls of activateAsync                            *)

Signers == {Clients[i] : i \in DOMAIN Clients}

ASSUME ActivationAssumption ==
  /\ Clients \in Seq(Signers)
  /\ NoMapping \notin Hashes /\ Unhashed \notin Hashes /\ NoMapping # Unhashed
  /\ Timeouts \subseteq Int /\ Intervals \subseteq Int
  /\ MaxLate \in Nat /\ MaxElapsed \in Nat /\ MaxCalls \in Nat

VARIABLES
  timeout, interval,  (* the request                                       *)
  pc,                 (* the await the call is suspended at                *)
  phase,              (* which of the two waits it is in                   *)
  elapsed,            (* Date.now() - startedAt                            *)
  wake,               (* when the delay is over                            *)
  gotActive,          (* answers of the current look, once evaluated       *)
  gotProposal,
  hash,               (* transactionHash                                   *)
  next,               (* index of the client to be asked next              *)
  outcome,            (* how the call ended                                *)
  response,           (* the transaction the response names                *)
  calls,
  active, proposal,   (* topology: the source participant's head state     *)
  signed,             (* topology: who signed a transaction                *)
  heard,              (* history: when the last look ended                 *)
  shown               (* history: what the topology was during the look    *)

Mappings == Hashes \cup {NoMapping}

options == <<timeout, interval>>
replies == <<gotActive, gotProposal>>
topology == <<active, proposal, signed>>
ended == <<outcome, response>>
activationVars == <<options, pc, phase, elapsed, wake, replies, hash, next, ended, calls,
                    topology, heard, shown>>

\* A moment of a look.
Moment == [active |-> active, proposal |-> proposal]

StartLook ==
  /\ pc' = "look"
  /\ gotActive' = "asked" /\ gotProposal' = "asked"
  /\ shown' = {Moment}

\* readStateAsync of a wait whose loop condition held.
StartWait(which) ==
  /\ phase' = which
  /\ elapsed' = 0
  /\ StartLook

Finish(result, tx) ==
  /\ pc' = "done"
  /\ outcome' = result
  /\ response' = tx

ActivationInit ==
  /\ timeout \in Timeouts /\ interval \in Intervals
  /\ pc = "idle" /\ phase = "proposal"
  /\ elapsed = 0 /\ wake = 0
  /\ gotActive = "asked" /\ gotProposal = "asked"
  /\ hash = NoMapping /\ next = 1
  /\ outcome = "none" /\ response = NoMapping
  /\ calls = 0
  /\ active \in Mappings /\ proposal = NoMapping
  /\ signed = [h \in Hashes |-> {}]
  /\ heard = 0 /\ shown = {}

-----------------------------------------------------------------------------
(***************************************************************************)
(* activateAsync                                                           *)
(***************************************************************************)

\* The first call, or another one after the last has ended.
Activate ==
  /\ pc \in {"idle", "done"}
  /\ calls < MaxCalls
  /\ calls' = calls + 1
  /\ hash' = NoMapping /\ next' = 1
  /\ \/ /\ timeout <= 0 \/ interval < 0
        /\ Finish("invalid", NoMapping)
        /\ UNCHANGED <<phase, elapsed, replies, shown>>
     \/ /\ timeout > 0 /\ interval >= 0
        /\ StartWait("proposal")
        /\ outcome' = "none" /\ response' = NoMapping
  /\ UNCHANGED <<options, wake, topology, heard>>

\* The participant evaluates one of the two listings.
AnswerActive ==
  /\ pc = "look" /\ gotActive = "asked"
  /\ gotActive' = active
  /\ UNCHANGED <<options, pc, phase, elapsed, wake, gotProposal, hash, next, ended, calls,
                 topology, heard, shown>>

AnswerProposal ==
  /\ pc = "look" /\ gotProposal = "asked"
  /\ \/ gotProposal' = proposal
     \/ proposal # NoMapping /\ gotProposal' = Unhashed
  /\ UNCHANGED <<options, pc, phase, elapsed, wake, gotActive, hash, next, ended, calls,
                 topology, heard, shown>>

\* A request of the look fails; Promise.all rejects the call.
LookRejects ==
  /\ pc = "look"
  /\ Finish("rejected", NoMapping)
  /\ UNCHANGED <<options, phase, elapsed, wake, replies, hash, next, calls, topology, heard, shown>>

\* Ask client i, or wait for the activation when all have been asked.
AskOrWait(i) ==
  /\ next' = i
  /\ \/ /\ i <= Len(Clients)
        /\ pc' = "authorize"
        /\ UNCHANGED <<phase, elapsed, replies, shown>>
     \/ /\ i > Len(Clients)
        /\ StartWait("activation")

\* In the first wait a proposal is enough to go on.
Settles == phase = "proposal" /\ gotProposal # NoMapping

\* Both answers are there.
LookResolves ==
  /\ pc = "look"
  /\ gotActive # "asked" /\ gotProposal # "asked"
  /\ heard' = elapsed
  /\ \/ /\ gotActive # NoMapping
        /\ Finish("active", gotActive)
        /\ UNCHANGED <<phase, elapsed, replies, shown, hash, next, wake>>
     \/ /\ gotActive = NoMapping /\ Settles
        /\ gotProposal = Unhashed
        /\ Finish("unhashed", NoMapping)
        /\ UNCHANGED <<phase, elapsed, replies, shown, hash, next, wake>>
     \/ /\ gotActive = NoMapping /\ Settles
        /\ gotProposal # Unhashed
        /\ hash' = gotProposal
        /\ AskOrWait(1)
        /\ UNCHANGED <<ended, wake>>
     \/ /\ gotActive = NoMapping /\ ~Settles
        /\ pc' = "delay"
        /\ wake' = elapsed + interval
        /\ UNCHANGED <<phase, elapsed, replies, shown, hash, next, ended>>
  /\ UNCHANGED <<options, calls, topology>>

\* Slip: the wait looks at the clock only, not at the topology once more.
DelayEndsEarly ==
  /\ pc = "delay"
  /\ elapsed + interval > timeout
  /\ Finish("timeout", NoMapping)
  /\ UNCHANGED <<options, phase, elapsed, wake, replies, hash, next, calls, topology, heard, shown>>

\* delayAsync resolves; the loop looks at the clock.
DelayEnds ==
  /\ pc = "delay"
  /\ elapsed >= wake
  /\ \/ /\ elapsed <= timeout
        /\ StartLook
        /\ UNCHANGED ended
     \/ /\ elapsed > timeout
        /\ Finish("timeout", NoMapping)
        /\ UNCHANGED <<replies, shown>>
  /\ UNCHANGED <<options, phase, elapsed, wake, hash, next, calls, topology, heard>>

\* Slip: a participant that refuses is skipped.
AuthorizeRejectsOn ==
  /\ pc = "authorize"
  /\ AskOrWait(next + 1)
  /\ UNCHANGED <<options, wake, hash, ended, calls, topology, heard>>

\* A participant signs the transaction it still knows, and answers.
AuthorizeResolves ==
  /\ pc = "authorize"
  /\ hash \in {proposal, active}
  /\ signed' = [signed EXCEPT ![hash] = @ \cup {Clients[next]}]
  /\ AskOrWait(next + 1)
  /\ UNCHANGED <<options, wake, hash, ended, calls, active, proposal, heard>>

\* It refuses, or its answer is lost after it signed; the call rejects.
AuthorizeRejects ==
  /\ pc = "authorize"
  /\ \/ UNCHANGED signed
     \/ /\ hash \in {proposal, active}
        /\ signed' = [signed EXCEPT ![hash] = @ \cup {Clients[next]}]
  /\ Finish("rejected", NoMapping)
  /\ UNCHANGED <<options, phase, elapsed, wake, replies, hash, next, calls, active, proposal,
                 heard, shown>>

-----------------------------------------------------------------------------
(***************************************************************************)
(* The topology and the clock.                                             *)
(***************************************************************************)

\* What the topology is from now on is part of a look under way.
Show == shown' = IF pc = "look" THEN shown \cup {Moment'} ELSE shown

Propose ==
  /\ proposal = NoMapping
  /\ \E h \in Hashes \ {active} : proposal' = h
  /\ UNCHANGED <<active, signed>>

\* Somebody else signs, such as a concurrent activation of the same party.
OtherSigns ==
  /\ proposal # NoMapping
  /\ \E c \in Signers : signed' = [signed EXCEPT ![proposal] = @ \cup {c}]
  /\ UNCHANGED <<active, proposal>>

Becomes ==
  /\ proposal # NoMapping
  /\ Signers \subseteq signed[proposal]
  /\ active' = proposal
  /\ proposal' = NoMapping
  /\ UNCHANGED signed

\* The proposal expires or is superseded.
Withdraw ==
  /\ proposal # NoMapping
  /\ proposal' = NoMapping
  /\ UNCHANGED <<active, signed>>

TopologyStep ==
  /\ pc # "idle"
  /\ Propose \/ OtherSigns \/ Becomes \/ Withdraw
  /\ Show
  /\ UNCHANGED <<options, pc, phase, elapsed, wake, replies, hash, next, ended, calls, heard>>

Passes ==
  /\ pc \in {"look", "delay"}
  /\ pc = "look" => elapsed < MaxElapsed
  /\ pc = "delay" => elapsed < wake + MaxLate
  /\ elapsed' = elapsed + 1
  /\ UNCHANGED <<options, pc, phase, wake, replies, hash, next, ended, calls, topology, heard, shown>>

CallStep ==
  \/ AnswerActive \/ AnswerProposal \/ LookRejects \/ LookResolves \/ DelayEnds
  \/ AuthorizeResolves \/ AuthorizeRejects

ActivationNext == Activate \/ CallStep \/ TopologyStep \/ Passes

\* Requests are answered or fail, timers fire, time passes.
ActivationSpec ==
  /\ ActivationInit /\ [][ActivationNext]_activationVars
  /\ WF_activationVars(CallStep) /\ WF_activationVars(Passes)

-----------------------------------------------------------------------------

(* The second wait begins only when every authorizing client has signed    *)
(* the one transaction the first wait found; a call that was refused by    *)
(* one of them does not wait for an activation that cannot come.           *)
AllSignedBeforeWait ==
  phase = "activation" /\ pc \in {"look", "delay"} =>
    hash \in Hashes /\ Signers \subseteq signed[hash]

(* The end of a call tells the truth about the topology.  One that         *)
(* succeeds names a mapping that was active during its last look, never    *)
(* one that was only proposed.  One that gives up is over its timeout, had *)
(* looked within one poll interval of it, and at some moment of that look  *)
(* no mapping was active; the first wait also had a moment without a       *)
(* proposal.                                                               *)
ActivationTruthful ==
  /\ outcome = "active" => \E m \in shown : m.active = response
  /\ outcome = "timeout" =>
       /\ elapsed > timeout
       /\ heard > timeout - interval - MaxLate
       /\ \E m \in shown : m.active = NoMapping
       /\ phase = "proposal" => \E m \in shown : m.proposal = NoMapping

(* Every call ends, whatever the topology does and however often calls are *)
(* repeated.                                                               *)
CallEnds == pc \notin {"idle", "done"} ~> pc = "done"
=============================================================================
