------------------------- MODULE DecentralizedParty -------------------------
(***************************************************************************)
(* Creation of a decentralized party: a request is validated, topology     *)
(* transactions are generated and turned into signing requests, detached   *)
(* signatures are collected, and finalization submits the transactions     *)
(* with their signatures once it has checked them.                         *)
(*                                                                         *)
(* createDecentralizedPartyAsync ("online") calls a signer per request and *)
(* finalizes; an application may also prepare, sign elsewhere and call     *)
(* finalizeDecentralizedPartyAsync with what it collected ("offline"):     *)
(* anything may be missing, repeated, foreign or empty then.  A key stands *)
(* for its fingerprint.  The order in which signatures are made and looked *)
(* at is left open.  Hosts and the confirmation threshold are passed on as *)
(* they are and decide nothing here.                                       *)
(***************************************************************************)
EXTENDS Integers, Sequences, FiniteSets, Functions

CONSTANTS
  Keys,      (* public keys, named by their fingerprint                    *)
  MaxOwners, (* bound: owner keys of a request                             *)
  MaxParty,  (* bound: party signing keys of a request                     *)
  Stranger   (* a signing request id that was never prepared               *)

ASSUME PartyAssumption ==
  /\ MaxOwners \in Nat /\ MaxParty \in Nat
  /\ Stranger \notin [tx : Nat, role : {"owner", "partySigningKey"}, key : Keys]

VARIABLES
  mode,              (* online or offline                                  *)
  hasWriter,         (* a topology writer was injected                     *)
  owners, partyKeys, (* the request: keys of the two roles, in order       *)
  ownerThreshold, partyThreshold,
  signers,           (* which <<role, key>> entries carry a callback       *)
  at,                (* where the call is                                  *)
  signedRequests,    (* online: requests whose signer has answered         *)
  accepted,          (* ids finalization has accepted                      *)
  sent,              (* signatures grouped for submission                  *)
  partyOutcome

partyRequest == <<mode, hasWriter, owners, partyKeys, ownerThreshold, partyThreshold,
                  signers>>
partyVars == <<partyRequest, at, signedRequests, accepted, sent, partyOutcome>>

SeqsUpTo(n) == UNION {[1..k -> Keys] : k \in 0..n}

\* The namespace definition, a delegation per owner, and the party mapping.
Transactions == 1..(Len(owners) + 2)
Definition == 1
Mapping == Len(owners) + 2

\* Every owner signs every transaction, every party key the mapping.
Requests ==
  [tx : Transactions, role : {"owner"}, key : Range(owners)]
    \cup [tx : {Mapping}, role : {"partySigningKey"}, key : Range(partyKeys)]

Id(r) == <<r.tx, r.role, r.key>>

PartyInit ==
  /\ mode \in {"online", "offline"}
  /\ hasWriter \in BOOLEAN
  /\ owners \in SeqsUpTo(MaxOwners)
  /\ partyKeys \in SeqsUpTo(MaxParty)
  /\ ownerThreshold \in 0..MaxOwners
  /\ partyThreshold \in 0..MaxParty
  /\ signers \in SUBSET ({"owner"} \X Range(owners) \cup {"partySigningKey"} \X Range(partyKeys))
  /\ mode = "offline" => signers = {}
  /\ at = "new"
  /\ signedRequests = {} /\ accepted = {} /\ sent = {}
  /\ partyOutcome = "none"

Fail(reason) ==
  /\ at' = "done"
  /\ partyOutcome' = reason

-----------------------------------------------------------------------------

Unique(s) == Cardinality(Range(s)) = Len(s)

\* The constructor of CreateDecentralizedPartyRequest.
Valid ==
  /\ Len(owners) >= 2 /\ Len(partyKeys) >= 1
  /\ ownerThreshold \in 1..Len(owners)
  /\ partyThreshold \in 1..Len(partyKeys)
  /\ Unique(owners) /\ Unique(partyKeys)

Construct ==
  /\ at = "new"
  /\ \/ Valid /\ at' = "prepare" /\ UNCHANGED partyOutcome
     \/ ~Valid /\ Fail("invalid")
  /\ UNCHANGED <<partyRequest, signedRequests, accepted, sent>>

\* The participant's id and the generated transactions arrive, or a request
\* fails, or the number of transactions is not that of the proposals.
Prepare ==
  /\ at = "prepare"
  /\ \/ /\ ~hasWriter
        /\ Fail("unsupported")
     \/ /\ hasWriter
        /\ \E generated \in Mapping - 1..Mapping :
             \/ generated = Mapping /\ at' = (IF mode = "online" THEN "sign" ELSE "finalize")
                  /\ UNCHANGED partyOutcome
             \/ generated # Mapping /\ Fail("invalid")
     \/ hasWriter /\ Fail("rejected")
  /\ UNCHANGED <<partyRequest, signedRequests, accepted, sent>>

\* keys.find over the owners and then the party keys.
SignerFor(key) == IF key \in Range(owners) THEN <<"owner", key>> ELSE <<"partySigningKey", key>>

\* One signing request of the online loop: no signer, a signer that throws,
\* or a signature.
Sign(r) ==
  /\ at = "sign"
  /\ r \in Requests \ signedRequests
  /\ \/ /\ SignerFor(r.key) \notin signers
        /\ Fail("unsigned")
        /\ UNCHANGED signedRequests
     \/ /\ SignerFor(r.key) \in signers
        /\ \/ Fail("rejected") /\ UNCHANGED signedRequests
           \/ signedRequests' = signedRequests \cup {r} /\ UNCHANGED <<at, partyOutcome>>
  /\ UNCHANGED <<partyRequest, accepted, sent>>

AllSigned ==
  /\ at = "sign"
  /\ signedRequests = Requests
  /\ at' = "finalize"
  /\ UNCHANGED <<partyRequest, signedRequests, accepted, sent, partyOutcome>>

\* The signatures finalization is called with.
Offered == IF mode = "online" THEN signedRequests \ sent ELSE Requests \cup {Stranger}

\* One detached signature of the finalization loop.
Accept(r, empty) ==
  /\ at = "finalize"
  /\ r \in Offered
  /\ \/ /\ r = Stranger \/ (r # Stranger /\ Id(r) \in accepted)
        /\ Fail("unexpected")
        /\ UNCHANGED <<accepted, sent>>
     \/ /\ r # Stranger /\ Id(r) \notin accepted /\ empty
        /\ Fail("malformed")
        /\ UNCHANGED <<accepted, sent>>
     \/ /\ r # Stranger /\ Id(r) \notin accepted /\ ~empty
        /\ accepted' = accepted \cup {Id(r)}
        /\ sent' = sent \cup {r}
        /\ UNCHANGED <<at, partyOutcome>>
  /\ UNCHANGED <<partyRequest, signedRequests>>

RequestsOf(tx, role) == {r \in Requests : r.tx = tx /\ r.role = role}
Provided(rs) == {r \in rs : Id(r) \in accepted}

\* Slip: the threshold is enough for the namespace definition too.
OwnersRequiredLater(tx) == ownerThreshold

\* The founders sign the definition, a threshold of them everything after it.
OwnersRequired(tx) ==
  IF tx = Definition THEN Cardinality(RequestsOf(tx, "owner")) ELSE ownerThreshold

Complete ==
  \A tx \in Transactions :
    /\ Cardinality(Provided(RequestsOf(tx, "owner"))) >= OwnersRequired(tx)
    /\ Provided(RequestsOf(tx, "partySigningKey")) = RequestsOf(tx, "partySigningKey")

\* The signatures are used up: submit, or refuse what is incomplete.  The
\* participant may still refuse the submission.
Allocate ==
  /\ at = "finalize"
  /\ mode = "online" => Offered = {}
  /\ \/ Complete /\ Fail("allocated")
     \/ Complete /\ Fail("rejected")
     \/ ~Complete /\ Fail("missing")
  /\ UNCHANGED <<partyRequest, signedRequests, accepted, sent>>

PartyNext ==
  \/ Construct \/ Prepare \/ AllSigned \/ Allocate
  \/ \E r \in Requests : Sign(r)
  \/ \E r \in Requests \cup {Stranger}, empty \in BOOLEAN : Accept(r, empty)

PartySpec == PartyInit /\ [][PartyNext]_partyVars

-----------------------------------------------------------------------------

\* Whose signatures the submission attaches to a transaction.
SignersOf(tx) == {r.key : r \in {s \in sent : s.tx = tx}}

\* What Canton asks of the transactions, in terms of the signatures attached.
Authorized ==
  /\ Range(owners) \subseteq SignersOf(Definition)
  /\ \A tx \in Transactions \ {Definition} :
       Cardinality(Range(owners) \cap SignersOf(tx)) >= ownerThreshold
  /\ Range(partyKeys) \subseteq SignersOf(Mapping)

(* Whatever was collected, in whatever order and with whatever left out or *)
(* repeated, the transactions are submitted only when every founder signed *)
(* the definition, a threshold of owners each later transaction, and every *)
(* party key the mapping; and a complete set is never turned away (keys    *)
(* with both roles aside, which have to sign the mapping twice).  The      *)
(* online method, which collects the signatures itself, never trips over a *)
(* missing, repeated or unknown one of its own making.                     *)
FinalizationExact ==
  /\ partyOutcome = "allocated" => Authorized
  /\ partyOutcome = "missing" /\ Range(owners) \cap Range(partyKeys) = {} => ~Authorized
  /\ mode = "online" => partyOutcome \notin {"missing", "unexpected"}
=============================================================================
