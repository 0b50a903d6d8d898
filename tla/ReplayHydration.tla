--------------------------- MODULE ReplayHydration ---------------------------
(***************************************************************************)
(* What a replay starts from: the update at an offset, and the contracts   *)
(* the replay may touch, found by following contract ids from the update   *)
(* through the payloads of the contracts they name.                        *)
(*                                                                         *)
(* Contract payloads never change, so which contracts a payload names is a *)
(* constant of a behaviour (refs).  What a participant still shows of a    *)
(* contract may change between two requests: every answer is chosen anew.  *)
(***************************************************************************)
EXTENDS Integers

CONSTANTS Contracts, None

ASSUME HydrationAssumption == None \notin Contracts

VARIABLES
  refs,        (* the contracts named by each contract's payload           *)
  created,     (* the contracts the update creates                         *)
  named,       (* the contracts it exercises or names in its argument      *)
  at,          (* where the load is                                        *)
  pending,     (* pendingContractIds                                       *)
  contracts,   (* the contracts hydrated so far                            *)
  current,     (* the contract being hydrated                              *)
  shown,       (* whether the contract service showed its payload          *)
  asked        (* how often each contract was requested                    *)

updateVars == <<refs, created, named>>
hydrationVars == <<updateVars, at, pending, contracts, current, shown, asked>>

HydrationTypeOK ==
  /\ refs \in [Contracts -> SUBSET Contracts]
  /\ created \in SUBSET Contracts
  /\ named \in SUBSET Contracts
  /\ at \in {"update", "loop", "contract", "events", "ready", "failed"}
  /\ pending \in SUBSET Contracts
  /\ contracts \in SUBSET Contracts
  /\ current \in Contracts \cup {None}
  /\ shown \in BOOLEAN
  /\ asked \in [Contracts -> Nat]

HydrationInit ==
  /\ refs \in [Contracts -> SUBSET Contracts]
  /\ created = {} /\ named = {}
  /\ at = "update"
  /\ pending = {} /\ contracts = {}
  /\ current = None /\ shown = FALSE
  /\ asked = [c \in Contracts |-> 0]

-----------------------------------------------------------------------------

\* The request fails, the update is no transaction, one of its events does
\* not show what a replay needs, or its first event is no entrypoint.
UpdateRefused ==
  /\ at = "update"
  /\ at' = "failed"
  /\ UNCHANGED <<updateVars, pending, contracts, current, shown, asked>>

\* What the update names, itself or in the payloads of what it creates.
Seeds(made, mentioned) == mentioned \cup UNION {refs[c] : c \in made}

\* The update has an event: it creates or it exercises something.
UpdateLoaded ==
  /\ at = "update"
  /\ created' \in SUBSET Contracts
  /\ named' \in SUBSET Contracts
  /\ created' \cup named' # {}
  /\ at' = "loop"
  /\ pending' = Seeds(created', named')
  /\ contracts' = created'
  /\ UNCHANGED <<refs, current, shown, asked>>

\* Slip: what is already hydrated is hydrated again.
KnowsNothing(c) == FALSE

Known(c) == c \in contracts

\* Slip: the id stays in the set.
Kept(c) == pending

Taken(c) == pending \ {c}

Take(c) ==
  /\ at = "loop" /\ c \in pending
  /\ pending' = Taken(c)
  /\ IF Known(c)
       THEN UNCHANGED <<at, current, asked>>
       ELSE /\ at' = "contract"
            /\ current' = c
            /\ asked' = [asked EXCEPT ![c] = @ + 1]
  /\ UNCHANGED <<updateVars, contracts, shown>>

\* The contract service shows active contracts only.  A failure of the
\* request is the same as no contract.
ContractAnswers ==
  /\ at = "contract"
  /\ shown' \in BOOLEAN
  /\ at' = "events"
  /\ UNCHANGED <<updateVars, pending, contracts, current, asked>>

\* Slip: the ids a fetched payload names are not followed.
FollowNothing(c) == pending

Follow(c) == pending \cup refs[c]

\* The event query answers, with a payload or without one.
EventsAnswer(history) ==
  /\ at = "events"
  /\ IF shown \/ history
       THEN /\ at' = "loop"
            /\ contracts' = contracts \cup {current}
            /\ pending' = Follow(current)
       ELSE at' = "failed" /\ UNCHANGED <<contracts, pending>>
  /\ current' = None
  /\ shown' = FALSE
  /\ UNCHANGED <<updateVars, asked>>

\* A failure of the event query is not caught.
EventsReject ==
  /\ at = "events"
  /\ at' = "failed"
  /\ current' = None
  /\ shown' = FALSE
  /\ UNCHANGED <<updateVars, pending, contracts, asked>>

Hydrated ==
  /\ at = "loop" /\ pending = {}
  /\ at' = "ready"
  /\ UNCHANGED <<updateVars, pending, contracts, current, shown, asked>>

HydrationNext ==
  \/ UpdateRefused \/ UpdateLoaded
  \/ \E c \in Contracts : Take(c)
  \/ ContractAnswers
  \/ \E history \in BOOLEAN : EventsAnswer(history)
  \/ EventsReject \/ Hydrated

HydrationSpec == HydrationInit /\ [][HydrationNext]_hydrationVars

\* Requests are answered and the load goes on.
FairHydrationSpec == HydrationSpec /\ WF_hydrationVars(HydrationNext)

-----------------------------------------------------------------------------

\* A set of contracts a replay can start from: what the update names is in
\* it, and so is all that its members name.
SelfContained(S) ==
  /\ created \cup named \subseteq S
  /\ \A c \in S : refs[c] \subseteq S

\* A replay starts with exactly the contracts that can be reached from the
\* update: with every one of them, whatever cycles the payloads form, and
\* with none besides.
EnvironmentExact ==
  at = "ready" =>
    /\ SelfContained(contracts)
    /\ \A S \in SUBSET Contracts : SelfContained(S) => contracts \subseteq S

\* No contract is requested twice, and none that the update itself shows,
\* however many payloads name it.
AskedOnce ==
  /\ \A c \in Contracts : asked[c] <= 1
  /\ \A c \in created : asked[c] = 0

\* A load ends, with an environment or an error.
LoadEnds == <>(at \in {"ready", "failed"})
=============================================================================
