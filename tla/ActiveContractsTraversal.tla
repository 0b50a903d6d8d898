---------------------- MODULE ActiveContractsTraversal ----------------------
(***************************************************************************)
(* StateServiceClient.getActiveContractsPagesAsync: lazy generators over   *)
(* the pages of the active contract set, several of them on the budget of  *)
(* one OperationDeadline.  The consumer pulls, stops early or keeps a      *)
(* generator waiting as it likes; the wall clock moves on and is set back; *)
(* the participant may answer at another offset than the one asked for,    *)
(* leave the offset out, or hand out a page token a second time.           *)
(***************************************************************************)
EXTENDS Integers, FiniteSets, Sequences

CONSTANTS
    Traversals,   \* the generators that share the deadline
    AcsPages,     \* AcsPages[o]: the pages of the active contracts at offset o
    NoOffset,     \* no activeAtOffset given, or none in the answer
    MaxPages,     \* options.maxPages
    MaxContracts, \* options.maxContracts
    Timeout,      \* the deadline's timeoutMs; its clock starts at 0
    Horizon       \* bound: the wall clock stays below it

Offsets == DOMAIN AcsPages

(* What the constructors of the options and of the deadline accept.        *)
ASSUME TraversalAssumption ==
    /\ MaxPages \in Nat \ {0} /\ MaxContracts \in Nat \ {0} /\ Timeout \in Nat \ {0}
    /\ Horizon \in Nat /\ NoOffset \notin Offsets
    /\ \A o \in Offsets :
          AcsPages[o] \in Seq({AcsPages[o][k] : k \in DOMAIN AcsPages[o]}) \ {<<>>}

VARIABLES
    now,       \* the wall clock
    remaining, \* OperationDeadline.remainingMs
    sampled,   \* history: the latest time the deadline has read
    pc,        \* "new", "asking", "yielded" or an outcome
    asked,     \* the caller's request.activeAtOffset
    pinned,    \* activeAtOffset of the first answer
    pageAt,    \* the page the next or the current request's token stands for
    seen,      \* observedPageTokens
    pagesTaken,
    contractsRead,
    nextToken, \* nextPageToken of the page just yielded; 0: none
    grant,     \* timeoutMs of the request under way
    yielded    \* the pages handed to the consumer, with their offset

clock == <<now, remaining, sampled>>
walk  == <<asked, pinned, pageAt, seen, pagesTaken, contractsRead, nextToken, yielded>>
traversalVars  == <<clock, walk, pc, grant>>

Refusals == {"maxPages", "maxContracts", "repeatedToken", "missingOffset", "offsetMismatch"}
Outcomes == Refusals \cup {"done", "timeout", "failed", "stopped"}

TraversalInit ==
    /\ now = 0 /\ remaining = Timeout /\ sampled = 0
    /\ pc = [t \in Traversals |-> "new"]
    /\ asked \in [Traversals -> Offsets \cup {NoOffset}]
    /\ pinned = [t \in Traversals |-> NoOffset]
    /\ pageAt = [t \in Traversals |-> 1]
    /\ seen = [t \in Traversals |-> {}]
    /\ pagesTaken = [t \in Traversals |-> 0]
    /\ contractsRead = [t \in Traversals |-> 0]
    /\ nextToken = [t \in Traversals |-> 0]
    /\ grant = [t \in Traversals |-> 0]
    /\ yielded = [t \in Traversals |-> <<>>]

Ends(t, outcome) == pc' = [pc EXCEPT ![t] = outcome]

-----------------------------------------------------------------------------
(* The deadline.                                                           *)

(* Slip: the clock alone decides.                                          *)
BudgetByClock == IF now < Timeout THEN Timeout - now ELSE 0

(* remainingTimeoutMs: never more than it has returned before.             *)
Budget == LET left == IF now < Timeout THEN Timeout - now ELSE 0
          IN  IF remaining < left THEN remaining ELSE left

Sample == /\ remaining' = Budget
          /\ sampled' = IF now > sampled THEN now ELSE sampled
          /\ UNCHANGED now

(* Time passes, or the wall clock is set back.                             *)
ClockAdvances == now < Horizon /\ now' = now + 1 /\ UNCHANGED <<remaining, sampled, walk, pc, grant>>
ClockSetBack == \E n \in 0..(now - 1) :
              now' = n /\ UNCHANGED <<remaining, sampled, walk, pc, grant>>

-----------------------------------------------------------------------------
(* One turn of the loop, from the consumer's next() to the request: the    *)
(* token of the page just yielded, the page limit, then the deadline.      *)

(* Slip: tokens are not compared.                                          *)
NeverRepeated(t) == FALSE

Repeated(t) == nextToken[t] \in seen[t]

Follows(t) == /\ pc[t] = "yielded" /\ nextToken[t] # 0 /\ ~Repeated(t)

(* The limit is looked at before another request.                          *)
AtLimit(t) == pagesTaken[t] >= MaxPages

Completes(t) ==
    /\ pc[t] = "yielded" /\ nextToken[t] = 0
    /\ Ends(t, "done")
    /\ UNCHANGED <<clock, walk, grant>>

RefusesToken(t) ==
    /\ pc[t] = "yielded" /\ nextToken[t] # 0 /\ Repeated(t)
    /\ Ends(t, "repeatedToken")
    /\ UNCHANGED <<clock, walk, grant>>

(* What the turn notes before it may ask: the token and the next request.  *)
Note(t) ==
    /\ seen' = [seen EXCEPT ![t] = IF pc[t] = "new" THEN @ ELSE @ \cup {nextToken[t]}]
    /\ pageAt' = [pageAt EXCEPT ![t] = IF pc[t] = "new" THEN @ ELSE nextToken[t]]
    /\ UNCHANGED <<asked, pinned, pagesTaken, contractsRead, nextToken, yielded>>

Asks(t) ==
    /\ pc[t] = "new" \/ Follows(t)
    /\ Note(t)
    /\ IF AtLimit(t)
         THEN Ends(t, "maxPages") /\ UNCHANGED <<clock, grant>>
         ELSE /\ Sample
              /\ IF Budget = 0
                   THEN Ends(t, "timeout") /\ UNCHANGED grant
                   ELSE Ends(t, "asking") /\ grant' = [grant EXCEPT ![t] = Budget]

(* for await ... break, or the iterator is dropped between two pages.      *)
Stops(t) ==
    /\ pc[t] \in {"new", "yielded"}
    /\ Ends(t, "stopped")
    /\ UNCHANGED <<clock, walk, grant>>

-----------------------------------------------------------------------------
(* The participant's answer.                                               *)

PageContents(o, k) == IF k <= Len(AcsPages[o]) THEN AcsPages[o][k] ELSE {}

(* The offset to answer at: the one asked for or, at fault, any or none.   *)
Answers == Offsets \cup {NoOffset}

(* A token stands for the rest of the pages from k on and is first handed  *)
(* out with page k - 1; at fault, again with a later page.                 *)
Tokens(o, k) == {IF k < Len(AcsPages[o]) THEN k + 1 ELSE 0} \cup 2..k

(* Which offset the answer has to carry.                                   *)
Expected(t) == IF pinned[t] # NoOffset THEN pinned[t] ELSE asked[t]

OffsetVerdict(t, o) ==
    CASE o = NoOffset -> "missingOffset"
      [] o # NoOffset /\ Expected(t) \notin {NoOffset, o} -> "offsetMismatch"
      [] OTHER -> "ok"

TooMany(count) == count > MaxContracts

Receives(t, o) ==
    LET batch == IF o = NoOffset THEN {} ELSE PageContents(o, pageAt[t])
        count == contractsRead[t] + Cardinality(batch)
    IN  /\ pc[t] = "asking"
        /\ pagesTaken' = [pagesTaken EXCEPT ![t] = @ + 1]
        /\ UNCHANGED <<clock, asked, pageAt, seen, grant>>
        /\ IF OffsetVerdict(t, o) # "ok"
             THEN /\ Ends(t, OffsetVerdict(t, o))
                  /\ UNCHANGED <<pinned, contractsRead, nextToken, yielded>>
             ELSE /\ pinned' = [pinned EXCEPT ![t] = o]
                  /\ contractsRead' = [contractsRead EXCEPT ![t] = count]
                  /\ IF TooMany(count)
                       THEN /\ Ends(t, "maxContracts")
                            /\ UNCHANGED <<nextToken, yielded>>
                       ELSE /\ Ends(t, "yielded")
                            /\ yielded' = [yielded EXCEPT ![t] = Append(@, [at |-> o, contracts |-> batch])]
                            /\ \E token \in Tokens(o, pageAt[t]) :
                                  nextToken' = [nextToken EXCEPT ![t] = token]

(* A transport error, the request's own timeout included, passes unchanged. *)
Fails(t) ==
    /\ pc[t] = "asking"
    /\ Ends(t, "failed")
    /\ UNCHANGED <<clock, walk, grant>>

-----------------------------------------------------------------------------
TraversalNext ==
    \/ ClockAdvances
    \/ ClockSetBack
    \/ \E t \in Traversals :
          \/ Completes(t) \/ RefusesToken(t) \/ Asks(t) \/ Stops(t) \/ Fails(t)
          \/ \E o \in Answers : Receives(t, o)

TraversalSpec == TraversalInit /\ [][TraversalNext]_traversalVars

-----------------------------------------------------------------------------
(* A traversal that completes has handed out the active contract set at    *)
(* one offset, the caller's if one was given, page by page, nothing left   *)
(* out and nothing twice, whatever offsets the participant answered at and *)
(* whatever tokens it repeated on the way (lines 108 to 133, 150 to 159).  *)
WholeSnapshot ==
    \A t \in Traversals : pc[t] = "done" =>
        \E o \in Offsets :
            /\ asked[t] \in {NoOffset, o}
            /\ yielded[t] = [m \in DOMAIN AcsPages[o] |-> [at |-> o, contracts |-> AcsPages[o][m]]]

(* The budget is one for all traversals and survives a clock that is set   *)
(* back: a request is only sent while no reading of the clock has reached  *)
(* the deadline, and its timeout ends by the deadline on the latest clock  *)
(* any of them has read (operation-deadline.ts 28 to 38).                  *)
RequestsInBudget ==
    [][\A t \in Traversals : pc[t] # "asking" /\ pc'[t] = "asking" =>
          /\ sampled' < Timeout
          /\ grant'[t] > 0 /\ sampled' + grant'[t] <= Timeout]_traversalVars
=============================================================================
