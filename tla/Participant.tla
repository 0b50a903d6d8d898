---------------------------- MODULE Participant ----------------------------
(***************************************************************************)
(* The Canton participant as the SDK's read path sees it through           *)
(* StateService and UpdateService.  It is external to the repository and   *)
(* modelled from how the clients under src/query/grpc use it.              *)
(*                                                                         *)
(* The ledger is kept as the residence of every contract: the offset at    *)
(* which it enters the active contract set (ACS) and the offset at which   *)
(* it leaves it.  Offsets start at 1, so NotYet = 0 means "has not         *)
(* happened".  The ACS at an offset and the events of a window of the      *)
(* update stream are then plain set expressions.                           *)
(***************************************************************************)
EXTENDS Integers, FiniteSets

CONSTANTS
  Contracts,         (* contract ids visible to the queried parties        *)
  MaxOffset,         (* bound: no update is sequenced past this offset     *)
  MultiSynchronizer  (* whether reassignments may move contracts           *)

ASSUME ParticipantAssumption ==
  /\ MaxOffset \in Nat
  /\ MultiSynchronizer \in BOOLEAN

VARIABLES
  ledgerEnd,  (* offset of the last sequenced update                       *)
  pruned,     (* participantPrunedUpToInclusive                            *)
  enter,      (* per contract: offset at which it became active            *)
  leave,      (* per contract: offset at which it stopped being active     *)
  moves       (* offsets whose update is a reassignment, not a transaction *)

ledgerVars == <<ledgerEnd, pruned, enter, leave, moves>>

NotYet == 0

(***************************************************************************)
(* What the services answer.                                               *)
(***************************************************************************)

\* The active contract set after the update at offset o.
Acs(o) ==
  {c \in Contracts : /\ enter[c] # NotYet
                     /\ enter[c] <= o
                     /\ leave[c] = NotYet \/ leave[c] > o}

\* Offset range of GetUpdatesPage: begin is exclusive, end is inclusive.
Window(begin, end) == (begin + 1)..end

\* An UpdateFormat that sets includeTransactions only: no reassignment is sent.
TransactionsIn(begin, end) == Window(begin, end) \ moves

\* Created events of the ACS_DELTA transactions of a window.
CreatedIn(begin, end) ==
  {c \in Contracts : enter[c] \in TransactionsIn(begin, end)}

\* Archived events of the ACS_DELTA transactions of a window.
ArchivedIn(begin, end) ==
  {c \in Contracts : leave[c] \in TransactionsIn(begin, end)}

\* Offsets of the updates sent for a window: transactions the parties can see.
UpdatesIn(begin, end) ==
  {o \in TransactionsIn(begin, end) :
     \E c \in Contracts : o \in {enter[c], leave[c]}}

\* A range that starts below the pruning point is refused.
ServesFrom(begin) == pruned <= begin

(***************************************************************************)
(* How the ledger evolves.                                                 *)
(***************************************************************************)

LedgerInit ==
  /\ ledgerEnd = 0
  /\ pruned = 0
  /\ enter = [c \in Contracts |-> NotYet]
  /\ leave = [c \in Contracts |-> NotYet]
  /\ moves = {}

Unborn == {c \in Contracts : enter[c] = NotYet}

\* The next update activates the contracts of In and deactivates those of Out.
Sequence(In, Out) ==
  /\ ledgerEnd < MaxOffset
  /\ ledgerEnd' = ledgerEnd + 1
  /\ enter' = [c \in Contracts |-> IF c \in In THEN ledgerEnd + 1 ELSE enter[c]]
  /\ leave' = [c \in Contracts |-> IF c \in Out THEN ledgerEnd + 1 ELSE leave[c]]
  /\ UNCHANGED pruned

\* A transaction creates and archives; both empty when the parties see none of it.
CommitTransaction ==
  \E In \in SUBSET Unborn, Out \in SUBSET Acs(ledgerEnd) :
    /\ Sequence(In, Out)
    /\ UNCHANGED moves

\* A reassignment assigns contracts to the participant's synchronizers or
\* unassigns them; it is an update of its own kind.
Reassign ==
  /\ MultiSynchronizer
  /\ \E In \in SUBSET Unborn, Out \in SUBSET Acs(ledgerEnd) :
       /\ In \cup Out # {}
       /\ Sequence(In, Out)
  /\ moves' = moves \cup {ledgerEnd + 1}

Prune ==
  \E o \in (pruned + 1)..ledgerEnd :
    /\ pruned' = o
    /\ UNCHANGED <<ledgerEnd, enter, leave, moves>>

LedgerNext == CommitTransaction \/ Reassign \/ Prune

LedgerTypeOK ==
  /\ ledgerEnd \in Nat
  /\ pruned \in Nat
  /\ enter \in [Contracts -> Nat]
  /\ leave \in [Contracts -> Nat]
  /\ moves \subseteq Nat \ {0}
=============================================================================
