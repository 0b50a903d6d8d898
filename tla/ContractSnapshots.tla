------------------------- MODULE ContractSnapshots -------------------------
(***************************************************************************)
(* What the contract cache promises its readers, without how it gets       *)
(* there: next to a growing ledger, one published snapshot that is at any  *)
(* time absent or the complete ACS at some offset the ledger has reached,  *)
(* and that is only ever replaced by one at the same or a later offset.    *)
(***************************************************************************)
EXTENDS Participant

CONSTANT NoEntry

VARIABLE published  (* NoEntry, or the offset and rows of the snapshot     *)

absVars == <<ledgerVars, published>>

AbsInit == LedgerInit /\ published = NoEntry

LedgerMoves == LedgerNext /\ UNCHANGED published

\* A refresh publishes the ACS of an offset no older than what it replaces.
Publish ==
  /\ \E o \in 0..ledgerEnd :
       /\ published # NoEntry => o >= published.at
       /\ published' = [at |-> o, ids |-> Acs(o)]
  /\ UNCHANGED ledgerVars

\* Invalidation or expiry.
Withdraw == published' = NoEntry /\ UNCHANGED ledgerVars

AbsNext == LedgerMoves \/ Publish \/ Withdraw

AbsSpec == AbsInit /\ [][AbsNext]_absVars
=============================================================================
