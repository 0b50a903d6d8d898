------------------------- MODULE ParticipantProofs -------------------------
(***************************************************************************)
(* Lemmas about the participant that the proofs about its clients share.   *)
(***************************************************************************)
EXTENDS Participant, TLAPS

\* The ledger keeps its types.
LEMMA LedgerTyping ==
  ASSUME LedgerTypeOK, LedgerNext
  PROVE  LedgerTypeOK'
<1>1. CASE CommitTransaction
  BY <1>1 DEF CommitTransaction, Sequence, LedgerTypeOK
<1>2. CASE Reassign
  BY <1>2 DEF Reassign, Sequence, LedgerTypeOK
<1>3. CASE Prune
  BY <1>3 DEF Prune, LedgerTypeOK
<1> QED BY <1>1, <1>2, <1>3 DEF LedgerNext

\* Contracts enter before they leave, at offsets the ledger has reached.
LedgerInv ==
  /\ \A c \in Contracts :
       /\ enter[c] <= ledgerEnd
       /\ leave[c] <= ledgerEnd
       /\ leave[c] # NotYet => enter[c] # NotYet /\ enter[c] < leave[c]
  /\ moves \subseteq 1..ledgerEnd
  /\ MultiSynchronizer \/ moves = {}

\* A new update leaves the past alone.
LEMMA LedgerStable ==
  ASSUME LedgerTypeOK, LedgerInv, LedgerNext
  PROVE  /\ LedgerInv'
         /\ ledgerEnd' \in Nat
         /\ ledgerEnd <= ledgerEnd'
         /\ \A c \in Contracts : /\ enter'[c] # enter[c] => enter[c] = NotYet /\ enter'[c] > ledgerEnd
                                 /\ leave'[c] # leave[c] => leave[c] = NotYet /\ leave'[c] > ledgerEnd
         /\ \A o \in 0..ledgerEnd : o \in moves' <=> o \in moves
<1> USE ParticipantAssumption DEF LedgerTypeOK, LedgerInv, NotYet
<1>1. CASE CommitTransaction
  BY <1>1 DEF CommitTransaction, Sequence, Unborn, Acs
<1>2. CASE Reassign
  BY <1>2 DEF Reassign, Sequence, Unborn, Acs
<1>3. CASE Prune
  BY <1>3 DEF Prune
<1> QED BY <1>1, <1>2, <1>3 DEF LedgerNext

\* So are the updates of a window that ends in the past.
LEMMA UpdatesStable ==
  ASSUME LedgerTypeOK, LedgerInv, LedgerNext
  PROVE  \A b \in Nat, e \in 0..ledgerEnd : UpdatesIn(b, e)' = UpdatesIn(b, e)
BY LedgerStable, LedgerTyping DEF UpdatesIn, TransactionsIn, Window, LedgerTypeOK, LedgerInv, NotYet

\* Two adjoining windows are one window, and so are their updates.
LEMMA UpdatesJoin ==
  ASSUME LedgerTypeOK, NEW b \in Nat, NEW l \in Nat, NEW h \in Nat, b <= l, l <= h
  PROVE  UpdatesIn(b, l) \cup UpdatesIn(l, h) = UpdatesIn(b, h)
BY DEF UpdatesIn, TransactionsIn, Window, LedgerTypeOK

\* The updates of a prefix of the stream are those at the offsets in it.
LEMMA UpdatesPrefix ==
  ASSUME LedgerTypeOK, NEW e \in Nat, NEW h \in Nat, e <= h
  PROVE  {o \in UpdatesIn(0, h) : o <= e} = UpdatesIn(0, e)
BY DEF UpdatesIn, TransactionsIn, Window, LedgerTypeOK
=============================================================================
