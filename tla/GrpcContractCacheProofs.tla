---------------------- MODULE GrpcContractCacheProofs ----------------------
(***************************************************************************)
(* Theorems about GrpcContractCache for every value of its constants: the  *)
(* rows a single call works with, then what concurrent calls do to each    *)
(* other by sharing, freshness and invalidation.                           *)
(***************************************************************************)
EXTENDS GrpcContractCache, ParticipantProofs

(***************************************************************************)
(* Type correctness.                                                       *)
(***************************************************************************)

\* A delta attempt is made from a snapshot: what ReadEnd and the pages read.
BasePresent == \A p \in Procs : pc[p] \in DeltaPCs => base[p] # NoEntry

\* Giving up a delta attempt keeps both.
LEMMA Falling ==
  ASSUME TypeOK, BasePresent, NEW p \in Procs, FallBack(p),
         UNCHANGED <<ledgerVars, storeVars, inflight, awaiting, result, startEnd, floor>>
  PROVE  (TypeOK /\ BasePresent)'
BY DEF TypeOK, BasePresent, FallBack, Goto, ClearRegs, NoDraft, Draft, Maybe, ledgerVars, storeVars,
   LedgerTypeOK, RunningPCs, DeltaPCs, FullPCs

\* TypeOK is inductive together with BasePresent.
LEMMA Typing == Spec => [](TypeOK /\ BasePresent)
<1>1. Init => TypeOK /\ BasePresent
  BY CacheAssumption, StoreAssumption DEF Init, LedgerInit, StoreInit, TypeOK, LedgerTypeOK, NotYet, Maybe, Draft,
     NoDraft, OtherPCs, DeltaPCs, BasePresent
<1>2. TypeOK /\ BasePresent /\ [Next]_vars => (TypeOK /\ BasePresent)'
  <2> SUFFICES ASSUME TypeOK, BasePresent, [Next]_vars
               PROVE  (TypeOK /\ BasePresent)'
    OBVIOUS
  <2> USE CacheAssumption, StoreAssumption DEF TypeOK, Maybe, ledgerVars, storeVars, callVars, regs, Snapshot,
        RunningPCs, OtherPCs, DeltaPCs, FullPCs, WritePCs, LedgerTypeOK,
        BasePresent
  <2>1. CASE Environment
    <3>1. CASE LedgerNext /\ UNCHANGED <<storeVars, callVars, floor>>
      BY <3>1, LedgerTyping
    <3>2. CASE Tick /\ UNCHANGED <<ledgerVars, callVars, floor>>
      BY <3>2 DEF Tick
    <3> QED BY <2>1, <3>1, <3>2 DEF Environment
  <2>2. ASSUME NEW p \in Procs, StartPopulate(p)
        PROVE  (TypeOK /\ BasePresent)'
    BY <2>2 DEF StartPopulate, Goto
  <2>3. ASSUME NEW p \in Procs, JoinPopulate(p)
        PROVE  (TypeOK /\ BasePresent)'
    BY <2>3 DEF JoinPopulate, Goto, Running
  <2>4. ASSUME NEW p \in Procs, ReadEntry(p)
        PROVE  (TypeOK /\ BasePresent)'
    BY <2>4 DEF ReadEntry, Goto, DropExpired, StoreGet
  <2>5. ASSUME NEW p \in Procs, InspectEntry(p)
        PROVE  (TypeOK /\ BasePresent)'
    BY <2>5 DEF InspectEntry, DropExpired, StoreGet
  <2>6. ASSUME NEW p \in Procs, StartInvalidate(p)
        PROVE  (TypeOK /\ BasePresent)'
    BY <2>6 DEF StartInvalidate, Goto, Running
  <2>7. ASSUME NEW p \in Procs, ReadBase(p)
        PROVE  (TypeOK /\ BasePresent)'
    BY <2>7 DEF ReadBase, Goto, DropExpired, StoreGet
  <2>8. ASSUME NEW p \in Procs, ReadPruned(p)
        PROVE  (TypeOK /\ BasePresent)'
    BY <2>8 DEF ReadPruned, Goto
  <2>9. ASSUME NEW p \in Procs, ReadEnd(p)
        PROVE  (TypeOK /\ BasePresent)'
    <3> DEFINE b == base[p]
               gap == ledgerEnd - b.at
               rest == UNCHANGED <<ledgerVars, storeVars, inflight, awaiting, result, startEnd, floor>>
    <3>0. pc[p] = "readEnd" /\ b \in Snapshot /\ rest
      BY <2>9 DEF ReadEnd
    <3>1. CASE FallBack(p)
      BY <3>0, <3>1, Falling
    <3>2. CASE /\ Goto(p, "writeNoop")
               /\ draft' = [draft EXCEPT ![p] = [at |-> b.at, ids |-> b.ids]]
               /\ UNCHANGED <<base, prunedSeen, endSeen, low, created, archived>>
      BY <3>0, <3>2 DEF Goto, Draft
    <3>3. CASE /\ Goto(p, "window")
               /\ endSeen' = [endSeen EXCEPT ![p] = ledgerEnd]
               /\ low' = [low EXCEPT ![p] = b.at]
               /\ created' = [created EXCEPT ![p] = {}]
               /\ archived' = [archived EXCEPT ![p] = {}]
               /\ UNCHANGED <<base, prunedSeen, draft>>
      BY <3>0, <3>3 DEF Goto
    <3> QED BY <2>9, <3>1, <3>2, <3>3 DEF ReadEnd
  <2>10. ASSUME NEW p \in Procs, DeltaPage(p)
        PROVE  (TypeOK /\ BasePresent)'
    <3>0. UNCHANGED <<ledgerVars, storeVars, inflight, awaiting, result, startEnd, floor>>
      BY <2>10 DEF DeltaPage
    <3>1. PICK high \in Window(low[p], endSeen[p] - 1) :
            \/ FallBack(p)
            \/ /\ low' = [low EXCEPT ![p] = high]
               /\ created' = [created EXCEPT ![p] = @ \cup CreatedIn(low[p], high)]
               /\ archived' = [archived EXCEPT ![p] = @ \cup ArchivedIn(low[p], high)]
               /\ UNCHANGED <<pc, base, prunedSeen, endSeen, draft>>
      BY <2>10 DEF DeltaPage
    <3>2. high \in Nat
      BY DEF Window
    <3>3. CreatedIn(low[p], high) \subseteq Contracts /\ ArchivedIn(low[p], high) \subseteq Contracts
      BY DEF CreatedIn, ArchivedIn
    <3>4. CASE FallBack(p)
      BY <3>0, <3>4, Falling
    <3> QED BY <3>0, <3>1, <3>2, <3>3, <3>4
  <2>11. ASSUME NEW p \in Procs, DeltaLastPage(p)
        PROVE  (TypeOK /\ BasePresent)'
    <3> DEFINE ids  == base[p].ids
               new  == created[p] \cup CreatedIn(low[p], endSeen[p])
               gone == archived[p] \cup ArchivedIn(low[p], endSeen[p])
    <3>0. pc[p] = "window" /\ UNCHANGED <<ledgerVars, storeVars, inflight, awaiting, result, startEnd, floor>>
      BY <2>11 DEF DeltaLastPage
    <3>1. CASE FallBack(p)
      BY <3>0, <3>1, Falling
    <3>2. CASE /\ Goto(p, "writeDelta")
               /\ draft' = [draft EXCEPT ![p] = [at |-> endSeen[p], ids |-> Patched(ids, new, gone)]]
               /\ UNCHANGED <<base, prunedSeen, endSeen, low, created, archived>>
      <4>1. Patched(ids, new, gone) \in SUBSET Contracts
        BY <3>0 DEF Patched, CreatedIn
      <4>2. draft' \in [Procs -> Draft]
        BY <3>2, <4>1 DEF Draft
      <4> QED BY <3>0, <3>2, <4>2 DEF Goto
    <3> QED BY <2>11, <3>1, <3>2 DEF DeltaLastPage
  <2>12. ASSUME NEW p \in Procs, DeltaFails(p)
        PROVE  (TypeOK /\ BasePresent)'
    BY <2>12 DEF DeltaFails, Goto, FallBack, ClearRegs, NoDraft, Draft, DeltaPCs
  <2>13. ASSUME NEW p \in Procs, FullFirstPage(p)
        PROVE  (TypeOK /\ BasePresent)'
    <3>1. PICK rows \in SUBSET (Acs(ledgerEnd) \ {}) :
            /\ draft' = [draft EXCEPT ![p] = [at |-> ledgerEnd, ids |-> {} \cup rows]]
            /\ Goto(p, "fullNext") \/ Goto(p, "writeFull")
      BY <2>13 DEF FullFirstPage, ActiveContractsPage
    <3>2. {} \cup rows \in SUBSET Contracts /\ ledgerEnd \in Nat
      BY DEF Acs, Draft
    <3>3. draft' \in [Procs -> Draft]
      BY <3>1, <3>2 DEF Draft
    <3> QED BY <2>13, <3>1, <3>3 DEF FullFirstPage, Goto
  <2>14. ASSUME NEW p \in Procs, FullNextPage(p)
        PROVE  (TypeOK /\ BasePresent)'
    <3>1. PICK rows \in SUBSET (Acs(draft[p].at) \ draft[p].ids) :
            /\ draft' = [draft EXCEPT ![p] = [at |-> draft[p].at, ids |-> draft[p].ids \cup rows]]
            /\ Goto(p, "fullNext") \/ Goto(p, "writeFull")
      BY <2>14 DEF FullNextPage, ActiveContractsPage
    <3>2. draft[p].ids \cup rows \in SUBSET Contracts /\ draft[p].at \in Nat
      BY DEF Acs, Draft
    <3>3. draft' \in [Procs -> Draft]
      BY <3>1, <3>2 DEF Draft
    <3> QED BY <2>14, <3>1, <3>3 DEF FullNextPage, Goto
  <2>15. ASSUME NEW p \in Procs, FullFails(p)
        PROVE  (TypeOK /\ BasePresent)'
    BY <2>15 DEF FullFails, Goto, Settle
  <2>16. ASSUME NEW p \in Procs, WriteSnapshot(p)
        PROVE  (TypeOK /\ BasePresent)'
    BY <2>16 DEF WriteSnapshot, Goto, Settle, StoreSet, Draft
  <2>17. ASSUME NEW p \in Procs, StoreFails(p)
        PROVE  (TypeOK /\ BasePresent)'
    <3>1. CASE FallBack(p) /\ UNCHANGED <<awaiting, result>>
      BY <2>17, <3>1, Falling DEF StoreFails
    <3>2. CASE Settle(p, Error) /\ UNCHANGED regs
      BY <2>17, <3>2 DEF StoreFails, Settle, Goto
    <3> QED BY <2>17, <3>1, <3>2 DEF StoreFails
  <2>18. ASSUME NEW p \in Procs, ClearInflight(p)
        PROVE  (TypeOK /\ BasePresent)'
    BY <2>18 DEF ClearInflight, Goto, Return, ClearRegs, NoDraft, Draft
  <2>19. ASSUME NEW p \in Procs, ReturnJoined(p)
        PROVE  (TypeOK /\ BasePresent)'
    BY <2>19 DEF ReturnJoined, Goto, Return
  <2>20. ASSUME NEW p \in Procs, ReturnRead(p)
        PROVE  (TypeOK /\ BasePresent)'
    BY <2>20 DEF ReturnRead, Goto, Return, ClearRegs, NoDraft, Draft
  <2>21. ASSUME NEW p \in Procs, DeleteEntry(p)
        PROVE  (TypeOK /\ BasePresent)'
    BY <2>21 DEF DeleteEntry, Goto, Return, StoreDelete
  <2>22. CASE UNCHANGED vars
    BY <2>22 DEF vars
  <2> QED
    BY <2>1, <2>2, <2>3, <2>4, <2>5, <2>6, <2>7, <2>8, <2>9, <2>10, <2>11, <2>12, <2>13, <2>14, <2>15, <2>16, <2>17, <2>18, <2>19, <2>20, <2>21, <2>22 DEF Next, Call, Progress
<1> QED BY <1>1, <1>2, PTL DEF Spec

(* The type invariant: inflight holds callers' promises, base and entry    *)
(* hold snapshots or nothing, and every register has its code's type.      *)
THEOREM TypeCorrect == Spec => []TypeOK
BY Typing, PTL

-----------------------------------------------------------------------------
(***************************************************************************)
(* The rows of a snapshot.  The invariant says of every copy of a snapshot *)
(* (the stored one, the bases of refreshes and reads, the drafts) that its *)
(* rows agree with the ACS, and of a delta window read so far that it      *)
(* holds exactly the events of (base, low].                                *)
(***************************************************************************)

\* A copy of a snapshot: right up to moves, and stamped no later than now + ttl.
GoodSnapshot(s) == AgreesUpToMoves(s) /\ s.exp <= now + TtlMs

EntryInv == entry # NoEntry => GoodSnapshot(entry)

BaseInv == \A p \in Procs : base[p] # NoEntry => GoodSnapshot(base[p])

WindowInv ==
  \A p \in Procs : pc[p] = "window" =>
    /\ base[p].at <= low[p]
    /\ low[p] < endSeen[p]
    /\ endSeen[p] <= ledgerEnd
    /\ created[p] = CreatedIn(base[p].at, low[p])
    /\ archived[p] = ArchivedIn(base[p].at, low[p])

DownloadInv ==
  \A p \in Procs : pc[p] = "fullNext" =>
    /\ draft[p].at <= ledgerEnd
    /\ draft[p].ids \subseteq Acs(draft[p].at)

DraftInv == \A p \in Procs : pc[p] \in WritePCs => AgreesUpToMoves(draft[p])

RowsInv == LedgerInv /\ EntryInv /\ BaseInv /\ WindowInv /\ DownloadInv /\ DraftInv

\* A new update leaves the answers about the past alone.
LEMMA AnswersStable ==
  ASSUME LedgerTypeOK, LedgerInv, LedgerNext
  PROVE  /\ \A o \in 0..ledgerEnd : Acs(o)' = Acs(o)
         /\ \A b \in Nat, o \in 0..ledgerEnd : /\ CreatedIn(b, o)' = CreatedIn(b, o)
                                              /\ ArchivedIn(b, o)' = ArchivedIn(b, o)
         /\ \A c \in Contracts : Moved(c) => Moved(c)'
<1> USE LedgerStable, LedgerTyping DEF LedgerTypeOK, LedgerInv, NotYet
<1>1. \A o \in 0..ledgerEnd : Acs(o)' = Acs(o)
  BY DEF Acs
<1>2. \A b \in Nat, o \in 0..ledgerEnd : CreatedIn(b, o)' = CreatedIn(b, o)
  BY DEF CreatedIn, TransactionsIn, Window
<1>3. \A b \in Nat, o \in 0..ledgerEnd : ArchivedIn(b, o)' = ArchivedIn(b, o)
  BY DEF ArchivedIn, TransactionsIn, Window
<1>4. \A c \in Contracts : Moved(c) => Moved(c)'
  BY DEF Moved
<1> QED BY <1>1, <1>2, <1>3, <1>4

\* Two adjoining windows are one window.
LEMMA WindowsJoin ==
  ASSUME LedgerTypeOK, NEW b \in Nat, NEW l \in Nat, NEW h \in Nat, b <= l, l <= h
  PROVE  /\ CreatedIn(b, l) \cup CreatedIn(l, h) = CreatedIn(b, h)
         /\ ArchivedIn(b, l) \cup ArchivedIn(l, h) = ArchivedIn(b, h)
BY DEF CreatedIn, ArchivedIn, TransactionsIn, Window, LedgerTypeOK

\* Patching rows that are right at b with the events of (b, e] makes them
\* right at e.
LEMMA PatchIsRight ==
  ASSUME LedgerTypeOK, LedgerInv, NEW s, s.at \in Nat, AgreesUpToMoves(s),
         NEW e \in Nat, s.at <= e, e <= ledgerEnd,
         NEW c \in Contracts, ~Moved(c)
  PROVE  c \in Patched(s.ids, CreatedIn(s.at, e), ArchivedIn(s.at, e)) <=> c \in Acs(e)
BY DEF Patched, CreatedIn, ArchivedIn, TransactionsIn, Window, Acs, AgreesUpToMoves, Moved, LedgerTypeOK,
   LedgerInv, NotYet

\* Giving up a delta attempt keeps the invariant.
LEMMA FallingRows ==
  ASSUME TypeOK, RowsInv, NEW p \in Procs, FallBack(p), UNCHANGED <<ledgerVars, storeVars>>
  PROVE  RowsInv'
BY CacheAssumption DEF RowsInv, EntryInv, BaseInv, WindowInv, DownloadInv, DraftInv, GoodSnapshot, TypeOK,
   ledgerVars, storeVars, WritePCs, FallBack, Goto, ClearRegs, AgreesUpToMoves, LedgerInv, Acs, Moved,
   CreatedIn, ArchivedIn, TransactionsIn

\* The invariant of the rows is inductive.
LEMMA RowsStep ==
  ASSUME TypeOK, TypeOK', BasePresent, RowsInv, [Next]_vars
  PROVE  RowsInv'
<1> USE CacheAssumption, StoreAssumption DEF RowsInv, EntryInv, BaseInv, WindowInv, DownloadInv, DraftInv,
      GoodSnapshot, TypeOK, Maybe, ledgerVars, storeVars, callVars, regs, Snapshot, DeltaPCs, FullPCs, WritePCs,
      LedgerTypeOK
<1>1. CASE Environment
  <2>1. CASE LedgerNext /\ UNCHANGED <<storeVars, callVars, floor>>
    <3>1. LedgerInv' /\ ledgerEnd' \in Nat /\ ledgerEnd <= ledgerEnd'
      BY <2>1, LedgerStable
    <3>2. ASSUME NEW s, s.at \in Nat, AgreesUpToMoves(s)
          PROVE  /\ s.at <= ledgerEnd'
                 /\ \A c \in Contracts : ~Moved(c)' => (c \in s.ids <=> c \in Acs(s.at)')
      BY <2>1, <3>1, <3>2, AnswersStable DEF AgreesUpToMoves
    <3>3. EntryInv'
      BY <2>1, <3>2 DEF AgreesUpToMoves
    <3>4. BaseInv'
      BY <2>1, <3>2 DEF AgreesUpToMoves
    <3>5. WindowInv'
      BY <2>1, <3>1, AnswersStable DEF BasePresent
    <3>6. DownloadInv'
      BY <2>1, <3>1, AnswersStable DEF Draft
    <3>7. DraftInv'
      BY <2>1, <3>2 DEF AgreesUpToMoves, Draft
    <3> QED BY <3>1, <3>3, <3>4, <3>5, <3>6, <3>7
  <2>2. CASE Tick /\ UNCHANGED <<ledgerVars, callVars, floor>>
    BY <2>2 DEF Tick, AgreesUpToMoves, LedgerInv, Acs, Moved, CreatedIn, ArchivedIn, TransactionsIn
  <2> QED BY <1>1, <2>1, <2>2 DEF Environment
<1>2. ASSUME NEW p \in Procs, StartPopulate(p)
      PROVE  RowsInv'
  <2> SUFFICES ASSUME ledgerVars' = ledgerVars PROVE RowsInv'
    BY <1>2 DEF StartPopulate
  <2> QED BY <1>2 DEF StartPopulate, Goto, AgreesUpToMoves, LedgerInv, Acs, Moved, CreatedIn, ArchivedIn, TransactionsIn
<1>3. ASSUME NEW p \in Procs, JoinPopulate(p)
      PROVE  RowsInv'
  <2> SUFFICES ASSUME ledgerVars' = ledgerVars PROVE RowsInv'
    BY <1>3 DEF JoinPopulate
  <2> QED BY <1>3 DEF JoinPopulate, Goto, Running, AgreesUpToMoves, LedgerInv, Acs, Moved, CreatedIn, ArchivedIn, TransactionsIn
<1>4. ASSUME NEW p \in Procs, ReadEntry(p)
      PROVE  RowsInv'
  <2> SUFFICES ASSUME ledgerVars' = ledgerVars PROVE RowsInv'
    BY <1>4 DEF ReadEntry
  <2> QED BY <1>4 DEF ReadEntry, Goto, DropExpired, StoreGet, AgreesUpToMoves, LedgerInv, Acs, Moved, CreatedIn, ArchivedIn, TransactionsIn
<1>5. ASSUME NEW p \in Procs, InspectEntry(p)
      PROVE  RowsInv'
  <2> SUFFICES ASSUME ledgerVars' = ledgerVars PROVE RowsInv'
    BY <1>5 DEF InspectEntry
  <2> QED BY <1>5 DEF InspectEntry, DropExpired, StoreGet, AgreesUpToMoves, LedgerInv, Acs, Moved, CreatedIn, ArchivedIn, TransactionsIn
<1>6. ASSUME NEW p \in Procs, StartInvalidate(p)
      PROVE  RowsInv'
  <2> SUFFICES ASSUME ledgerVars' = ledgerVars PROVE RowsInv'
    BY <1>6 DEF StartInvalidate
  <2> QED BY <1>6 DEF StartInvalidate, Goto, Running, AgreesUpToMoves, LedgerInv, Acs, Moved, CreatedIn, ArchivedIn, TransactionsIn
<1>7. ASSUME NEW p \in Procs, ReadBase(p)
      PROVE  RowsInv'
  <2> SUFFICES ASSUME ledgerVars' = ledgerVars PROVE RowsInv'
    BY <1>7 DEF ReadBase
  <2> QED BY <1>7 DEF ReadBase, Goto, DropExpired, StoreGet, AgreesUpToMoves, LedgerInv, Acs, Moved, CreatedIn, ArchivedIn, TransactionsIn
<1>8. ASSUME NEW p \in Procs, ReadPruned(p)
      PROVE  RowsInv'
  <2> SUFFICES ASSUME ledgerVars' = ledgerVars PROVE RowsInv'
    BY <1>8 DEF ReadPruned
  <2> QED BY <1>8 DEF ReadPruned, Goto, AgreesUpToMoves, LedgerInv, Acs, Moved, CreatedIn, ArchivedIn, TransactionsIn
<1>9. ASSUME NEW p \in Procs, ReadEnd(p)
      PROVE  RowsInv'
  <2> DEFINE b == base[p]
  <2>0. pc[p] = "readEnd" /\ b \in Snapshot /\ GoodSnapshot(b) /\ UNCHANGED <<ledgerVars, storeVars>>
    BY <1>9 DEF ReadEnd, BasePresent
  <2>1. CASE FallBack(p)
    BY <2>0, <2>1, FallingRows
  <2>2. CASE /\ Goto(p, "writeNoop")
             /\ draft' = [draft EXCEPT ![p] = [at |-> b.at, ids |-> b.ids]]
             /\ UNCHANGED <<base, prunedSeen, endSeen, low, created, archived>>
    BY <2>0, <2>2 DEF Goto, AgreesUpToMoves, LedgerInv, Acs, Moved, CreatedIn, ArchivedIn, TransactionsIn
  <2>3. CASE /\ ledgerEnd - b.at \in 1..MaxOffsetGap
             /\ Goto(p, "window")
             /\ endSeen' = [endSeen EXCEPT ![p] = ledgerEnd]
             /\ low' = [low EXCEPT ![p] = b.at]
             /\ created' = [created EXCEPT ![p] = {}]
             /\ archived' = [archived EXCEPT ![p] = {}]
             /\ UNCHANGED <<base, prunedSeen, draft>>
    <3>1. CreatedIn(b.at, b.at) = {} /\ ArchivedIn(b.at, b.at) = {}
      BY <2>0 DEF CreatedIn, ArchivedIn, TransactionsIn, Window
    <3>2. b.at < ledgerEnd
      BY <2>0, <2>3
    <3>3. WindowInv'
      BY <2>0, <2>3, <3>1, <3>2 DEF Goto, CreatedIn, ArchivedIn, TransactionsIn
    <3> QED BY <2>0, <2>3, <3>3 DEF Goto, AgreesUpToMoves, LedgerInv, Acs, Moved
  <2> QED BY <1>9, <2>1, <2>2, <2>3 DEF ReadEnd
<1>10. ASSUME NEW p \in Procs, DeltaPage(p)
      PROVE  RowsInv'
  <2>0. pc[p] = "window" /\ base[p] \in Snapshot /\ UNCHANGED <<ledgerVars, storeVars>>
    BY <1>10 DEF DeltaPage, BasePresent
  <2>1. PICK high \in Window(low[p], endSeen[p] - 1) :
          \/ FallBack(p)
          \/ /\ low' = [low EXCEPT ![p] = high]
             /\ created' = [created EXCEPT ![p] = @ \cup CreatedIn(low[p], high)]
             /\ archived' = [archived EXCEPT ![p] = @ \cup ArchivedIn(low[p], high)]
             /\ UNCHANGED <<pc, base, prunedSeen, endSeen, draft>>
    BY <1>10 DEF DeltaPage
  <2>2. high \in Nat /\ low[p] < high /\ high < endSeen[p]
    BY DEF Window
  <2>3. CASE FallBack(p)
    BY <2>0, <2>3, FallingRows
  <2>4. CASE /\ low' = [low EXCEPT ![p] = high]
             /\ created' = [created EXCEPT ![p] = @ \cup CreatedIn(low[p], high)]
             /\ archived' = [archived EXCEPT ![p] = @ \cup ArchivedIn(low[p], high)]
             /\ UNCHANGED <<pc, base, prunedSeen, endSeen, draft>>
    <3>1. /\ created'[p] = CreatedIn(base[p].at, high)
          /\ archived'[p] = ArchivedIn(base[p].at, high)
      BY <2>0, <2>2, <2>4, WindowsJoin
    <3>2. /\ base[p].at <= high
          /\ high < endSeen[p]
      BY <2>0, <2>2
    <3>3. WindowInv'
      BY <2>0, <2>4, <3>1, <3>2 DEF CreatedIn, ArchivedIn, TransactionsIn
    <3> QED BY <2>0, <2>4, <3>3 DEF AgreesUpToMoves, LedgerInv, Acs, Moved
  <2> QED BY <2>1, <2>3, <2>4
<1>11. ASSUME NEW p \in Procs, DeltaLastPage(p)
      PROVE  RowsInv'
  <2> DEFINE b    == base[p]
             new  == created[p] \cup CreatedIn(low[p], endSeen[p])
             gone == archived[p] \cup ArchivedIn(low[p], endSeen[p])
  <2>0. pc[p] = "window" /\ b \in Snapshot /\ AgreesUpToMoves(b) /\ UNCHANGED <<ledgerVars, storeVars>>
    BY <1>11 DEF DeltaLastPage, BasePresent
  <2>1. CASE FallBack(p)
    BY <2>0, <2>1, FallingRows
  <2>2. CASE /\ Goto(p, "writeDelta")
             /\ draft' = [draft EXCEPT ![p] = [at |-> endSeen[p], ids |-> Patched(b.ids, new, gone)]]
             /\ UNCHANGED <<base, prunedSeen, endSeen, low, created, archived>>
    <3>1. new = CreatedIn(b.at, endSeen[p]) /\ gone = ArchivedIn(b.at, endSeen[p])
      BY <2>0, WindowsJoin
    <3>2. b.at <= endSeen[p] /\ endSeen[p] <= ledgerEnd
      BY <2>0
    <3>3. \A c \in Contracts : ~Moved(c) => (c \in Patched(b.ids, new, gone) <=> c \in Acs(endSeen[p]))
      BY <2>0, <3>1, <3>2, PatchIsRight
    <3> HIDE DEF new, gone
    <3>4. DraftInv'
      BY <2>0, <2>2, <3>2, <3>3 DEF Goto, AgreesUpToMoves, Acs, Moved
    <3> QED BY <2>0, <2>2, <3>4 DEF Goto, AgreesUpToMoves, LedgerInv, Acs, Moved, CreatedIn, ArchivedIn, TransactionsIn
  <2> QED BY <1>11, <2>1, <2>2 DEF DeltaLastPage
<1>12. ASSUME NEW p \in Procs, DeltaFails(p)
      PROVE  RowsInv'
  <2> SUFFICES ASSUME ledgerVars' = ledgerVars PROVE RowsInv'
    BY <1>12 DEF DeltaFails
  <2> QED BY <1>12 DEF DeltaFails, Goto, FallBack, ClearRegs, NoDraft, Draft, AgreesUpToMoves, LedgerInv, Acs, Moved, CreatedIn, ArchivedIn, TransactionsIn
<1>13. ASSUME NEW p \in Procs, FullFirstPage(p)
      PROVE  RowsInv'
  <2> SUFFICES ASSUME ledgerVars' = ledgerVars PROVE RowsInv'
    BY <1>13 DEF FullFirstPage
  <2> QED BY <1>13 DEF FullFirstPage, Goto, ActiveContractsPage, Draft, AgreesUpToMoves, LedgerInv, Acs, Moved, CreatedIn, ArchivedIn, TransactionsIn
<1>14. ASSUME NEW p \in Procs, FullNextPage(p)
      PROVE  RowsInv'
  <2> SUFFICES ASSUME ledgerVars' = ledgerVars PROVE RowsInv'
    BY <1>14 DEF FullNextPage
  <2> QED BY <1>14 DEF FullNextPage, Goto, ActiveContractsPage, Draft, AgreesUpToMoves, LedgerInv, Acs, Moved, CreatedIn, ArchivedIn, TransactionsIn
<1>15. ASSUME NEW p \in Procs, FullFails(p)
      PROVE  RowsInv'
  <2> SUFFICES ASSUME ledgerVars' = ledgerVars PROVE RowsInv'
    BY <1>15 DEF FullFails
  <2> QED BY <1>15 DEF FullFails, Goto, Settle, AgreesUpToMoves, LedgerInv, Acs, Moved, CreatedIn, ArchivedIn, TransactionsIn
<1>16. ASSUME NEW p \in Procs, WriteSnapshot(p)
      PROVE  RowsInv'
  <2> SUFFICES ASSUME ledgerVars' = ledgerVars PROVE RowsInv'
    BY <1>16 DEF WriteSnapshot
  <2> QED BY <1>16 DEF WriteSnapshot, Goto, Settle, StoreSet, Draft, AgreesUpToMoves, LedgerInv, Acs, Moved, CreatedIn, ArchivedIn, TransactionsIn
<1>17. ASSUME NEW p \in Procs, StoreFails(p)
      PROVE  RowsInv'
  <2>0. UNCHANGED <<ledgerVars, storeVars>>
    BY <1>17 DEF StoreFails
  <2>1. CASE FallBack(p)
    BY <2>0, <2>1, FallingRows
  <2>2. CASE Settle(p, Error) /\ UNCHANGED regs
    BY <2>0, <2>2 DEF Settle, Goto, AgreesUpToMoves, LedgerInv, Acs, Moved, CreatedIn, ArchivedIn, TransactionsIn
  <2> QED BY <1>17, <2>1, <2>2 DEF StoreFails
<1>18. ASSUME NEW p \in Procs, ClearInflight(p)
      PROVE  RowsInv'
  <2> SUFFICES ASSUME ledgerVars' = ledgerVars PROVE RowsInv'
    BY <1>18 DEF ClearInflight
  <2> QED BY <1>18 DEF ClearInflight, Goto, Return, ClearRegs, NoDraft, AgreesUpToMoves, LedgerInv, Acs, Moved, CreatedIn, ArchivedIn, TransactionsIn
<1>19. ASSUME NEW p \in Procs, ReturnJoined(p)
      PROVE  RowsInv'
  <2> SUFFICES ASSUME ledgerVars' = ledgerVars PROVE RowsInv'
    BY <1>19 DEF ReturnJoined
  <2> QED BY <1>19 DEF ReturnJoined, Goto, Return, AgreesUpToMoves, LedgerInv, Acs, Moved, CreatedIn, ArchivedIn, TransactionsIn
<1>20. ASSUME NEW p \in Procs, ReturnRead(p)
      PROVE  RowsInv'
  <2> SUFFICES ASSUME ledgerVars' = ledgerVars PROVE RowsInv'
    BY <1>20 DEF ReturnRead
  <2> QED BY <1>20 DEF ReturnRead, Goto, Return, ClearRegs, NoDraft, AgreesUpToMoves, LedgerInv, Acs, Moved, CreatedIn, ArchivedIn, TransactionsIn
<1>21. ASSUME NEW p \in Procs, DeleteEntry(p)
      PROVE  RowsInv'
  <2> SUFFICES ASSUME ledgerVars' = ledgerVars PROVE RowsInv'
    BY <1>21 DEF DeleteEntry
  <2> QED BY <1>21 DEF DeleteEntry, Goto, Return, StoreDelete, AgreesUpToMoves, LedgerInv, Acs, Moved, CreatedIn, ArchivedIn, TransactionsIn
<1>22. CASE UNCHANGED vars
  BY <1>22 DEF vars, AgreesUpToMoves, LedgerInv, Acs, Moved, CreatedIn, ArchivedIn, TransactionsIn
<1> QED
  BY <1>1, <1>2, <1>3, <1>4, <1>5, <1>6, <1>7, <1>8, <1>9, <1>10, <1>11, <1>12, <1>13, <1>14, <1>15, <1>16, <1>17, <1>18, <1>19, <1>20, <1>21, <1>22 DEF Next, Call, Progress

LEMMA Rows == Spec => []RowsInv
<1>1. Init => RowsInv
  BY DEF Init, LedgerInit, StoreInit, RowsInv, LedgerInv, NotYet, EntryInv, BaseInv, WindowInv, DownloadInv, DraftInv,
     WritePCs
<1>2. TypeOK /\ BasePresent /\ RowsInv /\ [Next]_vars /\ TypeOK' => RowsInv'
  BY RowsStep
<1> QED BY <1>1, <1>2, Typing, PTL DEF Spec

(* The stored snapshot is wrong at most about reassigned contracts, for    *)
(* any number of callers, caches, contracts, pages and prunings: neither   *)
(* the delta refresh nor the download ever corrupts other rows.            *)
THEOREM RowsCorrectUpToMoves == Spec => []WrongOnlyAboutMoves
<1>1. RowsInv => WrongOnlyAboutMoves
  BY DEF RowsInv, EntryInv, GoodSnapshot, WrongOnlyAboutMoves
<1> QED BY <1>1, Rows, PTL

(* What a cached read answers is unexpired, stamped within the time to     *)
(* live, and right about every contract that was not reassigned, whatever  *)
(* happened between the store's answer and the resumption of the read.     *)
THEOREM ReadsServeGoodRows == Spec => []ServedReads
<1>1. TypeOK /\ RowsInv => ServedReads
  BY CacheAssumption, StoreAssumption
     DEF TypeOK, Maybe, Snapshot, RowsInv, BaseInv, GoodSnapshot, ServedReads, ReadResult, Compatible
<1> QED BY <1>1, Rows, Typing, PTL

(* On a ledger without reassignments the stored rows are exactly the ACS   *)
(* at the snapshot's offset: what the README calls internally consistent.  *)
THEOREM RowsAreTheAcs ==
  ASSUME ~MultiSynchronizer
  PROVE  Spec => []SnapshotConsistent
<1>1. TypeOK /\ RowsInv => SnapshotConsistent
  <2> SUFFICES ASSUME TypeOK, RowsInv, entry # NoEntry
               PROVE  entry.ids = Acs(entry.at)
    BY DEF SnapshotConsistent
  <2>1. \A c \in Contracts : ~Moved(c)
    BY DEF RowsInv, LedgerInv, Moved
  <2>2. entry.ids \subseteq Contracts
    BY DEF TypeOK, Maybe, Snapshot
  <2> QED BY <2>1, <2>2 DEF RowsInv, EntryInv, GoodSnapshot, AgreesUpToMoves, Acs
<1> QED BY <1>1, Rows, Typing, PTL

-----------------------------------------------------------------------------
(***************************************************************************)
(* Sharing.  The invariant ties the inflight map to the callers whose      *)
(* populate is under way or has settled and is still registered.           *)
(***************************************************************************)

\* A populate that is under way, or settled and not yet cleared, is registered.
Registered ==
  \A p \in Procs : Running(p) \/ pc[p] = "settled" => inflight[CacheOf[p]] = p

\* What is registered is such a populate, of that cache.
RegisteredAlive ==
  \A c \in Caches : inflight[c] # NoPromise =>
    /\ CacheOf[inflight[c]] = c
    /\ Running(inflight[c]) \/ pc[inflight[c]] = "settled"

\* Only calls that joined or invalidate wait, and for a populate under way.
AwaitsAlive ==
  \A p \in Procs : awaiting[p] # NoPromise =>
    /\ Running(awaiting[p])
    /\ CacheOf[awaiting[p]] = CacheOf[p]
    /\ pc[p] \in {"joined", "invalidate"}

FlightInv == Registered /\ RegisteredAlive /\ AwaitsAlive

LEMMA FlightStep ==
  ASSUME TypeOK, FlightInv, [Next]_vars
  PROVE  FlightInv'
<1> USE CacheAssumption DEF FlightInv, Registered, RegisteredAlive, AwaitsAlive, Running, TypeOK,
      callVars, regs, RunningPCs, OtherPCs, DeltaPCs, FullPCs, WritePCs
<1>1. CASE Environment
  BY <1>1 DEF Environment
<1>2. ASSUME NEW p \in Procs, StartPopulate(p)
      PROVE  FlightInv'
  BY <1>2 DEF StartPopulate, Goto
<1>3. ASSUME NEW p \in Procs, JoinPopulate(p)
      PROVE  FlightInv'
  BY <1>3 DEF JoinPopulate, Goto
<1>4. ASSUME NEW p \in Procs, ReadEntry(p)
      PROVE  FlightInv'
  BY <1>4 DEF ReadEntry, Goto, DropExpired, StoreGet
<1>5. ASSUME NEW p \in Procs, InspectEntry(p)
      PROVE  FlightInv'
  BY <1>5 DEF InspectEntry, DropExpired, StoreGet
<1>6. ASSUME NEW p \in Procs, StartInvalidate(p)
      PROVE  FlightInv'
  BY <1>6 DEF StartInvalidate, Goto
<1>7. ASSUME NEW p \in Procs, ReadBase(p)
      PROVE  FlightInv'
  BY <1>7 DEF ReadBase, Goto, DropExpired, StoreGet
<1>8. ASSUME NEW p \in Procs, ReadPruned(p)
      PROVE  FlightInv'
  BY <1>8 DEF ReadPruned, Goto
<1>9. ASSUME NEW p \in Procs, ReadEnd(p)
      PROVE  FlightInv'
  BY <1>9 DEF ReadEnd, Goto, FallBack, ClearRegs
<1>10. ASSUME NEW p \in Procs, DeltaPage(p)
      PROVE  FlightInv'
  BY <1>10 DEF DeltaPage, Goto, FallBack, ClearRegs
<1>11. ASSUME NEW p \in Procs, DeltaLastPage(p)
      PROVE  FlightInv'
  BY <1>11 DEF DeltaLastPage, Goto, FallBack, ClearRegs
<1>12. ASSUME NEW p \in Procs, DeltaFails(p)
      PROVE  FlightInv'
  BY <1>12 DEF DeltaFails, Goto, FallBack, ClearRegs
<1>13. ASSUME NEW p \in Procs, FullFirstPage(p)
      PROVE  FlightInv'
  BY <1>13 DEF FullFirstPage, Goto, ActiveContractsPage
<1>14. ASSUME NEW p \in Procs, FullNextPage(p)
      PROVE  FlightInv'
  BY <1>14 DEF FullNextPage, Goto, ActiveContractsPage
<1>15. ASSUME NEW p \in Procs, FullFails(p)
      PROVE  FlightInv'
  BY <1>15 DEF FullFails, Goto, Settle
<1>16. ASSUME NEW p \in Procs, WriteSnapshot(p)
      PROVE  FlightInv'
  BY <1>16 DEF WriteSnapshot, Goto, Settle, StoreSet
<1>17. ASSUME NEW p \in Procs, StoreFails(p)
      PROVE  FlightInv'
  BY <1>17 DEF StoreFails, Goto, Settle, FallBack, ClearRegs
<1>18. ASSUME NEW p \in Procs, ClearInflight(p)
      PROVE  FlightInv'
  BY <1>18 DEF ClearInflight, Goto, Return, ClearRegs
<1>19. ASSUME NEW p \in Procs, ReturnJoined(p)
      PROVE  FlightInv'
  BY <1>19 DEF ReturnJoined, Goto, Return
<1>20. ASSUME NEW p \in Procs, ReturnRead(p)
      PROVE  FlightInv'
  BY <1>20 DEF ReturnRead, Goto, Return, ClearRegs
<1>21. ASSUME NEW p \in Procs, DeleteEntry(p)
      PROVE  FlightInv'
  BY <1>21 DEF DeleteEntry, Goto, Return, StoreDelete
<1>22. CASE UNCHANGED vars
  BY <1>22 DEF vars
<1> QED
  BY <1>1, <1>2, <1>3, <1>4, <1>5, <1>6, <1>7, <1>8, <1>9, <1>10, <1>11, <1>12, <1>13, <1>14, <1>15, <1>16, <1>17, <1>18, <1>19, <1>20, <1>21, <1>22 DEF Next, Call, Progress

LEMMA Flight == Spec => []FlightInv
<1>1. Init => FlightInv
  BY CacheAssumption DEF Init, FlightInv, Registered, RegisteredAlive, AwaitsAlive, Running, RunningPCs, DeltaPCs, FullPCs,
     WritePCs
<1>2. TypeOK /\ FlightInv /\ [Next]_vars => FlightInv'
  BY FlightStep
<1> QED BY <1>1, <1>2, TypeCorrect, PTL DEF Spec

(* However many callers there are, a cache runs one populate of the key at *)
(* a time: cacheContracts registers before its first await and shares what *)
(* is registered.                                                          *)
THEOREM PopulatesAreShared == Spec => []SingleFlight
<1>1. FlightInv => SingleFlight
  BY DEF FlightInv, Registered, SingleFlight
<1> QED BY <1>1, Flight, PTL

-----------------------------------------------------------------------------
(***************************************************************************)
(* Freshness.  From its start on, everything a populate may still write or *)
(* resolve to is at least as recent as the ledger was at the start.        *)
(***************************************************************************)

\* A call began in the past.
StartsReached == \A p \in Procs : startEnd[p] <= ledgerEnd

\* The end of the delta window and the draft are no older than the call.
WorkIsFresh ==
  \A p \in Procs :
    /\ pc[p] = "window" => startEnd[p] <= endSeen[p]
    /\ pc[p] \in {"fullNext"} \cup WritePCs => startEnd[p] <= draft[p].at

\* Who joins a populate counts from its start.
JoinedTogether ==
  \A p \in Procs : pc[p] = "joined" /\ awaiting[p] # NoPromise => startEnd[p] = startEnd[awaiting[p]]

FreshInv == StartsReached /\ WorkIsFresh /\ JoinedTogether /\ FreshResult

\* Nobody waits for a populate that is not under way.
LEMMA NotAwaited ==
  ASSUME FlightInv, NEW p \in Procs, ~Running(p)
  PROVE  \A q \in Procs : awaiting[q] # p
BY CacheAssumption DEF FlightInv, AwaitsAlive

LEMMA FreshStep ==
  ASSUME TypeOK, BasePresent, RowsInv, FlightInv, FreshInv, [Next]_vars
  PROVE  FreshInv'
<1> USE CacheAssumption DEF FreshInv, StartsReached, WorkIsFresh, JoinedTogether, FreshResult, Resolved, TypeOK,
      LedgerTypeOK, Maybe, Snapshot, Draft, ledgerVars, storeVars, callVars, regs, DeltaPCs, FullPCs, WritePCs, RunningPCs, OtherPCs
<1>1. CASE Environment
  <2>1. ledgerEnd <= ledgerEnd' /\ ledgerEnd' \in Nat
    BY <1>1, LedgerStable DEF Environment, Tick, RowsInv
  <2> QED BY <1>1, <2>1 DEF Environment
<1>2. ASSUME NEW p \in Procs, StartPopulate(p)
      PROVE  FreshInv'
  <2>0. \A q \in Procs : awaiting[q] # p
    <3>1. ~Running(p)
      BY <1>2 DEF StartPopulate, Running
    <3> QED BY <3>1, NotAwaited
  <2>1. StartsReached'
    BY <1>2 DEF StartPopulate, Goto
  <2>2. WorkIsFresh'
    BY <1>2 DEF StartPopulate, Goto
  <2>3. JoinedTogether'
    BY <2>0, <1>2 DEF StartPopulate, Goto
  <2>4. FreshResult'
    BY <1>2 DEF StartPopulate, Goto
  <2> QED BY <2>1, <2>2, <2>3, <2>4
<1>3. ASSUME NEW p \in Procs, JoinPopulate(p)
      PROVE  FreshInv'
  <2> DEFINE f == inflight[CacheOf[p]]
  <2>0. f \in Procs /\ (Running(f) \/ pc[f] = "settled") /\ f # p
    BY <1>3 DEF JoinPopulate, FlightInv, RegisteredAlive, Running
  <2>1. StartsReached'
    BY <2>0, <1>3 DEF JoinPopulate, Goto
  <2>2. WorkIsFresh'
    BY <1>3 DEF JoinPopulate, Goto
  <2>3. \A q \in Procs : awaiting[q] # p
    <3>1. ~Running(p)
      BY <1>3 DEF JoinPopulate, Running
    <3> QED BY <3>1, NotAwaited
  <2>4. JoinedTogether'
    BY <2>0, <2>3, <1>3 DEF JoinPopulate, Goto
  <2>5. FreshResult'
    BY <2>0, <1>3 DEF JoinPopulate, Goto, Running
  <2> QED BY <2>1, <2>2, <2>4, <2>5
<1>4. ASSUME NEW p \in Procs, ReadEntry(p)
      PROVE  FreshInv'
  BY <1>4 DEF ReadEntry, Goto, DropExpired, StoreGet
<1>5. ASSUME NEW p \in Procs, InspectEntry(p)
      PROVE  FreshInv'
  BY <1>5 DEF InspectEntry, DropExpired, StoreGet
<1>6. ASSUME NEW p \in Procs, StartInvalidate(p)
      PROVE  FreshInv'
  <2>0. \A q \in Procs : awaiting[q] # p
    <3>1. ~Running(p)
      BY <1>6 DEF StartInvalidate, Running
    <3> QED BY <3>1, NotAwaited
  <2>1. StartsReached'
    BY <1>6 DEF StartInvalidate, Goto
  <2>2. WorkIsFresh'
    BY <1>6 DEF StartInvalidate, Goto
  <2>3. JoinedTogether'
    BY <2>0, <1>6 DEF StartInvalidate, Goto
  <2>4. FreshResult'
    BY <1>6 DEF StartInvalidate, Goto
  <2> QED BY <2>1, <2>2, <2>3, <2>4
<1>7. ASSUME NEW p \in Procs, ReadBase(p)
      PROVE  FreshInv'
  BY <1>7 DEF ReadBase, Goto, DropExpired, StoreGet
<1>8. ASSUME NEW p \in Procs, ReadPruned(p)
      PROVE  FreshInv'
  BY <1>8 DEF ReadPruned, Goto
<1>9. ASSUME NEW p \in Procs, ReadEnd(p)
      PROVE  FreshInv'
  <2>1. StartsReached'
    BY <1>9 DEF ReadEnd, Goto, FallBack, ClearRegs, BasePresent
  <2>2. WorkIsFresh'
    BY <1>9 DEF ReadEnd, Goto, FallBack, ClearRegs, BasePresent
  <2>3. JoinedTogether'
    BY <1>9 DEF ReadEnd, Goto, FallBack, ClearRegs, BasePresent
  <2>4. FreshResult'
    BY <1>9 DEF ReadEnd, Goto, FallBack, ClearRegs, BasePresent
  <2> QED BY <2>1, <2>2, <2>3, <2>4
<1>10. ASSUME NEW p \in Procs, DeltaPage(p)
      PROVE  FreshInv'
  <2>1. StartsReached'
    BY <1>10 DEF DeltaPage, Goto, FallBack, ClearRegs
  <2>2. WorkIsFresh'
    <3>1. startEnd' = startEnd
      BY <1>10 DEF DeltaPage
    <3>2. CASE FallBack(p)
      BY <3>1, <3>2 DEF FallBack, Goto, ClearRegs
    <3>3. CASE UNCHANGED <<pc, endSeen, draft>>
      BY <3>1, <3>3
    <3> QED BY <3>2, <3>3, <1>10 DEF DeltaPage
  <2>3. JoinedTogether'
    BY <1>10 DEF DeltaPage, Goto, FallBack, ClearRegs
  <2>4. FreshResult'
    BY <1>10 DEF DeltaPage, Goto, FallBack, ClearRegs
  <2> QED BY <2>1, <2>2, <2>3, <2>4
<1>11. ASSUME NEW p \in Procs, DeltaLastPage(p)
      PROVE  FreshInv'
  <2>1. StartsReached'
    BY <1>11 DEF DeltaLastPage, Goto, FallBack, ClearRegs
  <2>2. WorkIsFresh'
    <3>1. startEnd' = startEnd /\ pc[p] = "window"
      BY <1>11 DEF DeltaLastPage
    <3>2. CASE FallBack(p)
      BY <3>1, <3>2 DEF FallBack, Goto, ClearRegs
    <3>3. ASSUME NEW rows, Goto(p, "writeDelta"), endSeen' = endSeen,
                 draft' = [draft EXCEPT ![p] = [at |-> endSeen[p], ids |-> rows]]
          PROVE  WorkIsFresh'
      BY <3>1, <3>3 DEF Goto
    <3> QED BY <3>2, <3>3, <1>11 DEF DeltaLastPage
  <2>3. JoinedTogether'
    BY <1>11 DEF DeltaLastPage, Goto, FallBack, ClearRegs
  <2>4. FreshResult'
    BY <1>11 DEF DeltaLastPage, Goto, FallBack, ClearRegs
  <2> QED BY <2>1, <2>2, <2>3, <2>4
<1>12. ASSUME NEW p \in Procs, DeltaFails(p)
      PROVE  FreshInv'
  BY <1>12 DEF DeltaFails, Goto, FallBack, ClearRegs
<1>13. ASSUME NEW p \in Procs, FullFirstPage(p)
      PROVE  FreshInv'
  BY <1>13 DEF FullFirstPage, Goto, ActiveContractsPage
<1>14. ASSUME NEW p \in Procs, FullNextPage(p)
      PROVE  FreshInv'
  BY <1>14 DEF FullNextPage, Goto, ActiveContractsPage
<1>15. ASSUME NEW p \in Procs, FullFails(p)
      PROVE  FreshInv'
  BY <1>15 DEF FullFails, Goto, Settle, FlightInv, AwaitsAlive
<1>16. ASSUME NEW p \in Procs, WriteSnapshot(p)
      PROVE  FreshInv'
  BY <1>16 DEF WriteSnapshot, Goto, Settle, FlightInv, AwaitsAlive
<1>17. ASSUME NEW p \in Procs, StoreFails(p)
      PROVE  FreshInv'
  BY <1>17 DEF StoreFails, Goto, Settle, FallBack, ClearRegs, FlightInv, AwaitsAlive
<1>18. ASSUME NEW p \in Procs, ClearInflight(p)
      PROVE  FreshInv'
  <2>0. \A q \in Procs : awaiting[q] # p
    <3>1. ~Running(p)
      BY <1>18 DEF ClearInflight, Running
    <3> QED BY <3>1, NotAwaited
  <2>1. StartsReached'
    BY <1>18 DEF ClearInflight, Goto, Return, ClearRegs
  <2>2. WorkIsFresh'
    BY <1>18 DEF ClearInflight, Goto, Return, ClearRegs
  <2>3. JoinedTogether'
    BY <2>0, <1>18 DEF ClearInflight, Goto, Return, ClearRegs
  <2>4. FreshResult'
    BY <1>18 DEF ClearInflight, Goto, Return, ClearRegs
  <2> QED BY <2>1, <2>2, <2>3, <2>4
<1>19. ASSUME NEW p \in Procs, ReturnJoined(p)
      PROVE  FreshInv'
  <2>0. \A q \in Procs : awaiting[q] # p
    <3>1. ~Running(p)
      BY <1>19 DEF ReturnJoined, Running
    <3> QED BY <3>1, NotAwaited
  <2>1. StartsReached'
    BY <1>19 DEF ReturnJoined, Goto, Return
  <2>2. WorkIsFresh'
    BY <1>19 DEF ReturnJoined, Goto, Return
  <2>3. JoinedTogether'
    BY <2>0, <1>19 DEF ReturnJoined, Goto, Return
  <2>4. FreshResult'
    BY <1>19 DEF ReturnJoined, Goto, Return
  <2> QED BY <2>1, <2>2, <2>3, <2>4
<1>20. ASSUME NEW p \in Procs, ReturnRead(p)
      PROVE  FreshInv'
  <2>0. \A q \in Procs : awaiting[q] # p
    <3>1. ~Running(p)
      BY <1>20 DEF ReturnRead, Running
    <3> QED BY <3>1, NotAwaited
  <2>1. StartsReached'
    BY <1>20 DEF ReturnRead, Goto, Return, ClearRegs
  <2>2. WorkIsFresh'
    BY <1>20 DEF ReturnRead, Goto, Return, ClearRegs
  <2>3. JoinedTogether'
    BY <2>0, <1>20 DEF ReturnRead, Goto, Return, ClearRegs
  <2>4. FreshResult'
    BY <1>20 DEF ReturnRead, Goto, Return, ClearRegs
  <2> QED BY <2>1, <2>2, <2>3, <2>4
<1>21. ASSUME NEW p \in Procs, DeleteEntry(p)
      PROVE  FreshInv'
  <2>0. \A q \in Procs : awaiting[q] # p
    <3>1. ~Running(p)
      BY <1>21 DEF DeleteEntry, Running
    <3> QED BY <3>1, NotAwaited
  <2>1. StartsReached'
    BY <1>21 DEF DeleteEntry, Goto, Return
  <2>2. WorkIsFresh'
    BY <1>21 DEF DeleteEntry, Goto, Return
  <2>3. JoinedTogether'
    BY <2>0, <1>21 DEF DeleteEntry, Goto, Return
  <2>4. FreshResult'
    BY <1>21 DEF DeleteEntry, Goto, Return
  <2> QED BY <2>1, <2>2, <2>3, <2>4
<1>22. CASE UNCHANGED vars
  BY <1>22 DEF vars
<1> QED
  BY <1>1, <1>2, <1>3, <1>4, <1>5, <1>6, <1>7, <1>8, <1>9, <1>10, <1>11, <1>12, <1>13, <1>14, <1>15, <1>16, <1>17, <1>18, <1>19, <1>20, <1>21, <1>22 DEF Next, Call, Progress

LEMMA Fresh == Spec => []FreshInv
<1>1. Init => FreshInv
  BY DEF Init, LedgerInit, FreshInv, StartsReached, WorkIsFresh, JoinedTogether, FreshResult, Resolved, WritePCs
<1>2. TypeOK /\ BasePresent /\ RowsInv /\ FlightInv /\ FreshInv /\ [Next]_vars => FreshInv'
  BY FreshStep
<1> QED BY <1>1, <1>2, Typing, Rows, Flight, PTL DEF Spec

(* The snapshot cacheContracts resolves to includes everything the ledger  *)
(* held when its populate began, on every path: noop, delta, download, and *)
(* for every caller that joined.                                           *)
THEOREM ResultsAreFresh == Spec => []FreshResult
<1>1. FreshInv => FreshResult
  BY DEF FreshInv
<1> QED BY <1>1, Fresh, PTL

-----------------------------------------------------------------------------
(***************************************************************************)
(* Invalidation, when all callers use one GrpcContractCache.  A completed  *)
(* invalidation is a lower bound for whatever a populate may still write:  *)
(* the invalidation waited for the populate that was under way, and every  *)
(* other one began after it.                                               *)
(***************************************************************************)

OneInstance == \A p, q \in Procs : CacheOf[p] = CacheOf[q]

\* A populate under way began after every completed invalidation.
PopulatesAfterFloor == \A f \in Procs : Running(f) => floor <= startEnd[f]

\* An invalidation waits for the populate under way or began before it.
WaitsOrBefore ==
  \A p, f \in Procs :
    pc[p] = "invalidate" /\ Running(f) => awaiting[p] = f \/ startEnd[p] <= startEnd[f]

\* The stored snapshot is older than a populate under way.
EntryBeforePopulates ==
  \A f \in Procs : entry # NoEntry /\ Running(f) => entry.at <= startEnd[f]

OrderInv ==
  /\ floor <= ledgerEnd
  /\ InvalidationHolds
  /\ PopulatesAfterFloor
  /\ WaitsOrBefore
  /\ EntryBeforePopulates

\* A populate moves on: p goes from one await of it to another and leaves the
\* ledger, the stored snapshot, the waiting callers and the floor alone.
LEMMA MovesOn ==
  ASSUME OrderInv, TypeOK, NEW p \in Procs, Running(p), NEW label \in RunningPCs, Goto(p, label),
         UNCHANGED <<ledgerEnd, entry, floor, startEnd, awaiting>>
  PROVE  OrderInv'
<1>1. /\ \A q \in Procs : Running(q)' => Running(q)
      /\ \A q \in Procs : pc'[q] = "invalidate" => pc[q] = "invalidate"
  BY DEF Goto, TypeOK, Running, RunningPCs, DeltaPCs, FullPCs, WritePCs
<1>2. floor' <= ledgerEnd' /\ InvalidationHolds'
  BY DEF OrderInv, InvalidationHolds
<1>3. PopulatesAfterFloor'
  BY <1>1 DEF OrderInv, PopulatesAfterFloor
<1>4. WaitsOrBefore'
  BY <1>1 DEF OrderInv, WaitsOrBefore
<1>5. EntryBeforePopulates'
  BY <1>1 DEF OrderInv, EntryBeforePopulates
<1> QED BY <1>2, <1>3, <1>4, <1>5 DEF OrderInv

LEMMA OrderStep ==
  ASSUME OneInstance, TypeOK, RowsInv, FlightInv, FreshInv, OrderInv, [Next]_vars
  PROVE  OrderInv'
<1> USE CacheAssumption DEF OrderInv, InvalidationHolds, PopulatesAfterFloor, WaitsOrBefore, EntryBeforePopulates, Running,
      TypeOK, LedgerTypeOK, Maybe, Snapshot, Draft, ledgerVars, storeVars, callVars, regs, DeltaPCs, FullPCs, WritePCs, RunningPCs, OtherPCs
<1>1. CASE Environment
  <2>1. ledgerEnd <= ledgerEnd' /\ ledgerEnd' \in Nat
    BY <1>1, LedgerStable DEF Environment, Tick, RowsInv
  <2> QED BY <1>1, <2>1 DEF Environment, Tick
<1>2. ASSUME NEW p \in Procs, StartPopulate(p)
      PROVE  OrderInv'
  BY <1>2 DEF StartPopulate, Goto, FreshInv, StartsReached, RowsInv, EntryInv, GoodSnapshot, AgreesUpToMoves
<1>3. ASSUME NEW p \in Procs, JoinPopulate(p)
      PROVE  OrderInv'
  BY <1>3 DEF JoinPopulate, Goto
<1>4. ASSUME NEW p \in Procs, ReadEntry(p)
      PROVE  OrderInv'
  BY <1>4 DEF ReadEntry, Goto, DropExpired, StoreGet
<1>5. ASSUME NEW p \in Procs, InspectEntry(p)
      PROVE  OrderInv'
  BY <1>5 DEF InspectEntry, DropExpired, StoreGet
<1>6. ASSUME NEW p \in Procs, StartInvalidate(p)
      PROVE  OrderInv'
  <2>1. \A f \in Procs : Running(f) => inflight[CacheOf[p]] = f /\ f # NoPromise
    BY <1>6 DEF StartInvalidate, FlightInv, Registered, OneInstance
  <2> QED BY <2>1, <1>6 DEF StartInvalidate, Goto
<1>7. ASSUME NEW p \in Procs, ReadBase(p)
      PROVE  OrderInv'
  BY <1>7 DEF ReadBase, Goto, DropExpired, StoreGet
<1>8. ASSUME NEW p \in Procs, ReadPruned(p)
      PROVE  OrderInv'
  <2>1. Running(p) /\ UNCHANGED <<ledgerEnd, entry, floor, startEnd, awaiting>>
    BY <1>8 DEF ReadPruned
  <2>2. \E label \in RunningPCs : Goto(p, label)
    BY <1>8 DEF ReadPruned
  <2> QED BY <2>1, <2>2, MovesOn
<1>9. ASSUME NEW p \in Procs, ReadEnd(p)
      PROVE  OrderInv'
  <2>1. Running(p) /\ UNCHANGED <<ledgerEnd, entry, floor, startEnd, awaiting>>
    BY <1>9 DEF ReadEnd
  <2>2. \E label \in RunningPCs : Goto(p, label)
    BY <1>9 DEF ReadEnd, FallBack
  <2> QED BY <2>1, <2>2, MovesOn
<1>10. ASSUME NEW p \in Procs, DeltaPage(p)
      PROVE  OrderInv'
  <2>1. Running(p) /\ UNCHANGED <<ledgerEnd, entry, floor, startEnd, awaiting>>
    BY <1>10 DEF DeltaPage
  <2>2. \E label \in RunningPCs : Goto(p, label)
    BY <1>10 DEF DeltaPage, FallBack, Goto
  <2> QED BY <2>1, <2>2, MovesOn
<1>11. ASSUME NEW p \in Procs, DeltaLastPage(p)
      PROVE  OrderInv'
  <2>1. Running(p) /\ UNCHANGED <<ledgerEnd, entry, floor, startEnd, awaiting>>
    BY <1>11 DEF DeltaLastPage
  <2>2. \E label \in RunningPCs : Goto(p, label)
    BY <1>11 DEF DeltaLastPage, FallBack
  <2> QED BY <2>1, <2>2, MovesOn
<1>12. ASSUME NEW p \in Procs, DeltaFails(p)
      PROVE  OrderInv'
  <2>1. Running(p) /\ UNCHANGED <<ledgerEnd, entry, floor, startEnd, awaiting>>
    BY <1>12 DEF DeltaFails
  <2>2. \E label \in RunningPCs : Goto(p, label)
    BY <1>12 DEF DeltaFails, FallBack
  <2> QED BY <2>1, <2>2, MovesOn
<1>13. ASSUME NEW p \in Procs, FullFirstPage(p)
      PROVE  OrderInv'
  <2>1. Running(p) /\ UNCHANGED <<ledgerEnd, entry, floor, startEnd, awaiting>>
    BY <1>13 DEF FullFirstPage
  <2>2. \E label \in RunningPCs : Goto(p, label)
    BY <1>13 DEF FullFirstPage, ActiveContractsPage
  <2> QED BY <2>1, <2>2, MovesOn
<1>14. ASSUME NEW p \in Procs, FullNextPage(p)
      PROVE  OrderInv'
  <2>1. Running(p) /\ UNCHANGED <<ledgerEnd, entry, floor, startEnd, awaiting>>
    BY <1>14 DEF FullNextPage
  <2>2. \E label \in RunningPCs : Goto(p, label)
    BY <1>14 DEF FullNextPage, ActiveContractsPage
  <2> QED BY <2>1, <2>2, MovesOn
<1>15. ASSUME NEW p \in Procs, FullFails(p)
      PROVE  OrderInv'
  BY <1>15 DEF FullFails, Goto, Settle
<1>16. ASSUME NEW p \in Procs, WriteSnapshot(p)
      PROVE  OrderInv'
  <2>1. \A f \in Procs : Running(f) => f = p
    BY <1>16 DEF WriteSnapshot, FlightInv, Registered, OneInstance
  <2>2. startEnd[p] <= draft[p].at
    BY <1>16 DEF WriteSnapshot, FreshInv, WorkIsFresh
  <2> QED BY <2>1, <2>2, <1>16 DEF WriteSnapshot, Goto, Settle, StoreSet
<1>17. ASSUME NEW p \in Procs, StoreFails(p)
      PROVE  OrderInv'
  <2>0. UNCHANGED <<ledgerVars, storeVars, inflight, startEnd, floor>> /\ Running(p)
    BY <1>17 DEF StoreFails
  <2>1. CASE FallBack(p) /\ UNCHANGED <<awaiting, result>>
    BY <2>0, <2>1 DEF FallBack, Goto
  <2>2. CASE Settle(p, Error) /\ UNCHANGED regs
    BY <2>0, <2>2 DEF Settle, Goto
  <2> QED BY <2>1, <2>2, <1>17 DEF StoreFails
<1>18. ASSUME NEW p \in Procs, ClearInflight(p)
      PROVE  OrderInv'
  BY <1>18 DEF ClearInflight, Goto, Return, ClearRegs
<1>19. ASSUME NEW p \in Procs, ReturnJoined(p)
      PROVE  OrderInv'
  BY <1>19 DEF ReturnJoined, Goto, Return
<1>20. ASSUME NEW p \in Procs, ReturnRead(p)
      PROVE  OrderInv'
  BY <1>20 DEF ReturnRead, Goto, Return, ClearRegs
<1>21. ASSUME NEW p \in Procs, DeleteEntry(p)
      PROVE  OrderInv'
  BY <1>21 DEF DeleteEntry, Goto, Return, StoreDelete, FreshInv, StartsReached
<1>22. CASE UNCHANGED vars
  BY <1>22 DEF vars
<1> QED
  BY <1>1, <1>2, <1>3, <1>4, <1>5, <1>6, <1>7, <1>8, <1>9, <1>10, <1>11, <1>12, <1>13, <1>14, <1>15, <1>16, <1>17, <1>18, <1>19, <1>20, <1>21, <1>22 DEF Next, Call, Progress

LEMMA Order ==
  ASSUME OneInstance
  PROVE  Spec => []OrderInv
<1>1. Init => OrderInv
  BY DEF Init, LedgerInit, StoreInit, OrderInv, InvalidationHolds, PopulatesAfterFloor, WaitsOrBefore, EntryBeforePopulates,
     Running, RunningPCs, DeltaPCs, FullPCs, WritePCs
<1>2. TypeOK /\ RowsInv /\ FlightInv /\ FreshInv /\ OrderInv /\ [Next]_vars => OrderInv'
  BY OrderStep
<1> QED BY <1>1, <1>2, TypeCorrect, Rows, Flight, Fresh, PTL DEF Spec

(* With one GrpcContractCache, once invalidateContractsCache has resolved  *)
(* no snapshot older than the ledger was at its call is in the store again *)
(* (also when the store fails and whoever joins or refreshes meanwhile).   *)
THEOREM InvalidationsHold ==
  ASSUME OneInstance
  PROVE  Spec => []InvalidationHolds
<1>1. OrderInv => InvalidationHolds
  BY DEF OrderInv
<1> QED BY <1>1, Order, PTL

-----------------------------------------------------------------------------
(***************************************************************************)
(* Refinement.  GrpcContractCache implements ContractSnapshots: with one   *)
(* instance and a ledger without reassignments, for every value of the     *)
(* other constants.                                                        *)
(***************************************************************************)

\* A step of a call leaves the ledger alone; it keeps the stored snapshot,
\* removes it, or writes a draft.
LEMMA CallSteps ==
  ASSUME NEW p \in Procs, Call(p) \/ Progress(p)
  PROVE  /\ ledgerVars' = ledgerVars
         /\ entry' = entry \/ entry' = NoEntry \/ WriteSnapshot(p)
<1>1. CASE Call(p)
  BY <1>1 DEF Call, StartPopulate, JoinPopulate, ReadEntry, InspectEntry, StartInvalidate, DropExpired, StoreGet, storeVars
<1>2. CASE ReadBase(p) \/ ReadPruned(p) \/ ReadEnd(p)
  BY <1>2 DEF ReadBase, ReadPruned, ReadEnd, DropExpired, StoreGet, storeVars
<1>3. CASE DeltaPage(p) \/ DeltaLastPage(p) \/ DeltaFails(p)
  BY <1>3 DEF DeltaPage, DeltaLastPage, DeltaFails, storeVars
<1>4. CASE FullFirstPage(p) \/ FullNextPage(p) \/ FullFails(p)
  BY <1>4 DEF FullFirstPage, FullNextPage, FullFails, storeVars
<1>5. CASE WriteSnapshot(p)
  BY <1>5 DEF WriteSnapshot
<1>6. CASE StoreFails(p) \/ ClearInflight(p) \/ ReturnJoined(p) \/ ReturnRead(p) \/ DeleteEntry(p)
  BY <1>6 DEF StoreFails, ClearInflight, ReturnJoined, ReturnRead, DeleteEntry, StoreDelete, storeVars
<1> QED BY <1>1, <1>2, <1>3, <1>4, <1>5, <1>6 DEF Progress

\* What a populate writes is the ACS of an offset no older than the entry.
LEMMA WritesPublish ==
  ASSUME ~MultiSynchronizer, TypeOK, RowsInv, FreshInv, OrderInv, NEW p \in Procs, WriteSnapshot(p)
  PROVE  /\ draft[p].at \in 0..ledgerEnd
         /\ entry # NoEntry => draft[p].at >= entry.at
         /\ entry' = [at |-> draft[p].at, ids |-> Acs(draft[p].at), exp |-> now + TtlMs]
<1>1. pc[p] \in WritePCs /\ Running(p)
  BY DEF WriteSnapshot, Running, RunningPCs
<1>2. draft[p].at \in Nat /\ draft[p].ids \subseteq Contracts /\ ledgerEnd \in Nat /\ startEnd[p] \in Nat
  BY DEF TypeOK, Draft, LedgerTypeOK
<1>3. AgreesUpToMoves(draft[p])
  BY <1>1 DEF RowsInv, DraftInv
<1>4. \A c \in Contracts : ~Moved(c)
  BY DEF RowsInv, LedgerInv, Moved
<1>5. draft[p].ids = Acs(draft[p].at)
  BY <1>2, <1>3, <1>4 DEF AgreesUpToMoves, Acs
<1>6. startEnd[p] <= draft[p].at
  BY <1>1 DEF FreshInv, WorkIsFresh
<1>7. entry # NoEntry => entry.at \in Nat /\ entry.at <= startEnd[p]
  BY <1>1 DEF OrderInv, EntryBeforePopulates, TypeOK, Maybe, Snapshot
<1>8. draft[p].at <= ledgerEnd
  BY <1>3 DEF AgreesUpToMoves
<1>9. entry' = [at |-> draft[p].at, ids |-> draft[p].ids, exp |-> now + TtlMs]
  BY DEF WriteSnapshot, StoreSet
<1> QED BY <1>2, <1>5, <1>6, <1>7, <1>8, <1>9

\* Every step of the cache is a step of the abstract specification or none.
LEMMA StepsRefine ==
  ASSUME ~MultiSynchronizer, TypeOK, RowsInv, FreshInv, OrderInv, [Next]_vars
  PROVE  [Abstract!AbsNext]_(Abstract!absVars)
<1> USE DEF Abstract!AbsNext, Abstract!absVars, Abstract!ledgerVars, ledgerVars
<1>1. CASE LedgerNext /\ UNCHANGED <<storeVars, callVars, floor>>
  <2>1. Abstract!LedgerNext
    BY <1>1 DEF LedgerNext, CommitTransaction, Reassign, Prune, Sequence, Unborn, Acs, NotYet,
       Abstract!LedgerNext, Abstract!CommitTransaction, Abstract!Reassign, Abstract!Prune, Abstract!Sequence,
       Abstract!Unborn, Abstract!Acs, Abstract!NotYet
  <2> QED BY <1>1, <2>1 DEF Abstract!LedgerMoves, storeVars
<1>2. CASE Tick /\ UNCHANGED <<ledgerVars, callVars, floor>>
  BY <1>2 DEF Tick
<1>3. ASSUME NEW p \in Procs, Call(p) \/ Progress(p)
      PROVE  [Abstract!AbsNext]_(Abstract!absVars)
  <2>1. /\ ledgerVars' = ledgerVars
        /\ entry' = entry \/ entry' = NoEntry \/ WriteSnapshot(p)
    BY <1>3, CallSteps
  <2>2. CASE entry' = entry
    BY <2>1, <2>2
  <2>3. CASE entry' = NoEntry
    BY <2>1, <2>3 DEF Abstract!Withdraw
  <2>4. CASE WriteSnapshot(p)
    <3>1. /\ draft[p].at \in 0..ledgerEnd
          /\ entry # NoEntry => draft[p].at >= entry.at
          /\ entry' = [at |-> draft[p].at, ids |-> Acs(draft[p].at), exp |-> now + TtlMs]
      BY <2>4, WritesPublish
    <3>2. entry' # NoEntry
      BY <3>1, <2>1, CacheAssumption, StoreAssumption DEF Snapshot, TypeOK, LedgerTypeOK, Acs
    <3>3. Abstract!Acs(draft[p].at) = Acs(draft[p].at)
      BY DEF Abstract!Acs, Acs, Abstract!NotYet, NotYet
    <3>4. Abstract!Publish
      BY <2>1, <3>1, <3>2, <3>3 DEF Abstract!Publish
    <3> QED BY <3>4
  <2> QED BY <2>1, <2>2, <2>3, <2>4
<1>4. CASE UNCHANGED vars
  BY <1>4 DEF vars, storeVars
<1> QED BY <1>1, <1>2, <1>3, <1>4 DEF Next, Environment

(* One GrpcContractCache implements its promise to readers: the snapshot   *)
(* in the store is absent or the complete ACS of an offset the ledger has  *)
(* reached, and refreshes never go back, whatever its callers, the ledger, *)
(* pruning, the clock and failing requests do.                             *)
THEOREM CacheImplementsSnapshots ==
  ASSUME ~MultiSynchronizer, OneInstance
  PROVE  Spec => ImplementsSnapshots
<1>1. Init => Abstract!AbsInit
  BY DEF Init, LedgerInit, StoreInit, NotYet, Abstract!AbsInit, Abstract!LedgerInit, Abstract!NotYet
<1>2. TypeOK /\ RowsInv /\ FreshInv /\ OrderInv /\ [Next]_vars => [Abstract!AbsNext]_(Abstract!absVars)
  BY StepsRefine
<1> QED BY <1>1, <1>2, TypeCorrect, Rows, Fresh, Order, PTL DEF Spec, ImplementsSnapshots, Abstract!AbsSpec
=============================================================================
