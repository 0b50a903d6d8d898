---------------------------- MODULE ReadsProofs -----------------------------
(***************************************************************************)
(* Theorems about what is made of the participant's streams: the history   *)
(* reader, the fold of a delta window and the traversal of the active      *)
(* contracts, for any ledger, window, page and number of concurrent reads. *)
(***************************************************************************)
EXTENDS HistoryReader, DeltaFold, ActiveContractsTraversal, ParticipantProofs,
        FiniteSetTheorems

-----------------------------------------------------------------------------
(***************************************************************************)
(* The history reader: any page and update budget.                         *)
(***************************************************************************)

\* The calls that have not decided their outcome yet.
Reading == {"pruned", "page", "range"}

\* A call that reads asks for an offset the window it extends has not passed.
Ahead ==
  /\ \A r \in Readers : rpc[r] \in Reading => held[r].end <= want[r]
  /\ \A r \in Readers : rpc[r] = "page" => held[r].end <= lowest[r] /\ lowest[r] <= want[r]

\* A page's end is an offset of the range asked for.
LEMMA PageEnd ==
  ASSUME NEW l \in Nat, NEW w \in Nat, l <= w, NEW h \in Window(l, w) \cup {w}
  PROVE  h \in Nat /\ l <= h /\ h <= w
BY DEF Window

LEMMA UpdatesAreOffsets ==
  ASSUME NEW b \in Nat, NEW e \in Nat
  PROVE  UpdatesIn(b, e) \subseteq Nat
BY DEF UpdatesIn, TransactionsIn, Window

LEMMA ReaderTyping == ReaderSpec => [](HistoryTypeOK /\ Ahead)
<1>1. ReaderInit => HistoryTypeOK /\ Ahead
  BY ReaderAssumption DEF ReaderInit, LedgerInit, HistoryTypeOK, LedgerTypeOK, NotYet, LedgerBegin, HistoryWindow,
     Ahead, Reading
<1>2. HistoryTypeOK /\ Ahead /\ [ReaderNext]_historyVars => (HistoryTypeOK /\ Ahead)'
  <2> SUFFICES ASSUME HistoryTypeOK, Ahead, [ReaderNext]_historyVars
               PROVE  (HistoryTypeOK /\ Ahead)'
    OBVIOUS
  <2> USE ReaderAssumption DEF HistoryTypeOK, Ahead, Reading, ledgerVars, callRegs, Await, Answer, Reject
  <2>1. CASE LedgerNext /\ UNCHANGED <<historyCache, rpc, callRegs>>
    BY <2>1, LedgerTyping
  <2>2. ASSUME NEW r \in Readers, ReadHistory(r)
        PROVE  (HistoryTypeOK /\ Ahead)'
    <3>1. PICK end \in 0..ledgerEnd :
            /\ want' = [want EXCEPT ![r] = end]
            /\ \/ /\ Covers(end)
                  /\ Answer(r, {o \in historyCache.updates : o <= end})
                  /\ UNCHANGED held
               \/ /\ ~Covers(end)
                  /\ held' = [held EXCEPT ![r] = IF historyCache = NoWindow THEN LedgerBegin ELSE historyCache]
                  /\ Await(r, "pruned")
                  /\ UNCHANGED answer
      BY <2>2 DEF ReadHistory
    <3>2. end \in Nat
      BY <3>1 DEF LedgerTypeOK
    <3>3. CASE Covers(end)
      <4>1. {o \in historyCache.updates : o <= end} \in SUBSET Nat
        BY <3>3 DEF Covers, HistoryWindow
      <4>2. /\ rpc' = [rpc EXCEPT ![r] = "answered"] /\ UNCHANGED held
            /\ answer' \in [Readers -> SUBSET Nat]
        BY <3>1, <3>3, <4>1
      <4> QED BY <2>2, <3>1, <3>2, <4>2 DEF ReadHistory, LedgerTypeOK
    <3>4. CASE ~Covers(end)
      <4>1. /\ held'[r] \in HistoryWindow /\ held'[r].end <= end
            /\ rpc' = [rpc EXCEPT ![r] = "pruned"] /\ UNCHANGED answer
            /\ held' = [held EXCEPT ![r] = held'[r]]
        BY <3>1, <3>2, <3>4 DEF Covers, HistoryWindow, LedgerBegin
      <4> QED BY <2>2, <3>1, <3>2, <4>1 DEF ReadHistory, LedgerTypeOK
    <3> QED BY <3>3, <3>4
  <2>3. ASSUME NEW r \in Readers, CheckPruned(r)
        PROVE  (HistoryTypeOK /\ Ahead)'
    <3>1. held[r].end \in Nat
      BY DEF HistoryWindow
    <3>2. /\ rpc[r] = "pruned"
          /\ UNCHANGED <<ledgerVars, historyCache, want, held, updates, pagesRead, answer>>
          /\ \/ rpc' = [rpc EXCEPT ![r] = "rejected"] /\ UNCHANGED lowest
             \/ rpc' = [rpc EXCEPT ![r] = "page"] /\ lowest' = [lowest EXCEPT ![r] = held[r].end]
      BY <2>3 DEF CheckPruned
    <3> QED BY <3>1, <3>2 DEF LedgerTypeOK
  <2>4. ASSUME NEW r \in Readers, HistoryPage(r)
        PROVE  (HistoryTypeOK /\ Ahead)'
    <3>1. PICK h \in Window(lowest[r], want[r]) \cup {want[r]} :
            \/ /\ Reject(r)
               /\ UNCHANGED <<lowest, updates>>
            \/ /\ updates' = [updates EXCEPT ![r] = @ \cup UpdatesIn(lowest[r], h)]
               /\ lowest' = [lowest EXCEPT ![r] = h]
               /\ Await(r, IF h = want[r] THEN "range" ELSE "page")
               /\ UNCHANGED answer
      BY <2>4 DEF HistoryPage
    <3>2. h \in Nat /\ lowest[r] <= h /\ h <= want[r]
      BY <2>4, <3>1, PageEnd DEF HistoryPage
    <3>3. UpdatesIn(lowest[r], h) \subseteq Nat
      BY <3>2, UpdatesAreOffsets
    <3>4. /\ rpc[r] = "page" /\ pagesRead' = [pagesRead EXCEPT ![r] = @ + 1]
          /\ UNCHANGED <<ledgerVars, historyCache, want, held>>
      BY <2>4 DEF HistoryPage
    <3>5. held[r].end \in Nat
      BY DEF HistoryWindow
    <3> QED BY <3>1, <3>2, <3>3, <3>4, <3>5 DEF LedgerTypeOK
  <2>5. ASSUME NEW r \in Readers, TooManyPages(r)
        PROVE  (HistoryTypeOK /\ Ahead)'
    BY <2>5 DEF TooManyPages, LedgerTypeOK
  <2>6. ASSUME NEW r \in Readers, RequestFails(r)
        PROVE  (HistoryTypeOK /\ Ahead)'
    BY <2>6 DEF RequestFails, LedgerTypeOK
  <2>7. ASSUME NEW r \in Readers, FinishRange(r)
        PROVE  (HistoryTypeOK /\ Ahead)'
    BY <2>7 DEF FinishRange, HistoryWindow, LedgerTypeOK
  <2>8. ASSUME NEW r \in Readers, ReturnHistory(r)
        PROVE  (HistoryTypeOK /\ Ahead)'
    BY <2>8 DEF ReturnHistory, HistoryWindow, LedgerBegin, LedgerTypeOK
  <2>9. CASE UNCHANGED historyVars
    BY <2>9 DEF historyVars, LedgerTypeOK
  <2> QED BY <2>1, <2>2, <2>3, <2>4, <2>5, <2>6, <2>7, <2>8, <2>9 DEF ReaderNext, ReaderStep
<1> QED BY <1>1, <1>2, PTL DEF ReaderSpec

(* The type invariant: offsets stay natural numbers (lowest - 1 never      *)
(* reaches the wire), a window is an end and a set of offsets.             *)
THEOREM ReaderTypeCorrect == ReaderSpec => []HistoryTypeOK
BY ReaderTyping, PTL

-----------------------------------------------------------------------------
(***************************************************************************)
(* Completeness.  Every window (the retained one and those the calls       *)
(* extend) is the whole history up to its end, and the pages a call has    *)
(* read are all the updates from there to lowest.                          *)
(***************************************************************************)

CompleteWindow(w) == w.end <= ledgerEnd /\ w.updates = UpdatesIn(0, w.end)

CacheComplete == historyCache # NoWindow => CompleteWindow(historyCache)

HeldComplete == \A r \in Readers : CompleteWindow(held[r]) /\ want[r] <= ledgerEnd

PagesComplete ==
  \A r \in Readers :
    /\ rpc[r] \in {"idle", "pruned"} => updates[r] = {}
    /\ rpc[r] = "page" => updates[r] = UpdatesIn(held[r].end, lowest[r])
    /\ rpc[r] = "range" => updates[r] = UpdatesIn(held[r].end, want[r])

HistoryInv == LedgerInv /\ CacheComplete /\ HeldComplete /\ PagesComplete /\ HistoryComplete

\* An empty range has no updates.
LEMMA NoUpdates == \A e \in Nat : UpdatesIn(e, e) = {}
BY DEF UpdatesIn, TransactionsIn, Window

LEMMA HistoryStep ==
  ASSUME HistoryTypeOK, Ahead, HistoryInv, [ReaderNext]_historyVars
  PROVE  HistoryInv'
<1> USE ReaderAssumption DEF HistoryTypeOK, HistoryInv, CacheComplete, HeldComplete, PagesComplete, HistoryComplete,
      CompleteWindow, callRegs, Await, Answer, Reject
<1>0. /\ ledgerEnd \in Nat
      /\ \A r \in Readers : held[r].end \in Nat /\ want[r] \in Nat /\ lowest[r] \in Nat
      /\ historyCache # NoWindow => historyCache.end \in Nat
  BY DEF LedgerTypeOK, HistoryWindow
<1>1. CASE LedgerNext /\ UNCHANGED <<historyCache, rpc, callRegs>>
  <2>1. LedgerInv' /\ ledgerEnd' \in Nat /\ ledgerEnd <= ledgerEnd'
    BY <1>1, LedgerStable
  <2>2. \A b \in Nat, e \in 0..ledgerEnd : UpdatesIn(b, e)' = UpdatesIn(b, e)
    BY <1>1, UpdatesStable
  <2>3. CacheComplete' /\ HeldComplete'
    BY <1>0, <1>1, <2>1, <2>2
  <2>4. PagesComplete'
    BY <1>0, <1>1, <2>1, <2>2 DEF Ahead
  <2>5. HistoryComplete'
    BY <1>0, <1>1, <2>1, <2>2
  <2> QED BY <2>1, <2>3, <2>4, <2>5
<1>2. ASSUME NEW r \in Readers, ReadHistory(r)
      PROVE  HistoryInv'
  <2>1. PICK end \in 0..ledgerEnd :
          /\ want' = [want EXCEPT ![r] = end]
          /\ \/ /\ Covers(end)
                /\ Answer(r, {o \in historyCache.updates : o <= end})
                /\ UNCHANGED held
             \/ /\ ~Covers(end)
                /\ held' = [held EXCEPT ![r] = IF historyCache = NoWindow THEN LedgerBegin ELSE historyCache]
                /\ Await(r, "pruned")
                /\ UNCHANGED answer
    BY <1>2 DEF ReadHistory
  <2>2. UNCHANGED <<ledgerVars, historyCache, lowest, updates, pagesRead>> /\ rpc[r] = "idle"
    BY <1>2 DEF ReadHistory
  <2>3. \A b, e : UpdatesIn(b, e)' = UpdatesIn(b, e)
    BY <2>2 DEF ledgerVars, UpdatesIn, TransactionsIn
  <2>4. LedgerInv' /\ ledgerEnd' = ledgerEnd
    BY <2>2 DEF ledgerVars, LedgerInv
  <2>5. CASE Covers(end)
    <3>1. {o \in historyCache.updates : o <= end} = UpdatesIn(0, end)
      BY <1>0, <2>1, <2>5, UpdatesPrefix DEF Covers
    <3>2. /\ rpc' = [rpc EXCEPT ![r] = "answered"] /\ held' = held
          /\ answer' = [answer EXCEPT ![r] = UpdatesIn(0, end)]
          /\ want' = [want EXCEPT ![r] = end]
      BY <2>1, <2>5, <3>1
    <3>3. CacheComplete' /\ HeldComplete'
      BY <1>0, <2>2, <2>3, <2>4, <3>2
    <3>4. PagesComplete'
      BY <2>2, <2>3, <3>2
    <3>5. HistoryComplete'
      BY <2>2, <2>3, <3>2
    <3> QED BY <2>4, <3>3, <3>4, <3>5
  <2>6. CASE ~Covers(end)
    <3>1. /\ held' = [held EXCEPT ![r] = IF historyCache = NoWindow THEN LedgerBegin ELSE historyCache]
          /\ rpc' = [rpc EXCEPT ![r] = "pruned"] /\ answer' = answer
          /\ want' = [want EXCEPT ![r] = end]
      BY <2>1, <2>6
    <3>2. CompleteWindow(LedgerBegin)
      BY <1>0, NoUpdates DEF LedgerBegin
    <3>3. CacheComplete' /\ HeldComplete'
      BY <1>0, <2>2, <2>3, <2>4, <3>1, <3>2
    <3>4. PagesComplete'
      BY <2>2, <2>3, <3>1
    <3>5. HistoryComplete'
      BY <2>2, <2>3, <3>1
    <3> QED BY <2>4, <3>3, <3>4, <3>5
  <2> QED BY <2>5, <2>6
<1>3. ASSUME NEW r \in Readers, CheckPruned(r)
      PROVE  HistoryInv'
  <2>1. UpdatesIn(held[r].end, held[r].end) = {}
    BY <1>0, NoUpdates
  <2> QED BY <1>3, <2>1 DEF CheckPruned, ledgerVars, LedgerInv, UpdatesIn, TransactionsIn
<1>4. ASSUME NEW r \in Readers, HistoryPage(r)
      PROVE  HistoryInv'
  <2>1. PICK h \in Window(lowest[r], want[r]) \cup {want[r]} :
          \/ /\ Reject(r)
             /\ UNCHANGED <<lowest, updates>>
          \/ /\ updates' = [updates EXCEPT ![r] = @ \cup UpdatesIn(lowest[r], h)]
             /\ lowest' = [lowest EXCEPT ![r] = h]
             /\ Await(r, IF h = want[r] THEN "range" ELSE "page")
             /\ UNCHANGED answer
    BY <1>4 DEF HistoryPage
  <2>2. rpc[r] = "page" /\ UNCHANGED <<ledgerVars, historyCache, want, held>>
    BY <1>4 DEF HistoryPage
  <2>3. \A b, e : UpdatesIn(b, e)' = UpdatesIn(b, e)
    BY <2>2 DEF ledgerVars, UpdatesIn, TransactionsIn
  <2>4. LedgerInv' /\ ledgerEnd' = ledgerEnd
    BY <2>2 DEF ledgerVars, LedgerInv
  <2>5. h \in Nat /\ lowest[r] <= h /\ h <= want[r]
    BY <1>0, <2>1, <2>2, PageEnd DEF Ahead
  <2>6. updates[r] \cup UpdatesIn(lowest[r], h) = UpdatesIn(held[r].end, h)
    BY <1>0, <2>2, <2>5, UpdatesJoin DEF Ahead
  <2>7. CASE Reject(r) /\ UNCHANGED <<lowest, updates>>
    BY <2>2, <2>3, <2>4, <2>7
  <2>8. CASE /\ updates' = [updates EXCEPT ![r] = @ \cup UpdatesIn(lowest[r], h)]
             /\ lowest' = [lowest EXCEPT ![r] = h]
             /\ Await(r, IF h = want[r] THEN "range" ELSE "page")
             /\ UNCHANGED answer
    BY <2>2, <2>3, <2>4, <2>6, <2>8
  <2> QED BY <2>1, <2>7, <2>8
<1>5. ASSUME NEW r \in Readers, TooManyPages(r)
      PROVE  HistoryInv'
  BY <1>5 DEF TooManyPages, ledgerVars, LedgerInv, UpdatesIn, TransactionsIn
<1>6. ASSUME NEW r \in Readers, RequestFails(r)
      PROVE  HistoryInv'
  BY <1>6 DEF RequestFails, ledgerVars, LedgerInv, UpdatesIn, TransactionsIn
<1>7. ASSUME NEW r \in Readers, FinishRange(r)
      PROVE  HistoryInv'
  <2>1. rpc[r] = "range" /\ UNCHANGED <<ledgerVars, want, held, lowest, updates, pagesRead>>
    BY <1>7 DEF FinishRange
  <2>2. held[r].updates \cup updates[r] = UpdatesIn(0, want[r])
    BY <1>0, <2>1, UpdatesJoin DEF Ahead, Reading
  <2>3. \A b, e : UpdatesIn(b, e)' = UpdatesIn(b, e)
    BY <2>1 DEF ledgerVars, UpdatesIn, TransactionsIn
  <2>4. LedgerInv' /\ ledgerEnd' = ledgerEnd
    BY <2>1 DEF ledgerVars, LedgerInv
  <2>5. historyCache' \in {historyCache, [end |-> want[r], updates |-> UpdatesIn(0, want[r])]}
    BY <1>7, <2>2 DEF FinishRange
  <2>6. CacheComplete'
    BY <2>3, <2>4, <2>5
  <2>7. HistoryComplete'
    BY <1>7, <2>1, <2>2, <2>3 DEF FinishRange
  <2> QED BY <1>7, <2>1, <2>3, <2>4, <2>6, <2>7 DEF FinishRange
<1>8. ASSUME NEW r \in Readers, ReturnHistory(r)
      PROVE  HistoryInv'
  <2>1. CompleteWindow(LedgerBegin)
    BY <1>0, NoUpdates DEF LedgerBegin
  <2>2. UNCHANGED <<ledgerVars, historyCache>>
    BY <1>8 DEF ReturnHistory
  <2>3. \A b, e : UpdatesIn(b, e)' = UpdatesIn(b, e)
    BY <2>2 DEF ledgerVars, UpdatesIn, TransactionsIn
  <2>4. LedgerInv' /\ ledgerEnd' = ledgerEnd
    BY <2>2 DEF ledgerVars, LedgerInv
  <2>5. CacheComplete' /\ HeldComplete'
    BY <1>0, <1>8, <2>1, <2>3, <2>4 DEF ReturnHistory
  <2>6. PagesComplete'
    BY <1>8, <2>3 DEF ReturnHistory
  <2>7. HistoryComplete'
    BY <1>8, <2>3 DEF ReturnHistory
  <2> QED BY <2>4, <2>5, <2>6, <2>7
<1>9. CASE UNCHANGED historyVars
  BY <1>9 DEF historyVars, ledgerVars, LedgerInv, UpdatesIn, TransactionsIn
<1> QED BY <1>1, <1>2, <1>3, <1>4, <1>5, <1>6, <1>7, <1>8, <1>9 DEF ReaderNext, ReaderStep

LEMMA History == ReaderSpec => []HistoryInv
<1>1. ReaderInit => HistoryInv
  <2> SUFFICES ASSUME ReaderInit PROVE HistoryInv
    OBVIOUS
  <2>1. LedgerInv
    BY DEF ReaderInit, LedgerInit, LedgerInv, NotYet
  <2>2. ledgerEnd = 0 /\ UpdatesIn(0, 0) = {}
    BY NoUpdates DEF ReaderInit, LedgerInit
  <2>3. CompleteWindow(LedgerBegin)
    BY <2>2 DEF CompleteWindow, LedgerBegin
  <2>4. \A r \in Readers : held[r] = LedgerBegin /\ want[r] = 0
    BY DEF ReaderInit
  <2>5. CacheComplete /\ HeldComplete
    BY <2>2, <2>3, <2>4 DEF ReaderInit, CacheComplete, HeldComplete
  <2>6. PagesComplete /\ HistoryComplete
    BY DEF ReaderInit, PagesComplete, HistoryComplete
  <2> QED BY <2>1, <2>5, <2>6 DEF HistoryInv
<1>2. HistoryTypeOK /\ Ahead /\ HistoryInv /\ [ReaderNext]_historyVars => HistoryInv'
  BY HistoryStep
<1> QED BY <1>1, <1>2, ReaderTyping, PTL DEF ReaderSpec

(* A history query resolves to every visible transaction up to its offset  *)
(* or rejects, for any number of concurrent reads that share the window,   *)
(* any page split, any budget and any pruning.                             *)
THEOREM HistoriesAreComplete == ReaderSpec => []HistoryComplete
<1>1. HistoryInv => HistoryComplete
  BY DEF HistoryInv
<1> QED BY <1>1, History, PTL

(* A finishing read replaces the retained window by a longer one only.     *)
THEOREM WindowsGrow == ReaderSpec => WindowOnlyGrows
<1>1. HistoryTypeOK /\ [ReaderNext]_historyVars
        => [historyCache # NoWindow => historyCache'.end >= historyCache.end]_historyCache
  <2> SUFFICES ASSUME HistoryTypeOK, [ReaderNext]_historyVars, historyCache' # historyCache, historyCache # NoWindow
               PROVE  historyCache'.end >= historyCache.end
    OBVIOUS
  <2>1. PICK r \in Readers : FinishRange(r)
    BY DEF ReaderNext, ReaderStep, historyVars, ReadHistory, CheckPruned, HistoryPage, TooManyPages, RequestFails,
       ReturnHistory
  <2>2. historyCache'.end = want[r] /\ historyCache.end < want[r]
    BY <2>1 DEF FinishRange, Retain
  <2> QED BY <2>2 DEF HistoryTypeOK, HistoryWindow
<1> QED BY <1>1, ReaderTyping, PTL DEF ReaderSpec, WindowOnlyGrows

-----------------------------------------------------------------------------
(***************************************************************************)
(* The budget.  A call counts what it holds and what it has read together, *)
(* so what it may retain is in the budget.                                 *)
(***************************************************************************)

\* A finite set of at most MaxHistoryUpdates updates.
Affordable(u) == IsFiniteSet(u) /\ Cardinality(u) <= MaxHistoryUpdates

WindowAffordable == historyCache # NoWindow => Affordable(historyCache.updates)

ReadAffordable ==
  \A r \in Readers :
    /\ IsFiniteSet(updates[r])
    /\ IsFiniteSet(held[r].updates)
    /\ Cardinality(held[r].updates) + Cardinality(updates[r]) <= MaxHistoryUpdates

BudgetInv == WindowAffordable /\ ReadAffordable

\* A window of the stream holds finitely many updates.
LEMMA FiniteUpdates ==
  ASSUME NEW b \in Nat, NEW e \in Nat
  PROVE  IsFiniteSet(UpdatesIn(b, e))
<1>1. IsFiniteSet((b + 1)..e)
  BY FS_Interval
<1>2. UpdatesIn(b, e) \subseteq (b + 1)..e
  BY DEF UpdatesIn, TransactionsIn, Window
<1> QED BY <1>1, <1>2, FS_Subset

\* Joining two sets adds at most their sizes.
LEMMA UnionSize ==
  ASSUME NEW S, NEW T, IsFiniteSet(S), IsFiniteSet(T)
  PROVE  /\ IsFiniteSet(S \cup T)
         /\ Cardinality(S) \in Nat /\ Cardinality(T) \in Nat /\ Cardinality(S \cup T) \in Nat
         /\ Cardinality(S \cup T) <= Cardinality(S) + Cardinality(T)
<1>1. IsFiniteSet(S \cup T) /\ Cardinality(S \cup T) = Cardinality(S) + Cardinality(T) - Cardinality(S \cap T)
  BY FS_Union
<1>2. IsFiniteSet(S \cap T)
  BY FS_Subset
<1>3. /\ Cardinality(S) \in Nat /\ Cardinality(T) \in Nat
      /\ Cardinality(S \cap T) \in Nat /\ Cardinality(S \cup T) \in Nat
  BY <1>1, <1>2, FS_CardinalityType
<1> QED BY <1>1, <1>3

LEMMA BudgetStep ==
  ASSUME HistoryTypeOK, Ahead, HistoryInv, BudgetInv, [ReaderNext]_historyVars
  PROVE  BudgetInv'
<1> USE ReaderAssumption DEF HistoryTypeOK, BudgetInv, WindowAffordable, ReadAffordable, Affordable, callRegs
<1>0. IsFiniteSet({}) /\ Cardinality({}) = 0
  BY FS_EmptySet
<1>1. CASE LedgerNext /\ UNCHANGED <<historyCache, rpc, callRegs>>
  BY <1>1
<1>2. ASSUME NEW r \in Readers, ReadHistory(r)
      PROVE  BudgetInv'
  <2>1. /\ UNCHANGED <<historyCache, updates>>
        /\ \/ UNCHANGED held
           \/ held' = [held EXCEPT ![r] = IF historyCache = NoWindow THEN LedgerBegin ELSE historyCache]
    BY <1>2 DEF ReadHistory
  <2>2. updates[r] = {}
    BY <1>2 DEF ReadHistory, HistoryInv, PagesComplete
  <2>3. Affordable(LedgerBegin.updates)
    BY <1>0 DEF LedgerBegin
  <2>4. ASSUME NEW w, Affordable(w.updates), held' = [held EXCEPT ![r] = w]
        PROVE  BudgetInv'
    <3>1. Cardinality(w.updates) \in Nat
      BY <2>4, FS_CardinalityType
    <3>2. held'[r] = w /\ updates'[r] = {} /\ \A q \in Readers \ {r} : held'[q] = held[q] /\ updates'[q] = updates[q]
      BY <2>1, <2>2, <2>4
    <3>3. Cardinality(w.updates) + Cardinality({}) <= MaxHistoryUpdates
      BY <1>0, <2>4, <3>1
    <3>4. ReadAffordable'
      BY <1>0, <2>4, <3>2, <3>3
    <3> QED BY <2>1, <3>4
  <2>5. CASE UNCHANGED held
    BY <2>1, <2>5
  <2> QED BY <2>1, <2>3, <2>4, <2>5
<1>3. ASSUME NEW r \in Readers, CheckPruned(r)
      PROVE  BudgetInv'
  BY <1>3 DEF CheckPruned
<1>4. ASSUME NEW r \in Readers, HistoryPage(r)
      PROVE  BudgetInv'
  <2>1. PICK h \in Window(lowest[r], want[r]) \cup {want[r]} :
          \/ UNCHANGED <<lowest, updates>>
          \/ /\ RoomFor(r, UpdatesIn(lowest[r], h))
             /\ updates' = [updates EXCEPT ![r] = @ \cup UpdatesIn(lowest[r], h)]
    BY <1>4 DEF HistoryPage
  <2>2. UNCHANGED <<historyCache, held>> /\ lowest[r] <= want[r]
    BY <1>4 DEF HistoryPage, Ahead
  <2>3. h \in Nat
    BY <2>1, <2>2, PageEnd
  <2> DEFINE page == UpdatesIn(lowest[r], h)
  <2>4. IsFiniteSet(page)
    BY <2>3, FiniteUpdates
  <2> HIDE DEF page
  <2>5. CASE UNCHANGED updates
    BY <2>2, <2>5
  <2>6. CASE RoomFor(r, page) /\ updates' = [updates EXCEPT ![r] = @ \cup page]
    <3>1. /\ IsFiniteSet(updates[r] \cup page)
          /\ Cardinality(updates[r]) \in Nat /\ Cardinality(page) \in Nat
          /\ Cardinality(updates[r] \cup page) \in Nat
          /\ Cardinality(updates[r] \cup page) <= Cardinality(updates[r]) + Cardinality(page)
      BY <2>4, UnionSize
    <3>2. Cardinality(held[r].updates) \in Nat
      BY FS_CardinalityType
    <3>3. Cardinality(held[r].updates) + Cardinality(updates[r] \cup page) <= MaxHistoryUpdates
      BY <2>6, <3>1, <3>2 DEF RoomFor
    <3> QED BY <2>2, <2>6, <3>1, <3>3
  <2> QED BY <2>1, <2>5, <2>6 DEF page
<1>5. ASSUME NEW r \in Readers, TooManyPages(r)
      PROVE  BudgetInv'
  BY <1>5 DEF TooManyPages
<1>6. ASSUME NEW r \in Readers, RequestFails(r)
      PROVE  BudgetInv'
  BY <1>6 DEF RequestFails
<1>7. ASSUME NEW r \in Readers, FinishRange(r)
      PROVE  BudgetInv'
  <2>1. Affordable(held[r].updates \cup updates[r])
    <3>1. /\ IsFiniteSet(held[r].updates) /\ IsFiniteSet(updates[r])
          /\ Cardinality(held[r].updates) + Cardinality(updates[r]) <= MaxHistoryUpdates
      BY DEF ReadAffordable
    <3> DEFINE S == held[r].updates
               T == updates[r]
    <3>2. /\ IsFiniteSet(S \cup T)
          /\ Cardinality(S) \in Nat /\ Cardinality(T) \in Nat /\ Cardinality(S \cup T) \in Nat
          /\ Cardinality(S \cup T) <= Cardinality(S) + Cardinality(T)
      BY <3>1, UnionSize
    <3> QED BY <3>1, <3>2
  <2>2. /\ historyCache' \in {historyCache, [end |-> want[r], updates |-> held[r].updates \cup updates[r]]}
        /\ UNCHANGED <<held, updates>>
    BY <1>7 DEF FinishRange
  <2>3. ReadAffordable'
    BY <2>2
  <2>4. WindowAffordable'
    <3>1. CASE historyCache' = historyCache
      BY <3>1
    <3>2. CASE historyCache' = [end |-> want[r], updates |-> held[r].updates \cup updates[r]]
      <4>1. historyCache'.updates = held[r].updates \cup updates[r]
        BY <3>2
      <4>2. Affordable(historyCache'.updates)
        BY <2>1, <4>1
      <4> QED BY <4>2
    <3> QED BY <2>2, <3>1, <3>2
  <2> QED BY <2>3, <2>4
<1>8. ASSUME NEW r \in Readers, ReturnHistory(r)
      PROVE  BudgetInv'
  BY <1>0, <1>8 DEF ReturnHistory, LedgerBegin
<1>9. CASE UNCHANGED historyVars
  BY <1>9 DEF historyVars
<1> QED BY <1>1, <1>2, <1>3, <1>4, <1>5, <1>6, <1>7, <1>8, <1>9 DEF ReaderNext, ReaderStep

(* However many reads extend it, and in whatever order they finish, the    *)
(* retained window stays in the budget of a single read.                   *)
THEOREM WindowsStayInBudget == ReaderSpec => []WindowInBudget
<1>1. ReaderInit => BudgetInv
  BY FS_EmptySet, ReaderAssumption
     DEF ReaderInit, BudgetInv, WindowAffordable, ReadAffordable, Affordable, LedgerBegin
<1>2. HistoryTypeOK /\ Ahead /\ HistoryInv /\ BudgetInv /\ [ReaderNext]_historyVars => BudgetInv'
  BY BudgetStep
<1>3. BudgetInv => WindowInBudget
  BY DEF BudgetInv, WindowAffordable, Affordable, WindowInBudget
<1> QED BY <1>1, <1>2, <1>3, ReaderTyping, History, PTL DEF ReaderSpec

-----------------------------------------------------------------------------
(***************************************************************************)
(* The fold of the delta refresh: any set of contract ids, windows of any  *)
(* length.                                                                 *)
(***************************************************************************)

LEMMA WindowsAreSequences == Windows \subseteq Seq(Entry)
BY FoldAssumption DEF Windows

\* The loop's collections, position and verdict keep their types, for any
\* base and window (grpc-contract-cache.ts, lines 248 to 269).
THEOREM FoldTyping == FoldSpec => []FoldTypeOK
<1>1. FoldInit => FoldTypeOK
  BY WindowsAreSequences DEF FoldInit, FoldTypeOK
<1>2. FoldTypeOK /\ [FoldNext]_foldVars => FoldTypeOK'
  <2> SUFFICES ASSUME FoldTypeOK, [FoldNext]_foldVars
               PROVE  FoldTypeOK'
    OBVIOUS
  <2> USE DEF FoldTypeOK
  <2>1. ASSUME More
        PROVE  Current \in Entry /\ Current.id \in Ids /\ i + 1 \in 0..Len(entries)
    <3>1. i + 1 \in 1..Len(entries)
      BY <2>1 DEF More
    <3>2. Current \in Entry
      BY <3>1 DEF Current
    <3> QED BY <3>1, <3>2 DEF Entry
  <2>2. CASE FoldCreated
    BY <2>1, <2>2 DEF FoldCreated, Advance
  <2>3. CASE FoldArchivedAdd
    BY <2>1, <2>3 DEF FoldArchivedAdd, Advance
  <2>4. CASE FoldArchivedBase
    BY <2>1, <2>4 DEF FoldArchivedBase, Advance
  <2>5. CASE Refuse \/ FinishFold
    BY <2>5 DEF Refuse, FinishFold
  <2>6. CASE UNCHANGED foldVars
    BY <2>6 DEF foldVars
  <2> QED BY <2>2, <2>3, <2>4, <2>5, <2>6 DEF FoldNext
<1> QED BY <1>1, <1>2, PTL DEF FoldSpec

\* What the loop's guards keep true of its two collections.
FoldInv ==
  /\ adds \cap baseIds = {}
  /\ removes \subseteq baseIds
  /\ PatchIsReplay

(* Whatever the participant sent, the rows of a fold that was not refused  *)
(* are those of a plain replay: removes and adds never hide a              *)
(* contradiction between the window and the base.                          *)
THEOREM FoldIsReplay == FoldSpec => []PatchIsReplay
<1>1. FoldInit => FoldInv
  BY DEF FoldInit, FoldInv, PatchIsReplay, Rows
<1>2. FoldInv /\ [FoldNext]_foldVars => FoldInv'
  <2> SUFFICES ASSUME FoldInv, [FoldNext]_foldVars
               PROVE  FoldInv'
    OBVIOUS
  <2> USE DEF FoldInv, PatchIsReplay, Rows
  <2>1. CASE FoldCreated
    BY <2>1 DEF FoldCreated, Advance, More
  <2>2. CASE FoldArchivedAdd
    BY <2>2 DEF FoldArchivedAdd, Advance, More
  <2>3. CASE FoldArchivedBase
    BY <2>3 DEF FoldArchivedBase, Advance, More
  <2>4. CASE Refuse
    BY <2>4 DEF Refuse
  <2>5. CASE FinishFold
    BY <2>5 DEF FinishFold
  <2>6. CASE UNCHANGED foldVars
    BY <2>6 DEF foldVars
  <2> QED BY <2>1, <2>2, <2>3, <2>4, <2>5, <2>6 DEF FoldNext
<1>3. FoldInv => PatchIsReplay
  BY DEF FoldInv
<1> QED BY <1>1, <1>2, <1>3, PTL DEF FoldSpec

-----------------------------------------------------------------------------
(***************************************************************************)
(* The sets the loop computes on a window a ledger can produce.            *)
(***************************************************************************)

\* Ids with an entry of this kind among the entries folded so far.
Seen(kind) == {id \in Ids : \E n \in 1..i : entries[n] = [kind |-> kind, id |-> id]}

SetsInv ==
  LedgerLike =>
    /\ verdict # "refused" =>
         /\ adds = Seen("created") \ Seen("archived")
         /\ removes = Seen("archived") \cap baseIds
         /\ Seen("created") \cap baseIds = {}
         /\ Seen("archived") \subseteq baseIds \cup Seen("created")
    /\ verdict = "refused" => Inconsistent(baseIds, Named("created"), Named("archived"))
    /\ verdict = "patched" => i = Len(entries)

\* Folding one more entry adds its id to what was seen of its kind.
LEMMA SeenAdvance ==
  ASSUME FoldTypeOK, More, i' = i + 1, entries' = entries
  PROVE  \E k \in {"created", "archived"}, c \in Ids :
           /\ Current = [kind |-> k, id |-> c]
           /\ \A n \in 1..i : n # i + 1 /\ n \in DOMAIN entries
           /\ i + 1 \in DOMAIN entries
           /\ Seen(k)' = Seen(k) \cup {c}
           /\ \A other \in {"created", "archived"} : other # k => Seen(other)' = Seen(other)
<1>1. i + 1 \in 1..Len(entries) /\ DOMAIN entries = 1..Len(entries) /\ i \in Nat /\ Len(entries) \in Nat
  BY DEF FoldTypeOK, More
<1>2. Current \in Entry
  BY <1>1 DEF FoldTypeOK, Current
<1>3. PICK k \in {"created", "archived"}, c \in Ids : Current = [kind |-> k, id |-> c]
  BY <1>2 DEF Entry
<1>4. \A n : n \in 1..(i + 1) <=> n \in 1..i \/ n = i + 1
  BY <1>1
<1>5. Seen(k)' = Seen(k) \cup {c}
  BY <1>3, <1>4 DEF Seen, Current
<1>6. ASSUME NEW other \in {"created", "archived"}, other # k
      PROVE  Seen(other)' = Seen(other)
  BY <1>3, <1>4, <1>6 DEF Seen, Current
<1>7. \A n \in 1..i : n # i + 1 /\ n \in DOMAIN entries
  BY <1>1
<1> QED BY <1>1, <1>3, <1>5, <1>6, <1>7

\* On a ledger's window the entry at hand is the first of its kind for its id,
\* a creation comes before the archival, an archival after the creation.
LEMMA FirstOfItsKind ==
  ASSUME FoldTypeOK, More, LedgerLike,
         NEW k \in {"created", "archived"}, NEW c \in Ids, Current = [kind |-> k, id |-> c]
  PROVE  /\ c \notin Seen(k)
         /\ k = "created" => c \notin Seen("archived")
         /\ k = "archived" /\ c \in Named("created") => c \in Seen("created")
         /\ c \in Named(k)
<1>1. i + 1 \in DOMAIN entries /\ DOMAIN entries = 1..Len(entries) /\ i \in Nat /\ Len(entries) \in Nat
  BY DEF FoldTypeOK, More
<1>2. i + 1 \in At(k, c)
  BY <1>1 DEF At, Current
<1>3. \A n \in 1..i : n \in DOMAIN entries /\ n < i + 1
  BY <1>1
<1>4. c \notin Seen(k)
  BY <1>2, <1>3 DEF Seen, At, LedgerLike
<1>5. k = "created" => c \notin Seen("archived")
  <2> SUFFICES ASSUME k = "created", c \in Seen("archived") PROVE FALSE
    OBVIOUS
  <2>1. PICK n \in 1..i : n \in At("archived", c)
    BY <1>3 DEF Seen, At
  <2>2. i + 1 < n
    BY <1>2, <2>1 DEF LedgerLike
  <2> QED BY <1>1, <2>2
<1>6. k = "archived" /\ c \in Named("created") => c \in Seen("created")
  <2> SUFFICES ASSUME k = "archived", c \in Named("created") PROVE c \in Seen("created")
    OBVIOUS
  <2>1. PICK m \in DOMAIN entries : m \in At("created", c)
    BY DEF Named, At
  <2>2. m < i + 1
    BY <1>2, <2>1 DEF LedgerLike
  <2>3. m \in 1..i
    BY <1>1, <2>1, <2>2
  <2> QED BY <2>1, <2>3 DEF Seen, At
<1>7. c \in Named(k)
  BY <1>2 DEF Named
<1> QED BY <1>4, <1>5, <1>6, <1>7

\* A step that leaves the window alone leaves what is said about it alone.
LEMMA SameWindow ==
  ASSUME UNCHANGED <<baseIds, entries, i>>
  PROVE  /\ LedgerLike' <=> LedgerLike
         /\ \A kind \in {"created", "archived"} : Seen(kind)' = Seen(kind) /\ Named(kind)' = Named(kind)
         /\ Inconsistent(baseIds, Named("created"), Named("archived"))'
              <=> Inconsistent(baseIds, Named("created"), Named("archived"))
<1>1. \A kind \in {"created", "archived"}, id \in Ids : At(kind, id)' = At(kind, id)
  BY DEF At
<1>2. LedgerLike' <=> LedgerLike
  BY <1>1 DEF LedgerLike
<1>3. \A kind \in {"created", "archived"} : Seen(kind)' = Seen(kind) /\ Named(kind)' = Named(kind)
  BY <1>1 DEF Seen, Named
<1> QED BY <1>2, <1>3 DEF Inconsistent

LEMMA SetsStep ==
  ASSUME FoldTypeOK, SetsInv, [FoldNext]_foldVars
  PROVE  SetsInv'
<1>1. CASE More /\ Advance /\ ~Refuse
  <2> SUFFICES ASSUME LedgerLike PROVE SetsInv'
    BY <1>1 DEF SetsInv, LedgerLike, At, Advance
  <2>1. PICK k \in {"created", "archived"}, c \in Ids :
           /\ Current = [kind |-> k, id |-> c]
           /\ Seen(k)' = Seen(k) \cup {c}
           /\ \A other \in {"created", "archived"} : other # k => Seen(other)' = Seen(other)
    BY <1>1, SeenAdvance DEF Advance
  <2>2. /\ c \notin Seen(k)
        /\ k = "created" => c \notin Seen("archived")
    BY <1>1, <2>1, FirstOfItsKind
  <2>3. /\ verdict = "folding" /\ verdict' = "folding" /\ baseIds' = baseIds
        /\ adds = Seen("created") \ Seen("archived")
        /\ removes = Seen("archived") \cap baseIds
        /\ Seen("created") \cap baseIds = {}
        /\ Seen("archived") \subseteq baseIds \cup Seen("created")
    BY <1>1 DEF More, Advance, SetsInv
  <2>4. CASE FoldCreated
    <3>1. k = "created" /\ c \notin baseIds /\ adds' = adds \cup {c} /\ removes' = removes
      BY <2>1, <2>4 DEF FoldCreated
    <3> QED BY <2>1, <2>2, <2>3, <3>1 DEF SetsInv
  <2>5. CASE FoldArchivedAdd
    <3>1. k = "archived" /\ c \in adds /\ adds' = adds \ {c} /\ removes' = removes
      BY <2>1, <2>5 DEF FoldArchivedAdd
    <3> QED BY <2>1, <2>2, <2>3, <3>1 DEF SetsInv
  <2>6. CASE FoldArchivedBase
    <3>1. k = "archived" /\ c \in baseIds /\ adds' = adds /\ removes' = removes \cup {c}
      BY <2>1, <2>6 DEF FoldArchivedBase
    <3> QED BY <2>1, <2>2, <2>3, <3>1 DEF SetsInv
  <2>7. verdict' = verdict
    BY <2>3
  <2> QED BY <1>1, <2>3, <2>4, <2>5, <2>6 DEF FoldNext, FinishFold, foldVars, Advance, FoldTypeOK
<1>2. CASE Refuse
  <2> SUFFICES ASSUME LedgerLike PROVE Inconsistent(baseIds, Named("created"), Named("archived"))
    BY <1>2, SameWindow DEF SetsInv, Refuse
  <2>0. More /\ i + 1 \in 1..Len(entries)
    BY <1>2 DEF Refuse, More, FoldTypeOK
  <2>1. More /\ Current \in Entry
    BY <2>0 DEF Current, FoldTypeOK
  <2>2. PICK k \in {"created", "archived"}, c \in Ids : Current = [kind |-> k, id |-> c]
    BY <2>1 DEF Entry
  <2>3. /\ c \notin Seen(k)
        /\ k = "created" => c \notin Seen("archived")
        /\ k = "archived" /\ c \in Named("created") => c \in Seen("created")
        /\ c \in Named(k)
    BY <2>1, <2>2, FirstOfItsKind
  <2>4. adds = Seen("created") \ Seen("archived")
    BY <2>1 DEF More, SetsInv
  <2>5. CASE k = "created"
    BY <1>2, <2>2, <2>3, <2>4, <2>5 DEF Refuse, Inconsistent
  <2>6. CASE k = "archived"
    BY <1>2, <2>2, <2>3, <2>4, <2>6 DEF Refuse, Inconsistent
  <2> QED BY <2>5, <2>6
<1>3. CASE FinishFold
  BY <1>3, SameWindow DEF FinishFold, SetsInv
<1>4. CASE UNCHANGED foldVars
  BY <1>4, SameWindow DEF foldVars, SetsInv
<1> QED
  BY <1>1, <1>2, <1>3, <1>4 DEF FoldNext, FoldCreated, FoldArchivedAdd, FoldArchivedBase

(* On every window a ledger can produce the loop refuses exactly the       *)
(* inconsistent ones and writes the rows of the set formulation, which is  *)
(* what the model of the cache takes for the outcome of the fold.          *)
THEOREM FoldComputesSets == FoldSpec => []FoldMatchesSets
<1>1. FoldInit => SetsInv
  BY DEF FoldInit, SetsInv, Seen
<1>2. FoldTypeOK /\ SetsInv /\ [FoldNext]_foldVars => SetsInv'
  BY SetsStep
<1>3. FoldTypeOK /\ SetsInv => FoldMatchesSets
  <2> SUFFICES ASSUME FoldTypeOK, SetsInv, LedgerLike, verdict # "folding"
               PROVE  IF Inconsistent(baseIds, Named("created"), Named("archived"))
                        THEN verdict = "refused"
                        ELSE /\ verdict = "patched"
                             /\ Rows = Patched(baseIds, Named("created"), Named("archived"))
    BY DEF FoldMatchesSets
  <2>1. CASE verdict = "refused"
    BY <2>1 DEF SetsInv
  <2>2. CASE verdict = "patched"
    <3>1. \A kind \in {"created", "archived"} : Seen(kind) = Named(kind)
      BY <2>2 DEF SetsInv, Seen, Named, At, FoldTypeOK
    <3> QED BY <2>2, <3>1 DEF SetsInv, Inconsistent, Rows, Patched
  <2> QED BY <2>1, <2>2 DEF FoldTypeOK
<1> QED BY <1>1, <1>2, <1>3, FoldTyping, PTL DEF FoldSpec

-----------------------------------------------------------------------------
(***************************************************************************)
(* The traversal: where a generator stands determines what it has handed   *)
(* out, and what is left of the deadline never reaches beyond it.          *)
(***************************************************************************)

\* Page m of the active contracts at an offset, as it is handed out.
PageAt(o, m) == [at |-> o, contracts |-> AcsPages[o][m]]

HandedOut == [at : Offsets, contracts : {PageContents(o, k) : o \in Offsets, k \in Nat}]

TraversalTypeOK ==
    /\ pc \in [Traversals -> {"new", "asking", "yielded"} \cup Outcomes]
    /\ asked \in [Traversals -> Offsets \cup {NoOffset}]
    /\ pinned \in [Traversals -> Offsets \cup {NoOffset}]
    /\ pageAt \in [Traversals -> Nat \ {0}]
    /\ seen \in [Traversals -> SUBSET Nat]
    /\ nextToken \in [Traversals -> Nat]
    /\ yielded \in [Traversals -> Seq(HandedOut)]

\* Where a traversal stands: the tokens it has followed are those of the
\* pages up to the current one, at the one offset it is pinned to, and what
\* it has handed out is a prefix of the pages there.
WalkOK(t) ==
    /\ seen[t] = 2..pageAt[t]
    /\ pinned[t] = NoOffset => pageAt[t] = 1 /\ yielded[t] = <<>>
    /\ pinned[t] # NoOffset => asked[t] \in {NoOffset, pinned[t]} /\ pageAt[t] <= Len(AcsPages[pinned[t]])
    /\ \A m \in 1..Len(yielded[t]) : yielded[t][m] = PageAt(pinned[t], m)
    /\ pc[t] = "new" => pageAt[t] = 1 /\ yielded[t] = <<>>
    /\ pc[t] = "asking" => Len(yielded[t]) = pageAt[t] - 1
    /\ pc[t] = "yielded" => /\ pinned[t] # NoOffset /\ Len(yielded[t]) = pageAt[t]
                            /\ nextToken[t] \in Tokens(pinned[t], pageAt[t])
    /\ pc[t] = "done" => pinned[t] # NoOffset /\ Len(yielded[t]) = Len(AcsPages[pinned[t]])

TraversalInv == TraversalTypeOK /\ \A t \in Traversals : WalkOK(t)

LEMMA PagesAreSequences ==
    ASSUME NEW o \in Offsets
    PROVE Len(AcsPages[o]) \in Nat \ {0} /\ DOMAIN AcsPages[o] = 1..Len(AcsPages[o])
    <1>. DEFINE S == {AcsPages[o][k] : k \in DOMAIN AcsPages[o]}
    <1>1. AcsPages[o] \in Seq(S) /\ AcsPages[o] # <<>>
      BY TraversalAssumption
    <1>. HIDE DEF S
    <1>. QED
      BY <1>1

LEMMA InitTraversal == TraversalInit => TraversalInv
    <1>. SUFFICES ASSUME TraversalInit PROVE TraversalInv
      OBVIOUS
    <1>1. TraversalTypeOK
      <2>1. pc \in [Traversals -> {"new", "asking", "yielded"} \cup Outcomes]
        BY DEF TraversalInit
      <2>2. yielded \in [Traversals -> Seq(HandedOut)]
        BY DEF TraversalInit
      <2>3. pageAt \in [Traversals -> Nat \ {0}] /\ seen \in [Traversals -> SUBSET Nat]
            /\ nextToken \in [Traversals -> Nat]
        BY DEF TraversalInit
      <2>4. asked \in [Traversals -> Offsets \cup {NoOffset}] /\ pinned \in [Traversals -> Offsets \cup {NoOffset}]
        BY DEF TraversalInit
      <2>. QED
        BY <2>1, <2>2, <2>3, <2>4 DEF TraversalTypeOK
    <1>2. ASSUME NEW t \in Traversals PROVE WalkOK(t)
      <2>1. /\ pc[t] = "new" /\ seen[t] = {} /\ pageAt[t] = 1 /\ yielded[t] = <<>> /\ pinned[t] = NoOffset
        BY DEF TraversalInit
      <2>2. 2..1 = {} /\ 1..Len(<<>>) = {}
        OBVIOUS
      <2>. QED
        BY <2>1, <2>2 DEF WalkOK
    <1>. QED
      BY <1>1, <1>2 DEF TraversalInv

\* The answer is accepted only at the offset the traversal is pinned to or,
\* first of all, at the one it was asked for.
LEMMA VerdictOK ==
    ASSUME NEW t \in Traversals, NEW o \in Answers
    PROVE /\ OffsetVerdict(t, o) = "ok" => o \in Offsets /\ Expected(t) \in {NoOffset, o}
          /\ OffsetVerdict(t, o) \in {"ok", "missingOffset", "offsetMismatch"}
    BY DEF OffsetVerdict, Answers

\* A traversal that does not move stays in order.
LEMMA WalkKept ==
    ASSUME NEW t \in Traversals, WalkOK(t), pc'[t] = pc[t], seen'[t] = seen[t], pageAt'[t] = pageAt[t],
           pinned'[t] = pinned[t], asked'[t] = asked[t], yielded'[t] = yielded[t], nextToken'[t] = nextToken[t]
    PROVE WalkOK(t)'
    BY DEF WalkOK, PageAt, Tokens

\* One that ends keeps what it has.
LEMMA WalkEnds ==
    ASSUME TraversalInv, NEW t \in Traversals, NEW outcome \in Outcomes \ {"done"},
           Ends(t, outcome), UNCHANGED walk
    PROVE TraversalInv'
    <1>1. TraversalTypeOK'
      BY DEF TraversalInv, TraversalTypeOK, Ends, walk
    <1>2. pc'[t] = outcome /\ \A d \in Traversals \ {t} : pc'[d] = pc[d]
      BY DEF TraversalInv, TraversalTypeOK, Ends
    <1>3. WalkOK(t)'
      <2>1. outcome \notin {"new", "asking", "yielded", "done"}
        BY DEF Outcomes, Refusals
      <2>2. WalkOK(t)
        BY DEF TraversalInv
      <2>. QED
        BY <1>2, <2>1, <2>2 DEF WalkOK, PageAt, walk
    <1>4. \A d \in Traversals \ {t} : WalkOK(d)'
      BY <1>2, WalkKept DEF TraversalInv, walk
    <1>. QED
      BY <1>1, <1>3, <1>4 DEF TraversalInv

LEMMA NextTraversal == TraversalInv /\ [TraversalNext]_traversalVars => TraversalInv'
    <1>. SUFFICES ASSUME TraversalInv, [TraversalNext]_traversalVars PROVE TraversalInv'
      OBVIOUS
    <1>0. TraversalTypeOK /\ \A t \in Traversals : WalkOK(t)
      BY DEF TraversalInv
    <1>1. CASE ClockAdvances \/ ClockSetBack \/ UNCHANGED traversalVars
      <2>1. UNCHANGED <<walk, pc>>
        BY <1>1 DEF ClockAdvances, ClockSetBack, traversalVars
      <2>2. TraversalTypeOK'
        BY <1>0, <2>1 DEF TraversalTypeOK, walk
      <2>3. \A t \in Traversals : WalkOK(t)'
        BY <1>0, <2>1, WalkKept DEF walk
      <2>. QED
        BY <2>2, <2>3 DEF TraversalInv
    <1>2. ASSUME NEW t \in Traversals, Completes(t) PROVE TraversalInv'
      <2>1. /\ pc[t] = "yielded" /\ nextToken[t] = 0 /\ pc' = [pc EXCEPT ![t] = "done"] /\ UNCHANGED walk
        BY <1>2 DEF Completes, Ends
      <2>2. TraversalTypeOK'
        BY <1>0, <2>1 DEF TraversalTypeOK, walk, Outcomes
      <2>3. WalkOK(t)'
        <3>1. pinned[t] \in Offsets /\ pageAt[t] \in Nat \ {0} /\ WalkOK(t)
          BY <1>0, <2>1 DEF WalkOK, TraversalTypeOK
        <3>2. Len(AcsPages[pinned[t]]) \in Nat
          BY <3>1, PagesAreSequences
        <3>3. Len(yielded[t]) = Len(AcsPages[pinned[t]])
          BY <2>1, <3>1, <3>2, TraversalAssumption DEF WalkOK, Tokens
        <3>4. pc'[t] = "done"
          BY <1>0, <2>1 DEF TraversalTypeOK
        <3>. QED
          BY <2>1, <3>1, <3>3, <3>4 DEF WalkOK, walk, PageAt
      <2>4. \A d \in Traversals \ {t} : WalkOK(d)'
        <3>1. \A d \in Traversals \ {t} : pc'[d] = pc[d]
          BY <1>0, <2>1 DEF TraversalTypeOK
        <3>. QED
          BY <1>0, <2>1, <3>1, WalkKept DEF walk
      <2>. QED
        BY <2>2, <2>3, <2>4 DEF TraversalInv
    <1>3. ASSUME NEW t \in Traversals, RefusesToken(t) \/ Stops(t) \/ Fails(t) PROVE TraversalInv'
      <2>1. \E outcome \in {"repeatedToken", "stopped", "failed"} : Ends(t, outcome) /\ UNCHANGED walk
        BY <1>3 DEF RefusesToken, Stops, Fails
      <2>2. {"repeatedToken", "stopped", "failed"} \subseteq Outcomes \ {"done"}
        BY DEF Outcomes, Refusals
      <2>. QED
        BY <2>1, <2>2, WalkEnds
    <1>4. ASSUME NEW t \in Traversals, Asks(t) PROVE TraversalInv'
      <2>0. /\ pc[t] = "new" \/ Follows(t)
            /\ Note(t)
            /\ \E place \in {"maxPages", "timeout", "asking"} : pc' = [pc EXCEPT ![t] = place]
        BY <1>4 DEF Asks, Ends
      <2>1. PICK place \in {"maxPages", "timeout", "asking"} : pc' = [pc EXCEPT ![t] = place]
        BY <2>0
      <2>. DEFINE at == IF pc[t] = "new" THEN 1 ELSE nextToken[t]
      <2>2. pageAt[t] \in Nat \ {0} /\ nextToken[t] \in Nat /\ WalkOK(t)
        BY <1>0 DEF TraversalTypeOK
      <2>3. CASE pc[t] = "new"
        <3>1. pageAt' = pageAt /\ seen' = seen /\ UNCHANGED <<asked, pinned, nextToken, yielded>>
          BY <1>0, <2>0, <2>3 DEF Note, TraversalTypeOK
        <3>2. pc' \in [Traversals -> {"new", "asking", "yielded"} \cup Outcomes]
          BY <1>0, <2>1 DEF TraversalTypeOK, Outcomes, Refusals
        <3>3. TraversalTypeOK'
          BY <1>0, <3>1, <3>2 DEF TraversalTypeOK
        <3>4. pc'[t] = place /\ \A d \in Traversals \ {t} : pc'[d] = pc[d]
          BY <1>0, <2>1 DEF TraversalTypeOK
        <3>5. WalkOK(t)'
          BY <2>2, <2>3, <3>1, <3>4 DEF WalkOK, PageAt
        <3>6. \A d \in Traversals \ {t} : WalkOK(d)'
          BY <1>0, <3>1, <3>4, WalkKept
        <3>. QED
          BY <3>3, <3>5, <3>6 DEF TraversalInv
      <2>4. CASE Follows(t)
        <3>0. pc[t] = "yielded" /\ nextToken[t] # 0 /\ nextToken[t] \notin seen[t]
          BY <2>4 DEF Follows, Repeated
        <3>1. pinned[t] \in Offsets /\ Len(AcsPages[pinned[t]]) \in Nat
          BY <1>0, <2>2, <3>0, PagesAreSequences DEF WalkOK, TraversalTypeOK
        <3>2. nextToken[t] = pageAt[t] + 1 /\ pageAt[t] + 1 <= Len(AcsPages[pinned[t]])
          BY <2>2, <3>0, <3>1 DEF WalkOK, Tokens
        <3>3. /\ pageAt' = [pageAt EXCEPT ![t] = nextToken[t]]
              /\ seen' = [seen EXCEPT ![t] = @ \cup {nextToken[t]}]
              /\ UNCHANGED <<asked, pinned, nextToken, yielded>>
          BY <2>0, <3>0 DEF Note
        <3>4. /\ pc'[t] = place /\ pageAt'[t] = pageAt[t] + 1 /\ seen'[t] = seen[t] \cup {pageAt[t] + 1}
              /\ \A d \in Traversals \ {t} : pc'[d] = pc[d] /\ pageAt'[d] = pageAt[d] /\ seen'[d] = seen[d]
          BY <1>0, <2>1, <3>2, <3>3 DEF TraversalTypeOK
        <3>5. TraversalTypeOK'
          <4>1. pc' \in [Traversals -> {"new", "asking", "yielded"} \cup Outcomes]
            BY <1>0, <2>1 DEF TraversalTypeOK, Outcomes, Refusals
          <4>2. pageAt' \in [Traversals -> Nat \ {0}] /\ seen' \in [Traversals -> SUBSET Nat]
            BY <1>0, <2>2, <3>0, <3>3 DEF TraversalTypeOK
          <4>. QED
            BY <1>0, <3>3, <4>1, <4>2 DEF TraversalTypeOK
        <3>6. WalkOK(t)'
          <4>1. seen'[t] = 2..pageAt'[t]
            BY <2>2, <3>4 DEF WalkOK
          <4>. QED
            BY <2>2, <3>0, <3>1, <3>2, <3>3, <3>4, <4>1 DEF WalkOK, PageAt
        <3>7. \A d \in Traversals \ {t} : WalkOK(d)'
          BY <1>0, <3>3, <3>4, WalkKept
        <3>. QED
          BY <3>5, <3>6, <3>7 DEF TraversalInv
      <2>. QED
        BY <2>0, <2>3, <2>4
    <1>5. ASSUME NEW t \in Traversals, NEW o \in Answers, Receives(t, o) PROVE TraversalInv'
      <2>. DEFINE batch == IF o = NoOffset THEN {} ELSE PageContents(o, pageAt[t])
                  count == contractsRead[t] + Cardinality(batch)
      <2>0. pc[t] = "asking" /\ UNCHANGED <<asked, pageAt, seen>> /\ WalkOK(t) /\ pageAt[t] \in Nat \ {0}
        BY <1>0, <1>5 DEF Receives, TraversalTypeOK
      <2>1. CASE OffsetVerdict(t, o) # "ok"
        <3>1. /\ pc' = [pc EXCEPT ![t] = OffsetVerdict(t, o)]
              /\ UNCHANGED <<pinned, nextToken, yielded>>
          BY <1>5, <2>1 DEF Receives, Ends
        <3>2. OffsetVerdict(t, o) \in {"missingOffset", "offsetMismatch"}
          BY <2>1, VerdictOK
        <3>. HIDE DEF batch, count
        <3>3. TraversalTypeOK'
          BY <1>0, <2>0, <3>1, <3>2 DEF TraversalTypeOK, Outcomes, Refusals
        <3>4. /\ pc'[t] \in {"missingOffset", "offsetMismatch"}
              /\ \A d \in Traversals \ {t} : pc'[d] = pc[d]
          BY <1>0, <3>1, <3>2 DEF TraversalTypeOK
        <3>5. WalkOK(t)'
          BY <2>0, <3>1, <3>4 DEF WalkOK, PageAt
        <3>6. \A d \in Traversals \ {t} : WalkOK(d)'
          BY <1>0, <2>0, <3>1, <3>4, WalkKept
        <3>. QED
          BY <3>3, <3>5, <3>6 DEF TraversalInv
      <2>2. CASE OffsetVerdict(t, o) = "ok"
        <3>1. /\ pinned' = [pinned EXCEPT ![t] = o]
              /\ \/ /\ pc' = [pc EXCEPT ![t] = "maxContracts"]
                    /\ UNCHANGED <<nextToken, yielded>>
                 \/ /\ pc' = [pc EXCEPT ![t] = "yielded"]
                    /\ yielded' = [yielded EXCEPT ![t] = Append(@, [at |-> o, contracts |-> batch])]
                    /\ \E token \in Tokens(o, pageAt[t]) : nextToken' = [nextToken EXCEPT ![t] = token]
          BY <1>5, <2>2 DEF Receives, Ends
        <3>2. o \in Offsets /\ o # NoOffset /\ Expected(t) \in {NoOffset, o}
          BY <2>2, VerdictOK, TraversalAssumption
        <3>3. Len(AcsPages[o]) \in Nat \ {0}
          BY <3>2, PagesAreSequences
        <3>4. /\ pinned[t] # NoOffset => pinned[t] = o
              /\ asked[t] \in {NoOffset, o} /\ pageAt[t] <= Len(AcsPages[o])
          BY <2>0, <3>2, <3>3 DEF Expected, WalkOK
        <3>5. batch = AcsPages[o][pageAt[t]] /\ batch \in {PageContents(q, k) : q \in Offsets, k \in Nat}
          BY <2>0, <3>2, <3>4 DEF PageContents
        <3>. HIDE DEF batch, count
        <3>6. pinned'[t] = o /\ \A d \in Traversals \ {t} : pinned'[d] = pinned[d]
          BY <1>0, <3>1 DEF TraversalTypeOK
        <3>7. pinned' \in [Traversals -> Offsets \cup {NoOffset}]
          BY <1>0, <3>1, <3>2 DEF TraversalTypeOK
        <3>8. \A m \in 1..Len(yielded[t]) : yielded[t][m] = PageAt(o, m)
          <4>1. CASE pinned[t] = NoOffset
            <5>1. yielded[t] = <<>>
              BY <2>0, <4>1 DEF WalkOK
            <5>. QED
              BY <5>1
          <4>2. CASE pinned[t] = o
            BY <2>0, <4>2 DEF WalkOK
          <4>. QED
            BY <3>4, <4>1, <4>2
        <3>9. CASE pc' = [pc EXCEPT ![t] = "maxContracts"] /\ UNCHANGED <<nextToken, yielded>>
          <4>1. TraversalTypeOK'
            BY <1>0, <2>0, <3>7, <3>9 DEF TraversalTypeOK, Outcomes, Refusals
          <4>2. pc'[t] = "maxContracts" /\ \A d \in Traversals \ {t} : pc'[d] = pc[d]
            BY <1>0, <3>9 DEF TraversalTypeOK
          <4>3. WalkOK(t)'
            BY <2>0, <3>2, <3>4, <3>6, <3>8, <3>9, <4>2 DEF WalkOK, PageAt
          <4>4. \A d \in Traversals \ {t} : WalkOK(d)'
            BY <1>0, <2>0, <3>6, <3>9, <4>2, WalkKept
          <4>. QED
            BY <4>1, <4>3, <4>4 DEF TraversalInv
        <3>10. ASSUME NEW token \in Tokens(o, pageAt[t]),
                      nextToken' = [nextToken EXCEPT ![t] = token],
                      pc' = [pc EXCEPT ![t] = "yielded"],
                      yielded' = [yielded EXCEPT ![t] = Append(@, [at |-> o, contracts |-> batch])]
               PROVE TraversalInv'
          <4>. DEFINE page == [at |-> o, contracts |-> batch]
          <4>1. page \in HandedOut /\ page = PageAt(o, pageAt[t])
            BY <3>2, <3>5 DEF PageAt, HandedOut
          <4>2. yielded[t] \in Seq(HandedOut)
            BY <1>0 DEF TraversalTypeOK
          <4>3. /\ yielded'[t] = Append(yielded[t], page)
                /\ \A d \in Traversals \ {t} : yielded'[d] = yielded[d]
            BY <1>0, <3>10 DEF TraversalTypeOK
          <4>4. token \in Nat
            BY <2>0, <3>3 DEF Tokens
          <4>5. TraversalTypeOK'
            <5>1. Append(yielded[t], page) \in Seq(HandedOut)
              BY <4>1, <4>2
            <5>. HIDE DEF page
            <5>2. yielded' \in [Traversals -> Seq(HandedOut)]
              BY <1>0, <3>10, <5>1 DEF TraversalTypeOK, page
            <5>3. nextToken' \in [Traversals -> Nat]
              BY <1>0, <3>10, <4>4 DEF TraversalTypeOK
            <5>4. pc' \in [Traversals -> {"new", "asking", "yielded"} \cup Outcomes]
              BY <1>0, <3>10 DEF TraversalTypeOK
            <5>. QED
              BY <1>0, <2>0, <3>7, <5>2, <5>3, <5>4 DEF TraversalTypeOK
          <4>6. /\ pc'[t] = "yielded" /\ nextToken'[t] = token
                /\ \A d \in Traversals \ {t} : pc'[d] = pc[d] /\ nextToken'[d] = nextToken[d]
            BY <1>0, <3>10 DEF TraversalTypeOK
          <4>7. Len(yielded'[t]) = pageAt[t] /\ Len(yielded[t]) = pageAt[t] - 1
            BY <2>0, <4>2, <4>3 DEF WalkOK
          <4>8. \A m \in 1..Len(yielded'[t]) : yielded'[t][m] = PageAt(o, m)
            <5>. HIDE DEF page
            <5>. SUFFICES ASSUME NEW m \in 1..pageAt[t] PROVE yielded'[t][m] = PageAt(o, m)
              BY <4>7
            <5>1. CASE m = pageAt[t]
              BY <2>0, <4>1, <4>2, <4>3, <4>7, <5>1
            <5>2. CASE m \in 1..Len(yielded[t])
              BY <3>8, <4>2, <4>3, <5>2
            <5>. QED
              BY <2>0, <4>7, <5>1, <5>2
          <4>. HIDE DEF page
          <4>9. WalkOK(t)'
            <5>1. yielded'[t] # <<>>
              BY <2>0, <4>7
            <5>. QED
              BY <2>0, <3>2, <3>4, <3>6, <4>6, <4>7, <4>8 DEF WalkOK, PageAt, Tokens
          <4>10. \A d \in Traversals \ {t} : WalkOK(d)'
            BY <1>0, <2>0, <3>6, <4>3, <4>6, WalkKept
          <4>. QED
            BY <4>5, <4>9, <4>10 DEF TraversalInv
        <3>. QED
          BY <3>1, <3>9, <3>10
      <2>. QED
        BY <2>1, <2>2
    <1>. QED
      BY <1>1, <1>2, <1>3, <1>4, <1>5 DEF TraversalNext

(* A traversal that completes has handed out every page of the active      *)
(* contracts at one offset once and in order, for any number of pages and  *)
(* whatever offsets and repeated tokens the participant answers with.      *)
THEOREM TraversalsAreWhole == TraversalSpec => []WholeSnapshot
    <1>1. TraversalInv => WholeSnapshot
      <2>. SUFFICES ASSUME TraversalInv, NEW t \in Traversals, pc[t] = "done"
                    PROVE \E o \in Offsets :
                            /\ asked[t] \in {NoOffset, o}
                            /\ yielded[t] = [m \in DOMAIN AcsPages[o] |-> [at |-> o, contracts |-> AcsPages[o][m]]]
        BY DEF WholeSnapshot
      <2>. DEFINE o == pinned[t]
      <2>1. o \in Offsets /\ asked[t] \in {NoOffset, o} /\ Len(yielded[t]) = Len(AcsPages[o])
            /\ \A m \in 1..Len(yielded[t]) : yielded[t][m] = PageAt(o, m)
        BY DEF TraversalInv, TraversalTypeOK, WalkOK
      <2>2. DOMAIN AcsPages[o] = 1..Len(AcsPages[o])
        BY <2>1, PagesAreSequences
      <2>3. yielded[t] = [m \in 1..Len(yielded[t]) |-> yielded[t][m]]
        <3>1. yielded[t] \in Seq(HandedOut)
          BY DEF TraversalInv, TraversalTypeOK
        <3>. QED
          BY <3>1
      <2>. QED
        BY <2>1, <2>2, <2>3 DEF PageAt
    <1>. QED
      BY <1>1, InitTraversal, NextTraversal, PTL DEF TraversalSpec

-----------------------------------------------------------------------------

\* What is left never reaches beyond the deadline on any clock read so far.
DeadlineInv ==
    /\ now \in Nat /\ remaining \in Nat /\ sampled \in Nat
    /\ remaining = 0 \/ remaining + sampled <= Timeout
    /\ pc \in [Traversals -> {"new", "asking", "yielded"} \cup Outcomes]
    /\ grant \in [Traversals -> Nat]

LEMMA SampleInBudget ==
    ASSUME DeadlineInv, Sample
    PROVE /\ Budget \in Nat
          /\ now' \in Nat /\ remaining' \in Nat /\ sampled' \in Nat
          /\ remaining' = 0 \/ remaining' + sampled' <= Timeout
          /\ remaining' = Budget
    <1>1. Timeout \in Nat
      BY TraversalAssumption
    <1>. QED
      BY <1>1 DEF DeadlineInv, Sample, Budget

LEMMA InitDeadline == TraversalInit => DeadlineInv
    BY TraversalAssumption DEF TraversalInit, DeadlineInv

\* Each step keeps the budget, and a request is sent with what is left of it.
LEMMA NextDeadline ==
    ASSUME DeadlineInv, [TraversalNext]_traversalVars
    PROVE /\ DeadlineInv'
          /\ \A t \in Traversals : pc[t] # "asking" /\ pc'[t] = "asking" =>
                sampled' < Timeout /\ grant'[t] > 0 /\ sampled' + grant'[t] <= Timeout
    <1>. DEFINE Goal == /\ DeadlineInv'
                        /\ \A t \in Traversals : pc[t] # "asking" /\ pc'[t] = "asking" =>
                              sampled' < Timeout /\ grant'[t] > 0 /\ sampled' + grant'[t] <= Timeout
    <1>0. Timeout \in Nat \ {0} /\ Horizon \in Nat
      BY TraversalAssumption
    <1>1. CASE ClockAdvances \/ ClockSetBack \/ UNCHANGED traversalVars
      BY <1>0, <1>1 DEF ClockAdvances, ClockSetBack, traversalVars, clock, DeadlineInv
    <1>2. ASSUME NEW t \in Traversals, NEW place \in {"yielded"} \cup Outcomes, Ends(t, place), UNCHANGED <<clock, grant>>
          PROVE Goal
      <2>1. place # "asking"
        BY DEF Outcomes, Refusals
      <2>. QED
        BY <1>2, <2>1 DEF Ends, clock, DeadlineInv
    <1>3. ASSUME NEW t \in Traversals, Completes(t) \/ RefusesToken(t) \/ Stops(t) \/ Fails(t) PROVE Goal
      <2>1. PICK place \in {"done", "repeatedToken", "stopped", "failed"} :
              Ends(t, place) /\ UNCHANGED <<clock, grant>>
        BY <1>3 DEF Completes, RefusesToken, Stops, Fails
      <2>2. place \in Outcomes
        BY DEF Outcomes, Refusals
      <2>. QED
        BY <1>2, <2>1, <2>2
    <1>4. ASSUME NEW t \in Traversals, Asks(t) PROVE Goal
      <2>1. CASE Ends(t, "maxPages") /\ UNCHANGED <<clock, grant>>
        <3>1. "maxPages" \in Outcomes
          BY DEF Outcomes, Refusals
        <3>. QED
          BY <1>2, <2>1, <3>1
      <2>2. CASE Sample /\ Ends(t, "timeout") /\ UNCHANGED grant
        BY <2>2, SampleInBudget DEF Ends, DeadlineInv, Outcomes
      <2>3. CASE Sample /\ Budget # 0 /\ Ends(t, "asking") /\ grant' = [grant EXCEPT ![t] = Budget]
        <3>1. /\ Budget \in Nat /\ now' \in Nat /\ remaining' = Budget /\ sampled' \in Nat
              /\ Budget + sampled' <= Timeout
          BY <2>3, SampleInBudget
        <3>2. /\ pc' \in [Traversals -> {"new", "asking", "yielded"} \cup Outcomes]
              /\ grant' \in [Traversals -> Nat] /\ grant'[t] = Budget
              /\ \A d \in Traversals \ {t} : pc'[d] = pc[d]
          BY <2>3, <3>1 DEF Ends, DeadlineInv
        <3>3. DeadlineInv'
          BY <3>1, <3>2 DEF DeadlineInv
        <3>4. sampled' < Timeout /\ Budget > 0
          <4>1. Budget # 0
            BY <2>3
          <4>2. ASSUME NEW b \in Nat, NEW x \in Nat, NEW T \in Nat, b # 0, b + x <= T
                PROVE x < T /\ b > 0
            BY <4>2
          <4>. QED
            BY <1>0, <3>1, <4>1, <4>2
        <3>. QED
          BY <3>1, <3>2, <3>3, <3>4
      <2>. QED
        BY <1>4, <2>1, <2>2, <2>3 DEF Asks
    <1>5. ASSUME NEW t \in Traversals, NEW o \in Answers, Receives(t, o) PROVE Goal
      <2>1. PICK place \in {"missingOffset", "offsetMismatch", "maxContracts", "yielded"} :
              Ends(t, place) /\ UNCHANGED <<clock, grant>>
        <3>1. CASE OffsetVerdict(t, o) # "ok"
          <4>1. OffsetVerdict(t, o) \in {"missingOffset", "offsetMismatch"}
            BY <3>1, VerdictOK
          <4>. QED
            BY <1>5, <3>1, <4>1 DEF Receives
        <3>2. CASE OffsetVerdict(t, o) = "ok"
          BY <1>5, <3>2 DEF Receives
        <3>. QED
          BY <3>1, <3>2
      <2>2. place \in {"yielded"} \cup Outcomes
        BY DEF Outcomes, Refusals
      <2>. QED
        BY <1>2, <2>1, <2>2
    <1>. QED
      BY <1>1, <1>3, <1>4, <1>5 DEF TraversalNext

(* All traversals on one OperationDeadline stay within it, for every       *)
(* timeout and however the wall clock moves: a request is sent only before *)
(* the deadline and its own timeout ends by it.                            *)
THEOREM RequestsStayInBudget == TraversalSpec => RequestsInBudget
    <1>1. DeadlineInv /\ [TraversalNext]_traversalVars => DeadlineInv'
      BY NextDeadline
    <1>2. DeadlineInv /\ [TraversalNext]_traversalVars =>
            [\A t \in Traversals : pc[t] # "asking" /\ pc'[t] = "asking" =>
                /\ sampled' < Timeout
                /\ grant'[t] > 0 /\ sampled' + grant'[t] <= Timeout]_traversalVars
      BY NextDeadline
    <1>. QED
      BY <1>1, <1>2, InitDeadline, PTL DEF TraversalSpec, RequestsInBudget
=============================================================================
