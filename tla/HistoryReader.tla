--------------------------- MODULE HistoryReader ---------------------------
(***************************************************************************)
(* GrpcQuerySnapshotReader.readHistoryAsync: concurrent history queries of *)
(* one reader, each replaying the update stream up to an offset, with the  *)
(* optional in-memory window (incrementalHistory) that later reads extend. *)
(* An update is its offset; a list of updates, strictly increasing in the  *)
(* code, is the set of their offsets.                                      *)
(***************************************************************************)
EXTENDS Participant

CONSTANTS
  Readers,            (* concurrent readHistoryAsync calls                 *)
  IncrementalHistory, (* options.incrementalHistory                        *)
  MaxHistoryPages,    (* options.maxHistoryPages                           *)
  MaxHistoryUpdates,  (* options.maxHistoryUpdates                         *)
  NoWindow            (* no history window is held                         *)

HistoryWindow == [end : Nat, updates : SUBSET Nat]

ASSUME ReaderAssumption ==
  /\ IncrementalHistory \in BOOLEAN
  /\ MaxHistoryPages \in Nat \ {0}
  /\ MaxHistoryUpdates \in Nat \ {0}
  /\ NoWindow \notin HistoryWindow

VARIABLES
  historyCache,  (* the retained window                                    *)
  rpc,           (* per call: the await it is suspended at                 *)
  want,          (* per call: endInclusive                                 *)
  held,          (* per call: the window it extends, from the cache        *)
  lowest,        (* per call: expectedLowestExclusive of the next page     *)
  updates,       (* per call: updates of the pages read so far             *)
  pagesRead,     (* per call                                               *)
  answer         (* per call: what it resolved to                          *)

callRegs == <<want, held, lowest, updates, pagesRead, answer>>

historyVars == <<ledgerVars, historyCache, rpc, callRegs>>

\* What a read extends when no window is held.
LedgerBegin == [end |-> 0, updates |-> {}]

ReaderInit ==
  /\ LedgerInit
  /\ historyCache = NoWindow
  /\ rpc = [r \in Readers |-> "idle"]
  /\ want = [r \in Readers |-> 0]
  /\ held = [r \in Readers |-> LedgerBegin]
  /\ lowest = [r \in Readers |-> 0]
  /\ updates = [r \in Readers |-> {}]
  /\ pagesRead = [r \in Readers |-> 0]
  /\ answer = [r \in Readers |-> {}]

Await(r, label) == rpc' = [rpc EXCEPT ![r] = label]

\* The call resolves to the updates u.
Answer(r, u) ==
  /\ Await(r, "answered")
  /\ answer' = [answer EXCEPT ![r] = u]

\* QuerySnapshotIncompleteError, or the error of a failed request.
Reject(r) ==
  /\ Await(r, "rejected")
  /\ UNCHANGED answer

-----------------------------------------------------------------------------

\* A window at or past the requested offset holds the complete answer.
Covers(end) == historyCache # NoWindow /\ historyCache.end >= end

\* endInclusive is a ledger end or a cached snapshot's offset, so at most the
\* current ledger end.
ReadHistory(r) ==
  /\ rpc[r] = "idle"
  /\ \E end \in 0..ledgerEnd :
       /\ want' = [want EXCEPT ![r] = end]
       /\ \/ /\ Covers(end)
             /\ Answer(r, {o \in historyCache.updates : o <= end})
             /\ UNCHANGED held
          \/ /\ ~Covers(end)
             /\ held' = [held EXCEPT ![r] = IF historyCache = NoWindow THEN LedgerBegin ELSE historyCache]
             /\ Await(r, "pruned")
             /\ UNCHANGED answer
  /\ UNCHANGED <<ledgerVars, historyCache, lowest, updates, pagesRead>>

\* Pruning matters only when it reaches past the start of the range.
CheckPruned(r) ==
  /\ rpc[r] = "pruned"
  /\ \/ /\ pruned > held[r].end
        /\ Reject(r)
        /\ UNCHANGED lowest
     \/ /\ pruned <= held[r].end
        /\ Await(r, "page")
        /\ lowest' = [lowest EXCEPT ![r] = held[r].end]
        /\ UNCHANGED answer
  /\ UNCHANGED <<ledgerVars, historyCache, want, held, updates, pagesRead>>

\* Slip: only the new range counts against the budget.
RoomForRange(r, page) ==
  Cardinality(page) <= MaxHistoryUpdates - Cardinality(updates[r])

\* The retained window counts against the budget too.
RoomFor(r, page) ==
  Cardinality(page) <= MaxHistoryUpdates - Cardinality(held[r].updates) - Cardinality(updates[r])

\* A page ending at highest arrives: refused over the budget, otherwise
\* appended; the page that reaches the end completes the range.
HistoryPage(r) ==
  /\ rpc[r] = "page"
  /\ pagesRead[r] < MaxHistoryPages
  /\ ServesFrom(held[r].end)
  /\ pagesRead' = [pagesRead EXCEPT ![r] = @ + 1]
  /\ \E highest \in Window(lowest[r], want[r]) \cup {want[r]} :
       LET page == UpdatesIn(lowest[r], highest) IN
       \/ /\ ~RoomFor(r, page)
          /\ Reject(r)
          /\ UNCHANGED <<lowest, updates>>
       \/ /\ RoomFor(r, page)
          /\ updates' = [updates EXCEPT ![r] = @ \cup page]
          /\ lowest' = [lowest EXCEPT ![r] = highest]
          /\ Await(r, IF highest = want[r] THEN "range" ELSE "page")
          /\ UNCHANGED answer
  /\ UNCHANGED <<ledgerVars, historyCache, want, held>>

\* The page limit is reached before the range is complete.
TooManyPages(r) ==
  /\ rpc[r] = "page"
  /\ pagesRead[r] >= MaxHistoryPages
  /\ Reject(r)
  /\ UNCHANGED <<ledgerVars, historyCache, want, held, lowest, updates, pagesRead>>

\* A request fails (one that starts below the pruning point always does) or a
\* page fails validation.
RequestFails(r) ==
  /\ rpc[r] \in {"pruned", "page"}
  /\ Reject(r)
  /\ UNCHANGED <<ledgerVars, historyCache, want, held, lowest, updates, pagesRead>>

\* Slip: the window is replaced by whichever read finishes last.
RetainLast(end) == IncrementalHistory

\* readHistoryAsync resumes with the range and retains it if it is the longest.
Retain(end) ==
  /\ IncrementalHistory
  /\ historyCache = NoWindow \/ historyCache.end < end

\* Slip: the held window is not prepended to the range.
FinishRangeUnseeded(r) ==
  /\ rpc[r] = "range"
  /\ Answer(r, updates[r])
  /\ historyCache' = IF Retain(want[r]) THEN [end |-> want[r], updates |-> updates[r]] ELSE historyCache
  /\ UNCHANGED <<ledgerVars, want, held, lowest, updates, pagesRead>>

FinishRange(r) ==
  LET all == held[r].updates \cup updates[r] IN
  /\ rpc[r] = "range"
  /\ Answer(r, all)
  /\ historyCache' = IF Retain(want[r]) THEN [end |-> want[r], updates |-> all] ELSE historyCache
  /\ UNCHANGED <<ledgerVars, want, held, lowest, updates, pagesRead>>

ReturnHistory(r) ==
  /\ rpc[r] \in {"answered", "rejected"}
  /\ Await(r, "idle")
  /\ want' = [want EXCEPT ![r] = 0]
  /\ held' = [held EXCEPT ![r] = LedgerBegin]
  /\ lowest' = [lowest EXCEPT ![r] = 0]
  /\ updates' = [updates EXCEPT ![r] = {}]
  /\ pagesRead' = [pagesRead EXCEPT ![r] = 0]
  /\ answer' = [answer EXCEPT ![r] = {}]
  /\ UNCHANGED <<ledgerVars, historyCache>>

ReaderStep(r) ==
  \/ CheckPruned(r) \/ HistoryPage(r) \/ TooManyPages(r) \/ RequestFails(r)
  \/ FinishRange(r) \/ ReturnHistory(r)

ReaderNext ==
  \/ LedgerNext /\ UNCHANGED <<historyCache, rpc, callRegs>>
  \/ \E r \in Readers : ReadHistory(r) \/ ReaderStep(r)

ReaderSpec == ReaderInit /\ [][ReaderNext]_historyVars

-----------------------------------------------------------------------------

(* Every variable of the reader has the type the code gives it: offsets    *)
(* are never negative, a window is an end and a set of offsets.            *)
HistoryTypeOK ==
  /\ LedgerTypeOK
  /\ historyCache \in HistoryWindow \cup {NoWindow}
  /\ rpc \in [Readers -> {"idle", "pruned", "page", "range", "answered", "rejected"}]
  /\ want \in [Readers -> Nat]
  /\ held \in [Readers -> HistoryWindow]
  /\ lowest \in [Readers -> Nat]
  /\ updates \in [Readers -> SUBSET Nat]
  /\ pagesRead \in [Readers -> Nat]
  /\ answer \in [Readers -> SUBSET Nat]

(* A history query resolves to every visible transaction up to its offset  *)
(* or rejects (README: "rather than returning partial rows"), however      *)
(* pages, pruning and other reads that replace the window interleave.      *)
HistoryComplete ==
  \A r \in Readers :
    rpc[r] = "answered" => answer[r] = UpdatesIn(0, want[r])

(* A slower read of a shorter range never replaces a longer window.        *)
WindowOnlyGrows ==
  [][historyCache # NoWindow => historyCache'.end >= historyCache.end]_historyCache

(* However many reads extend it, the retained window stays in the budget   *)
(* maxHistoryUpdates sets for a single read.                               *)
WindowInBudget ==
  historyCache # NoWindow => Cardinality(historyCache.updates) <= MaxHistoryUpdates
=============================================================================
