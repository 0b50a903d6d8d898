------------------------- MODULE GrpcContractCache -------------------------
(***************************************************************************)
(* The gRPC contract cache: prewarm (full download or delta refresh),      *)
(* cached read, inspection and invalidation of one cache key, called       *)
(* concurrently by Procs through one or more GrpcContractCache instances   *)
(* that share a store.                                                     *)
(*                                                                         *)
(* Every `await` of the code is a point where other calls, the ledger and  *)
(* the clock may move: an action runs from one await to the next.  The     *)
(* promise of a populate is named by the process that started it; settling *)
(* it hands the outcome to everyone who awaits it.                         *)
(***************************************************************************)
EXTENDS Participant, QueryCacheStore, DeltaPatch

CONSTANTS
  Procs,         (* concurrent callers                                     *)
  Caches,        (* GrpcContractCache instances sharing the store          *)
  CacheOf,       (* the instance each caller uses                          *)
  DeltaEnabled,  (* updateService given and delta.enabled                  *)
  MaxOffsetGap,  (* delta.maxOffsetGap                                     *)
  MaxUpdates,    (* delta.maxUpdates                                       *)
  StoreMayFail,  (* whether a store operation may reject                   *)
  NoPromise,     (* an absent key of the inflight map                      *)
  Error          (* a rejected promise                                     *)

Snapshot == [at : Nat, ids : SUBSET Contracts, exp : Nat]

ASSUME CacheAssumption ==
  /\ CacheOf \in [Procs -> Caches]
  /\ DeltaEnabled \in BOOLEAN
  /\ MaxOffsetGap \in Nat
  /\ MaxUpdates \in Nat
  /\ StoreMayFail \in BOOLEAN
  /\ NoPromise \notin Procs
  /\ NoEntry \notin Snapshot
  /\ Error \notin Snapshot
  /\ Error # NoEntry

VARIABLES
  inflight,    (* per cache: the populate promise under the key            *)
  pc,          (* per caller: the await it is suspended at                 *)
  awaiting,    (* per caller: the populate promise it awaits               *)
  base,        (* per caller: the snapshot read from the store             *)
  prunedSeen,  (* per caller: pruned offset answered to the delta attempt  *)
  endSeen,     (* per caller: ledger end answered to the delta attempt     *)
  low,         (* per caller: expectedLowestExclusive of the next page     *)
  created,     (* per caller: created entries of the delta window so far   *)
  archived,    (* per caller: archived entries of the delta window so far  *)
  draft,       (* per caller: offset and rows of the snapshot being built  *)
  result,      (* per caller: what its call resolved to                    *)
  startEnd,    (* history: ledger end when the call (or the populate it    *)
               (* joined) began                                            *)
  floor        (* history: highest ledger end at which a completed         *)
               (* invalidation began                                       *)

regs == <<base, prunedSeen, endSeen, low, created, archived, draft>>

callVars == <<inflight, pc, awaiting, regs, result, startEnd>>

vars == <<ledgerVars, storeVars, callVars, floor>>

NoDraft == [at |-> 0, ids |-> {}]

DeltaPCs == {"readPruned", "readEnd", "window"}
FullPCs  == {"fullFirst", "fullNext"}
WritePCs == {"writeNoop", "writeDelta", "writeFull"}
RunningPCs == {"readBase"} \cup DeltaPCs \cup FullPCs \cup WritePCs
OtherPCs == {"idle", "settled", "joined", "read", "invalidate"}

\* The populate started by p has not settled yet.
Running(p) == pc[p] \in RunningPCs

Init ==
  /\ LedgerInit
  /\ StoreInit
  /\ inflight = [c \in Caches |-> NoPromise]
  /\ pc = [p \in Procs |-> "idle"]
  /\ awaiting = [p \in Procs |-> NoPromise]
  /\ base = [p \in Procs |-> NoEntry]
  /\ prunedSeen = [p \in Procs |-> 0]
  /\ endSeen = [p \in Procs |-> 0]
  /\ low = [p \in Procs |-> 0]
  /\ created = [p \in Procs |-> {}]
  /\ archived = [p \in Procs |-> {}]
  /\ draft = [p \in Procs |-> NoDraft]
  /\ result = [p \in Procs |-> NoEntry]
  /\ startEnd = [p \in Procs |-> 0]
  /\ floor = 0

-----------------------------------------------------------------------------
(***************************************************************************)
(* Building blocks.                                                        *)
(***************************************************************************)

Goto(p, label) == pc' = [pc EXCEPT ![p] = label]

\* The populate of p settles with r: everyone who awaits its promise gets r.
Settle(p, r) ==
  /\ Goto(p, "settled")
  /\ result' = [q \in Procs |-> IF q = p \/ awaiting[q] = p THEN r ELSE result[q]]
  /\ awaiting' = [q \in Procs |-> IF awaiting[q] = p THEN NoPromise ELSE awaiting[q]]

\* The locals of a call go out of scope.
ClearRegs(p) ==
  /\ base' = [base EXCEPT ![p] = NoEntry]
  /\ prunedSeen' = [prunedSeen EXCEPT ![p] = 0]
  /\ endSeen' = [endSeen EXCEPT ![p] = 0]
  /\ low' = [low EXCEPT ![p] = 0]
  /\ created' = [created EXCEPT ![p] = {}]
  /\ archived' = [archived EXCEPT ![p] = {}]
  /\ draft' = [draft EXCEPT ![p] = NoDraft]

\* tryDeltaRefreshAsync answers undefined: download the ACS instead.
FallBack(p) ==
  /\ Goto(p, "fullFirst")
  /\ ClearRegs(p)

\* The call of p returns to the application.
Return(p) ==
  /\ Goto(p, "idle")
  /\ startEnd' = [startEnd EXCEPT ![p] = 0]

-----------------------------------------------------------------------------
(***************************************************************************)
(* cacheContracts                                                          *)
(***************************************************************************)

\* Slip: the inflight map is not consulted.
StartPopulateUnshared(p) ==
  /\ pc[p] = "idle"
  /\ inflight' = [inflight EXCEPT ![CacheOf[p]] = p]
  /\ Goto(p, "readBase")
  /\ startEnd' = [startEnd EXCEPT ![p] = ledgerEnd]
  /\ UNCHANGED <<ledgerVars, storeVars, awaiting, regs, result, floor>>

\* No populate is in flight: start one and register its promise.
StartPopulate(p) ==
  /\ pc[p] = "idle"
  /\ inflight[CacheOf[p]] = NoPromise
  /\ inflight' = [inflight EXCEPT ![CacheOf[p]] = p]
  /\ Goto(p, "readBase")
  /\ startEnd' = [startEnd EXCEPT ![p] = ledgerEnd]
  /\ UNCHANGED <<ledgerVars, storeVars, awaiting, regs, result, floor>>

\* A populate is in flight, or has settled and is still registered: share it.
JoinPopulate(p) ==
  LET f == inflight[CacheOf[p]] IN
  /\ pc[p] = "idle"
  /\ f # NoPromise
  /\ Goto(p, "joined")
  /\ awaiting' = [awaiting EXCEPT ![p] = IF Running(f) THEN f ELSE NoPromise]
  /\ result' = [result EXCEPT ![p] = IF Running(f) THEN NoEntry ELSE result[f]]
  /\ startEnd' = [startEnd EXCEPT ![p] = startEnd[f]]
  /\ UNCHANGED <<ledgerVars, storeVars, inflight, regs, floor>>

ReturnJoined(p) ==
  /\ pc[p] = "joined"
  /\ awaiting[p] = NoPromise
  /\ Return(p)
  /\ result' = [result EXCEPT ![p] = NoEntry]
  /\ UNCHANGED <<ledgerVars, storeVars, inflight, awaiting, regs, floor>>

\* The settlement callback runs before the caller of cacheContracts resumes.
ClearInflight(p) ==
  LET c == CacheOf[p] IN
  /\ pc[p] = "settled"
  /\ inflight' = [inflight EXCEPT ![c] = IF @ = p THEN NoPromise ELSE @]
  /\ Return(p)
  /\ ClearRegs(p)
  /\ result' = [result EXCEPT ![p] = NoEntry]
  /\ UNCHANGED <<ledgerVars, storeVars, awaiting, floor>>

-----------------------------------------------------------------------------
(***************************************************************************)
(* populateAsync and tryDeltaRefreshAsync                                  *)
(***************************************************************************)

\* The base is taken whether or not it has expired, if the store still has it.
ReadBase(p) ==
  /\ pc[p] = "readBase"
  /\ base' = [base EXCEPT ![p] = StoreGet]
  /\ Goto(p, IF StoreGet # NoEntry /\ DeltaEnabled THEN "readPruned" ELSE "fullFirst")
  /\ DropExpired
  /\ UNCHANGED <<ledgerVars, now, inflight, awaiting, prunedSeen, endSeen, low,
                 created, archived, draft, result, startEnd, floor>>

\* Slip: the base is restamped without asking for the ledger end.
ReadPrunedRestamps(p) ==
  /\ pc[p] = "readPruned"
  /\ draft' = [draft EXCEPT ![p] = [at |-> base[p].at, ids |-> base[p].ids]]
  /\ Goto(p, "writeNoop")
  /\ UNCHANGED <<ledgerVars, storeVars, inflight, awaiting, base, prunedSeen, endSeen, low,
                 created, archived, result, startEnd, floor>>

ReadPruned(p) ==
  /\ pc[p] = "readPruned"
  /\ prunedSeen' = [prunedSeen EXCEPT ![p] = pruned]
  /\ Goto(p, "readEnd")
  /\ UNCHANGED <<ledgerVars, storeVars, inflight, awaiting, base, endSeen, low,
                 created, archived, draft, result, startEnd, floor>>

\* The ledger end arrives: refuse the attempt, restamp, or open the window.
ReadEnd(p) ==
  LET b == base[p]
      gap == ledgerEnd - b.at
  IN
  /\ pc[p] = "readEnd"
  /\ \/ /\ prunedSeen[p] > b.at \/ gap < 0 \/ gap > MaxOffsetGap
        /\ FallBack(p)
     \/ /\ prunedSeen[p] <= b.at
        /\ gap = 0
        /\ Goto(p, "writeNoop")
        /\ draft' = [draft EXCEPT ![p] = [at |-> b.at, ids |-> b.ids]]
        /\ UNCHANGED <<base, prunedSeen, endSeen, low, created, archived>>
     \/ /\ prunedSeen[p] <= b.at
        /\ gap \in 1..MaxOffsetGap
        /\ Goto(p, "window")
        /\ endSeen' = [endSeen EXCEPT ![p] = ledgerEnd]
        /\ low' = [low EXCEPT ![p] = b.at]
        /\ created' = [created EXCEPT ![p] = {}]
        /\ archived' = [archived EXCEPT ![p] = {}]
        /\ UNCHANGED <<base, prunedSeen, draft>>
  /\ UNCHANGED <<ledgerVars, storeVars, inflight, awaiting, result, startEnd, floor>>

\* updatesSeen after the page that ends at high, against the budget.
OverBudget(p, high) ==
  Cardinality(UpdatesIn(base[p].at, high)) > MaxUpdates

\* A page of the window that is not the last one arrives.
DeltaPage(p) ==
  /\ pc[p] = "window"
  /\ ServesFrom(base[p].at)
  /\ \E high \in Window(low[p], endSeen[p] - 1) :
       \/ /\ OverBudget(p, high)
          /\ FallBack(p)
       \/ /\ ~OverBudget(p, high)
          /\ low' = [low EXCEPT ![p] = high]
          /\ created' = [created EXCEPT ![p] = @ \cup CreatedIn(low[p], high)]
          /\ archived' = [archived EXCEPT ![p] = @ \cup ArchivedIn(low[p], high)]
          /\ UNCHANGED <<pc, base, prunedSeen, endSeen, draft>>
  /\ UNCHANGED <<ledgerVars, storeVars, inflight, awaiting, result, startEnd, floor>>

\* The last page arrives; the base is patched to the end of the window.
DeltaLastPage(p) ==
  LET ids  == base[p].ids
      new  == created[p] \cup CreatedIn(low[p], endSeen[p])
      gone == archived[p] \cup ArchivedIn(low[p], endSeen[p])
  IN
  /\ pc[p] = "window"
  /\ ServesFrom(base[p].at)
  /\ \/ /\ OverBudget(p, endSeen[p]) \/ Inconsistent(ids, new, gone)
        /\ FallBack(p)
     \/ /\ ~OverBudget(p, endSeen[p])
        /\ ~Inconsistent(ids, new, gone)
        /\ Goto(p, "writeDelta")
        /\ draft' = [draft EXCEPT ![p] = [at |-> endSeen[p], ids |-> Patched(ids, new, gone)]]
        /\ UNCHANGED <<base, prunedSeen, endSeen, low, created, archived>>
  /\ UNCHANGED <<ledgerVars, storeVars, inflight, awaiting, result, startEnd, floor>>

\* A request of the delta attempt fails, or its answer fails validation.
DeltaFails(p) ==
  /\ pc[p] \in DeltaPCs
  /\ FallBack(p)
  /\ UNCHANGED <<ledgerVars, storeVars, inflight, awaiting, result, startEnd, floor>>

-----------------------------------------------------------------------------
(***************************************************************************)
(* fullRefreshAsync and writeSnapshotAsync                                 *)
(***************************************************************************)

\* A page of the ACS at offset at arrives after the rows of have; a page may
\* be empty.  The page without a token is the last one and completes the rows.
ActiveContractsPage(p, at, have) ==
  \E rows \in SUBSET (Acs(at) \ have) :
    /\ draft' = [draft EXCEPT ![p] = [at |-> at, ids |-> have \cup rows]]
    /\ \/ Goto(p, "fullNext")
       \/ /\ have \cup rows = Acs(at)
          /\ Goto(p, "writeFull")

\* The first request names no offset: the participant picks the ledger end.
FullFirstPage(p) ==
  /\ pc[p] = "fullFirst"
  /\ ActiveContractsPage(p, ledgerEnd, {})
  /\ UNCHANGED <<ledgerVars, storeVars, inflight, awaiting, base, prunedSeen, endSeen,
                 low, created, archived, result, startEnd, floor>>

\* Slip: later pages come from the ledger end, not from the first page's offset.
FullNextPageUnpinned(p) ==
  /\ pc[p] = "fullNext"
  /\ draft' = [draft EXCEPT ![p].ids = @ \cup Acs(ledgerEnd)]
  /\ Goto(p, "writeFull")
  /\ UNCHANGED <<ledgerVars, storeVars, inflight, awaiting, base, prunedSeen, endSeen,
                 low, created, archived, result, startEnd, floor>>

\* The page token pins the offset of the first page.
FullNextPage(p) ==
  /\ pc[p] = "fullNext"
  /\ ServesFrom(draft[p].at)
  /\ ActiveContractsPage(p, draft[p].at, draft[p].ids)
  /\ UNCHANGED <<ledgerVars, storeVars, inflight, awaiting, base, prunedSeen, endSeen,
                 low, created, archived, result, startEnd, floor>>

\* Slip: a failed download is started again instead of rejecting.
FullFailsRetries(p) ==
  /\ pc[p] \in FullPCs
  /\ FallBack(p)
  /\ UNCHANGED <<ledgerVars, storeVars, inflight, awaiting, result, startEnd, floor>>

\* A request of the full download fails, or its answer fails validation: the
\* populate rejects.
FullFails(p) ==
  /\ pc[p] \in FullPCs
  /\ Settle(p, Error)
  /\ UNCHANGED <<ledgerVars, storeVars, inflight, regs, startEnd, floor>>

\* The snapshot is stamped and stored, and the populate resolves.
WriteSnapshot(p) ==
  /\ pc[p] \in WritePCs
  /\ StoreSet(draft[p].at, draft[p].ids)
  /\ Settle(p, [at |-> draft[p].at, ids |-> draft[p].ids, exp |-> now + TtlMs])
  /\ UNCHANGED <<ledgerVars, now, inflight, regs, startEnd, floor>>

\* getAsync or setAsync rejects.  Only the delta branch awaits the write inside
\* its try block and so falls back; the others reject the populate.
StoreFails(p) ==
  /\ StoreMayFail
  /\ \/ /\ pc[p] = "writeDelta"
        /\ FallBack(p)
        /\ UNCHANGED <<awaiting, result>>
     \/ /\ pc[p] \in {"readBase", "writeNoop", "writeFull"}
        /\ Settle(p, Error)
        /\ UNCHANGED regs
  /\ UNCHANGED <<ledgerVars, storeVars, inflight, startEnd, floor>>

-----------------------------------------------------------------------------
(***************************************************************************)
(* readSnapshotAsync, inspectContractsCacheAsync, invalidateContractsCache *)
(***************************************************************************)

ReadEntry(p) ==
  /\ pc[p] = "idle"
  /\ base' = [base EXCEPT ![p] = StoreGet]
  /\ Goto(p, "read")
  /\ DropExpired
  /\ UNCHANGED <<ledgerVars, now, inflight, awaiting, prunedSeen, endSeen, low,
                 created, archived, draft, result, startEnd, floor>>

\* Slip: a snapshot is still served at its expiry.
CompatibleAtExpiry(s) == s # NoEntry /\ s.exp >= now

\* asCompatibleSnapshot without ignoreExpiry, at the clock after the await.
Compatible(s) == s # NoEntry /\ s.exp > now

\* What readSnapshotAsync resolves to if it resumes now.
ReadResult(p) == IF Compatible(base[p]) THEN base[p] ELSE NoEntry

ReturnRead(p) ==
  /\ pc[p] = "read"
  /\ Return(p)
  /\ ClearRegs(p)
  /\ UNCHANGED <<ledgerVars, storeVars, inflight, awaiting, result, floor>>

\* Inspection reads the entry, which drops an expired one.  The ledger end it
\* awaits next is only reported: no state changes after the first read.
InspectEntry(p) ==
  /\ pc[p] = "idle"
  /\ DropExpired
  /\ UNCHANGED <<ledgerVars, now, callVars, floor>>

\* Slip: the populate in flight is not awaited.
StartInvalidateAtOnce(p) ==
  /\ pc[p] = "idle"
  /\ Goto(p, "invalidate")
  /\ startEnd' = [startEnd EXCEPT ![p] = ledgerEnd]
  /\ UNCHANGED <<ledgerVars, storeVars, inflight, awaiting, regs, result, floor>>

\* invalidateContractsCache first awaits the populate in flight, if any.
StartInvalidate(p) ==
  LET f == inflight[CacheOf[p]] IN
  /\ pc[p] = "idle"
  /\ Goto(p, "invalidate")
  /\ awaiting' = [awaiting EXCEPT ![p] = IF f # NoPromise /\ Running(f) THEN f ELSE NoPromise]
  /\ startEnd' = [startEnd EXCEPT ![p] = ledgerEnd]
  /\ UNCHANGED <<ledgerVars, storeVars, inflight, regs, result, floor>>

\* The awaited populate has settled, whatever its outcome: delete the key.
DeleteEntry(p) ==
  /\ pc[p] = "invalidate"
  /\ awaiting[p] = NoPromise
  /\ \/ /\ StoreDelete
        /\ floor' = IF startEnd[p] > floor THEN startEnd[p] ELSE floor
     \/ /\ StoreMayFail
        /\ UNCHANGED <<entry, floor>>
  /\ Return(p)
  /\ result' = [result EXCEPT ![p] = NoEntry]
  /\ UNCHANGED <<ledgerVars, now, inflight, awaiting, regs>>

-----------------------------------------------------------------------------
(***************************************************************************)
(* The specification.                                                      *)
(***************************************************************************)

Call(p) == StartPopulate(p) \/ JoinPopulate(p) \/ ReadEntry(p) \/ InspectEntry(p)
             \/ StartInvalidate(p)

\* What the runtime does for a call that is under way.
Progress(p) ==
  \/ ReadBase(p) \/ ReadPruned(p) \/ ReadEnd(p)
  \/ DeltaPage(p) \/ DeltaLastPage(p) \/ DeltaFails(p)
  \/ FullFirstPage(p) \/ FullNextPage(p) \/ FullFails(p)
  \/ WriteSnapshot(p) \/ StoreFails(p)
  \/ ClearInflight(p) \/ ReturnJoined(p) \/ ReturnRead(p) \/ DeleteEntry(p)

Environment ==
  \/ LedgerNext /\ UNCHANGED <<storeVars, callVars, floor>>
  \/ Tick /\ UNCHANGED <<ledgerVars, callVars, floor>>

Next == Environment \/ \E p \in Procs : Call(p) \/ Progress(p)

Spec == Init /\ [][Next]_vars

\* Every request is answered or fails, the event loop runs what is ready, and
\* the participant does not hand out page tokens with empty pages forever.
FairSpec == Spec /\ \A p \in Procs : WF_vars(Progress(p))

-----------------------------------------------------------------------------
(***************************************************************************)
(* Properties.                                                             *)
(***************************************************************************)

Maybe(S) == S \cup {NoEntry}

Draft == [at : Nat, ids : SUBSET Contracts]

(* Every variable has the type the code gives it: the type invariant of    *)
(* the cache, its store and the participant it talks to.                   *)
TypeOK ==
  /\ LedgerTypeOK
  /\ entry \in Maybe(Snapshot)
  /\ now \in Nat
  /\ inflight \in [Caches -> Procs \cup {NoPromise}]
  /\ pc \in [Procs -> RunningPCs \cup OtherPCs]
  /\ awaiting \in [Procs -> Procs \cup {NoPromise}]
  /\ base \in [Procs -> Maybe(Snapshot)]
  /\ prunedSeen \in [Procs -> Nat]
  /\ endSeen \in [Procs -> Nat]
  /\ low \in [Procs -> Nat]
  /\ created \in [Procs -> SUBSET Contracts]
  /\ archived \in [Procs -> SUBSET Contracts]
  /\ draft \in [Procs -> Draft]
  /\ result \in [Procs -> Maybe(Snapshot) \cup {Error}]
  /\ startEnd \in [Procs -> Nat]
  /\ floor \in Nat

\* A contract some reassignment moved into or out of the participant's view.
Moved(c) == enter[c] \in moves \/ leave[c] \in moves

(* The stored rows are exactly the ACS at the snapshot's activeAtOffset,   *)
(* however the refresh interleaved with transactions, pruning, the page    *)
(* boundaries and other refreshes (README: a cached result "is internally  *)
(* consistent at its activeAtOffset").                                     *)
SnapshotConsistent == entry # NoEntry => entry.ids = Acs(entry.at)

\* The rows of s are the ACS at its offset, leaving reassigned contracts aside.
AgreesUpToMoves(s) ==
  /\ s.at <= ledgerEnd
  /\ \A c \in Contracts : ~Moved(c) => (c \in s.ids <=> c \in Acs(s.at))

(* With reassignments on the ledger too, the stored rows can be wrong only *)
(* about contracts a reassignment moved: delta refresh never corrupts, nor *)
(* does a refresh ever claim an offset the ledger has not reached.         *)
WrongOnlyAboutMoves == entry # NoEntry => AgreesUpToMoves(entry)

(* A cached read answers rows of an unexpired snapshot that are the ACS at *)
(* its offset, even when the clock, a refresh or an invalidation moved     *)
(* between the store's answer and the resumption of readSnapshotAsync.     *)
ServedReads ==
  \A p \in Procs :
    pc[p] = "read" /\ ReadResult(p) # NoEntry =>
      /\ now < ReadResult(p).exp
      /\ ReadResult(p).exp <= now + TtlMs
      /\ AgreesUpToMoves(ReadResult(p))

(* One GrpcContractCache never runs two populates of a key at once: the    *)
(* inflight map makes concurrent cacheContracts calls share one download.  *)
SingleFlight ==
  \A p, q \in Procs :
    Running(p) /\ Running(q) /\ CacheOf[p] = CacheOf[q] => p = q

\* The call of p has resolved to a snapshot.
Resolved(p) ==
  /\ pc[p] = "settled" \/ (pc[p] = "joined" /\ awaiting[p] = NoPromise)
  /\ result[p] \notin {NoEntry, Error}

(* The snapshot cacheContracts resolves to includes everything the ledger  *)
(* held when the populate began, for its starter and for those who joined. *)
FreshResult ==
  \A p \in Procs : Resolved(p) => result[p].at >= startEnd[p]

(* After invalidateContractsCache resolves, the store never holds a        *)
(* snapshot older than the ledger was when the invalidation was called: no *)
(* populate that was in flight then writes its rows back.                  *)
InvalidationHolds == entry # NoEntry => entry.at >= floor

(* A refresh patches the snapshot the store was last given, expired or not *)
(* ("Re-warms with a warm (or expired) snapshot then try to patch it       *)
(* forward", canton-manager-options.ts; "expiry gates queries, not         *)
(* refreshes", populateAsync).                                             *)
ExpiredBaseIsUsed ==
  [][\A p \in Procs :
       pc[p] = "readBase" /\ entry # NoEntry /\ pc'[p] # pc[p] => pc'[p] = "readPruned"]_vars

(* Every call under way returns: no caller waits for a populate forever,   *)
(* whichever request fails and whoever joins or invalidates meanwhile.     *)
CallsReturn == \A p \in Procs : pc[p] # "idle" ~> pc[p] = "idle"

\* The snapshot readers may see, without its expiry.
Abstract == INSTANCE ContractSnapshots WITH
  published <- IF entry = NoEntry THEN NoEntry
               ELSE [at |-> entry.at, ids |-> entry.ids]

(* The cache implements its promise: in one GrpcContractCache, every step  *)
(* of every call leaves the stored snapshot alone, withdraws it, or        *)
(* replaces it by the complete ACS of the same or a later offset.          *)
ImplementsSnapshots == Abstract!AbsSpec
=============================================================================
