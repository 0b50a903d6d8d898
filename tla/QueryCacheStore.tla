-------------------------- MODULE QueryCacheStore --------------------------
(***************************************************************************)
(* The key/value store behind the contract cache, for one cache key: the   *)
(* QueryCacheStore interface and its in-memory implementation              *)
(* MemoryQueryCache.  A store of the application's own may keep a value    *)
(* past its time to live; StoreDropsExpired tells the two apart.           *)
(***************************************************************************)
EXTENDS Integers

CONSTANTS
  TtlMs,              (* ttlMs handed to setAsync                          *)
  MaxTime,            (* bound: the clock stops here                       *)
  StoreDropsExpired,  (* TRUE: MemoryQueryCache; FALSE: keeps expired ones *)
  NoEntry             (* getAsync's undefined                              *)

ASSUME StoreAssumption ==
  /\ TtlMs \in Nat \ {0}
  /\ MaxTime \in Nat
  /\ StoreDropsExpired \in BOOLEAN

VARIABLES
  entry,  (* the value under the key, NoEntry when absent                  *)
  now     (* Date.now()                                                    *)

storeVars == <<entry, now>>

StoreInit ==
  /\ entry = NoEntry
  /\ now = 0

\* getAsync: an entry whose time has come (<=) is not returned.
StoreGet ==
  IF entry # NoEntry /\ StoreDropsExpired /\ entry.exp <= now
    THEN NoEntry
    ELSE entry

\* getAsync also deletes what it found expired.
DropExpired == entry' = StoreGet

\* Slip: the entry is stored without its expiry stamp.
StoreSetUnstamped(at, ids) ==
  entry' = [at |-> at, ids |-> ids]

\* setAsync stamps the entry with now + ttl and overwrites without looking.
StoreSet(at, ids) ==
  entry' = [at |-> at, ids |-> ids, exp |-> now + TtlMs]

StoreDelete == entry' = NoEntry

Tick ==
  /\ now < MaxTime
  /\ now' = now + 1
  /\ UNCHANGED entry
=============================================================================
