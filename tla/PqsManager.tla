----------------------------- MODULE PqsManager -----------------------------
(***************************************************************************)
(* A CantonManager whose queries are answered by PQS: the readiness memo   *)
(* of PqsQueryClient, shared by concurrent queries, the pg pool behind it, *)
(* and the disposal that closes the pool and then the gRPC client.         *)
(*                                                                         *)
(* A query is one call of the client; a check is named by the query that   *)
(* started it.  An answer, a rejection handler and the continuation of an  *)
(* await each run in a step of their own.                                  *)
(***************************************************************************)
CONSTANTS
  Queries,     (* calls of the query client                                *)
  Disposers,   (* calls of the manager's disposeAsync                      *)
  None

ASSUME ManagerAssumption == None \notin Queries

VARIABLES
  at,          (* where each query is                                      *)
  awaits,      (* the check a query waits for                              *)
  readyPromise,(* the memo: a check, or None                               *)
  check,       (* the state of each check                                  *)
  stale,       (* history: the checks that had failed when a query began   *)
  outcome,     (* of each query                                            *)
  pool,        (* open, ending or ended                                    *)
  disposed,    (* the manager's flag                                       *)
  disposer,    (* where each disposal is                                   *)
  channel      (* of the gRPC client: open or closed                       *)

queryVars == <<at, awaits, stale, outcome>>
checkVars == <<readyPromise, check>>
closeVars == <<pool, disposed, disposer, channel>>
managerVars == <<queryVars, checkVars, closeVars>>

ManagerTypeOK ==
  /\ at \in [Queries -> {"idle", "ready", "query", "done"}]
  /\ awaits \in [Queries -> Queries \cup {None}]
  /\ readyPromise \in Queries \cup {None}
  /\ check \in [Queries -> {"none", "running", "ok", "rejected", "cleared"}]
  /\ stale \in [Queries -> SUBSET Queries]
  /\ outcome \in [Queries -> {"none", "rows", "refused", "unready", "failed"}]
  /\ pool \in {"open", "ending", "ended"}
  /\ disposed \in BOOLEAN
  /\ disposer \in [Disposers -> {"idle", "pool", "done"}]
  /\ channel \in {"open", "closed"}

ManagerInit ==
  /\ at = [q \in Queries |-> "idle"]
  /\ awaits = [q \in Queries |-> None]
  /\ readyPromise = None
  /\ check = [q \in Queries |-> "none"]
  /\ stale = [q \in Queries |-> {}]
  /\ outcome = [q \in Queries |-> "none"]
  /\ pool = "open"
  /\ disposed = FALSE
  /\ disposer = [d \in Disposers |-> "idle"]
  /\ channel = "open"

Settle(q, result) ==
  /\ at' = [at EXCEPT ![q] = "done"]
  /\ outcome' = [outcome EXCEPT ![q] = result]

-----------------------------------------------------------------------------

\* A statement that is not read-only, or a query the compiler refuses.
Refuse(q) ==
  /\ at[q] = "idle"
  /\ Settle(q, "refused")
  /\ UNCHANGED <<awaits, stale, checkVars, closeVars>>

\* The pool turns a query away at once when it is no longer open.
Accepted == pool = "open"

\* Slip: the memo is only set once the check has succeeded.
ReadyLate(q) ==
  IF readyPromise = None
    THEN /\ check' = [check EXCEPT ![q] = IF Accepted THEN "running" ELSE "rejected"]
         /\ awaits' = [awaits EXCEPT ![q] = q]
         /\ UNCHANGED readyPromise
    ELSE /\ awaits' = [awaits EXCEPT ![q] = readyPromise]
         /\ UNCHANGED checkVars

\* Join the memoized check, or start one.
Ready(q) ==
  IF readyPromise = None
    THEN /\ readyPromise' = q
         /\ check' = [check EXCEPT ![q] = IF Accepted THEN "running" ELSE "rejected"]
         /\ awaits' = [awaits EXCEPT ![q] = q]
    ELSE /\ awaits' = [awaits EXCEPT ![q] = readyPromise]
         /\ UNCHANGED checkVars

Begin(q) ==
  /\ at[q] = "idle"
  /\ at' = [at EXCEPT ![q] = "ready"]
  /\ stale' = [stale EXCEPT ![q] = {k \in Queries : check[k] = "cleared"}]
  /\ Ready(q)
  /\ UNCHANGED <<outcome, closeVars>>

\* The schema query answers with every required column, or does not.
CheckSettles(k) ==
  /\ check[k] = "running"
  /\ \E result \in {"ok", "rejected"} : check' = [check EXCEPT ![k] = result]
  /\ UNCHANGED <<readyPromise, queryVars, closeVars>>

\* Slip: the memo is kept.
ClearKeeps(k) ==
  /\ check[k] = "rejected"
  /\ check' = [check EXCEPT ![k] = "cleared"]
  /\ UNCHANGED <<readyPromise, queryVars, closeVars>>

\* The rejection handler: forget the check, then pass the failure on.
Clear(k) ==
  /\ check[k] = "rejected"
  /\ readyPromise' = None
  /\ check' = [check EXCEPT ![k] = "cleared"]
  /\ UNCHANGED <<queryVars, closeVars>>

\* Slip: only the query that started the check hears of its failure.
ResumeOwner(q) ==
  /\ at[q] = "ready"
  /\ \/ /\ check[awaits[q]] = "cleared" /\ awaits[q] = q
        /\ Settle(q, "unready")
     \/ /\ check[awaits[q]] = "ok" /\ Accepted
        /\ at' = [at EXCEPT ![q] = "query"]
        /\ UNCHANGED outcome
     \/ /\ check[awaits[q]] = "ok" /\ ~Accepted
        /\ Settle(q, "failed")
  /\ UNCHANGED <<awaits, stale, checkVars, closeVars>>

\* The await of the check ends: run the statement, or fail with the check.
Resume(q) ==
  /\ at[q] = "ready"
  /\ \/ /\ check[awaits[q]] = "cleared"
        /\ Settle(q, "unready")
     \/ /\ check[awaits[q]] = "ok" /\ Accepted
        /\ at' = [at EXCEPT ![q] = "query"]
        /\ UNCHANGED outcome
     \/ /\ check[awaits[q]] = "ok" /\ ~Accepted
        /\ Settle(q, "failed")
  /\ UNCHANGED <<awaits, stale, checkVars, closeVars>>

QuerySettles(q) ==
  /\ at[q] = "query"
  /\ \E result \in {"rows", "failed"} : Settle(q, result)
  /\ UNCHANGED <<awaits, stale, checkVars, closeVars>>

-----------------------------------------------------------------------------

Dispose(d) ==
  /\ disposer[d] = "idle"
  /\ \/ /\ disposed
        /\ disposer' = [disposer EXCEPT ![d] = "done"]
        /\ UNCHANGED <<disposed, pool>>
     \/ /\ ~disposed
        /\ disposed' = TRUE
        /\ pool' = "ending"
        /\ disposer' = [disposer EXCEPT ![d] = "pool"]
  /\ UNCHANGED <<channel, queryVars, checkVars>>

\* end() resolves when the statements the pool has accepted are finished.
PoolEnds ==
  /\ pool = "ending"
  /\ \A q \in Queries : check[q] # "running" /\ at[q] # "query"
  /\ pool' = "ended"
  /\ UNCHANGED <<disposed, disposer, channel, queryVars, checkVars>>

\* Slip: the client is closed without waiting for the pool.
DisposeGoesOn(d) ==
  /\ disposer[d] = "pool"
  /\ channel' = "closed"
  /\ disposer' = [disposer EXCEPT ![d] = "done"]
  /\ UNCHANGED <<disposed, pool, queryVars, checkVars>>

DisposeResumes(d) ==
  /\ disposer[d] = "pool"
  /\ pool = "ended"
  /\ channel' = "closed"
  /\ disposer' = [disposer EXCEPT ![d] = "done"]
  /\ UNCHANGED <<disposed, pool, queryVars, checkVars>>

Finished ==
  /\ \A q \in Queries : at[q] \in {"idle", "done"}
  /\ \A d \in Disposers : disposer[d] \in {"idle", "done"}

ManagerNext ==
  \/ PoolEnds
  \/ \E q \in Queries :
       Refuse(q) \/ Begin(q) \/ CheckSettles(q) \/ Clear(q) \/ Resume(q) \/ QuerySettles(q)
  \/ \E d \in Disposers : Dispose(d) \/ DisposeResumes(d)

ManagerSpec == ManagerInit /\ [][ManagerNext]_managerVars

\* Statements are answered or fail, and the event loop runs what is due.
FairManagerSpec ==
  /\ ManagerSpec
  /\ WF_managerVars(PoolEnds)
  /\ \A q \in Queries :
       WF_managerVars(CheckSettles(q) \/ Clear(q) \/ Resume(q) \/ QuerySettles(q))
  /\ \A d \in Disposers : WF_managerVars(DisposeResumes(d))

-----------------------------------------------------------------------------

Open(k) == check[k] \in {"running", "rejected"}

(* However queries overlap, the schema is checked by one of them at a time *)
(* and by none once a check has succeeded, and no statement runs before    *)
(* that: "memoizing success so validation runs once".                      *)
ValidatedOnce ==
  /\ \A k, l \in Queries : Open(k) /\ check[l] \in {"running", "rejected", "ok"} => k = l
  /\ \A k, l \in Queries : check[k] = "ok" /\ check[l] = "ok" => k = l
  /\ \A q \in Queries : at[q] = "query" \/ outcome[q] = "rows" => \E k \in Queries : check[k] = "ok"

(* "revalidated on the next query instead of pinning the first failure": a *)
(* query is only ever failed by a check whose failure had not been handled *)
(* yet when the query began.                                               *)
FailureNotPinned ==
  \A q \in Queries : outcome[q] = "unready" => awaits[q] \notin stale[q]

(* The pool is closed, with every accepted statement finished, before the  *)
(* gRPC client is; and the disposal that does the work reports the end     *)
(* only then (a second one may return earlier).                            *)
PoolFirst ==
  /\ channel = "closed" =>
       pool = "ended" /\ \A q \in Queries : check[q] # "running" /\ at[q] # "query"
  /\ pool = "ended" /\ (\A d \in Disposers : disposer[d] # "pool") => channel = "closed"

(* Every query that began and every disposal comes to an end, also when    *)
(* the check fails under several queries or the pool closes meanwhile.     *)
EverythingSettles == []<>Finished
=============================================================================
