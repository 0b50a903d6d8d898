---------------------------- MODULE ClientProofs ----------------------------
(***************************************************************************)
(* Theorems about the clients of a participant and of PQS, for any number  *)
(* of queries, disposals, calls and requests.                              *)
(***************************************************************************)
EXTENDS PqsManager, CommandSubmission, TLAPS

-----------------------------------------------------------------------------
(***************************************************************************)
(* The readiness memo of PqsQueryClient and the order of CantonManager's   *)
(* disposal.                                                               *)
(***************************************************************************)

Live(k) == check[k] \in {"running", "rejected", "ok"}

\* A query that has not begun has started no check.
StartInv == \A q \in Queries : at[q] = "idle" => check[q] = "none"

\* The memo is the one check whose failure has not been handled.
MemoInv == \A k \in Queries : Live(k) <=> readyPromise = k

\* A query waits for a check that had not failed when it began.
WaitInv ==
  \A q \in Queries :
    /\ at[q] = "ready" => awaits[q] \in Queries
    /\ awaits[q] \notin stale[q]

\* No statement before a check has succeeded.
GateInv ==
  \A q \in Queries :
    at[q] = "query" \/ outcome[q] = "rows" => \E k \in Queries : check[k] = "ok"

\* The pool, then the client, and somebody is at it.
CloseInv ==
  /\ disposed <=> pool # "open"
  /\ pool = "ended" => \A q \in Queries : check[q] # "running" /\ at[q] # "query"
  /\ channel = "closed" => pool = "ended"
  /\ pool # "open" /\ channel = "open" => \E d \in Disposers : disposer[d] = "pool"

ManagerInv ==
  ManagerTypeOK /\ StartInv /\ MemoInv /\ WaitInv /\ GateInv /\ CloseInv

LEMMA InitManager == ManagerInit => ManagerInv
  <1>. SUFFICES ASSUME ManagerInit PROVE ManagerInv
    OBVIOUS
  <1>. USE ManagerAssumption DEF ManagerInit
  <1>1. ManagerTypeOK
    BY DEF ManagerTypeOK
  <1>2. StartInv /\ MemoInv /\ WaitInv /\ GateInv
    BY DEF StartInv, MemoInv, WaitInv, GateInv, Live
  <1>3. CloseInv
    BY DEF CloseInv
  <1>. QED
    BY <1>1, <1>2, <1>3 DEF ManagerInv

LEMMA RefuseStep ==
  ASSUME ManagerInv, NEW q \in Queries, Refuse(q)
  PROVE ManagerInv'
  <1>. USE DEF ManagerInv
  <1>0. /\ at[q] = "idle" /\ at' = [at EXCEPT ![q] = "done"]
        /\ outcome' = [outcome EXCEPT ![q] = "refused"]
        /\ UNCHANGED <<awaits, stale, readyPromise, check, pool, disposed, disposer, channel>>
    BY DEF Refuse, Settle, checkVars, closeVars
  <1>1. ManagerTypeOK'
    BY <1>0 DEF ManagerTypeOK
  <1>2. StartInv' /\ WaitInv' /\ GateInv'
    BY <1>0 DEF ManagerTypeOK, StartInv, WaitInv, GateInv
  <1>3. MemoInv'
    BY <1>0 DEF MemoInv, Live
  <1>4. CloseInv'
    BY <1>0 DEF ManagerTypeOK, CloseInv
  <1>. QED
    BY <1>1, <1>2, <1>3, <1>4

LEMMA BeginStep ==
  ASSUME ManagerInv, NEW q \in Queries, Begin(q)
  PROVE ManagerInv'
  <1>. USE ManagerAssumption DEF ManagerInv
  <1>0. /\ at[q] = "idle" /\ at' = [at EXCEPT ![q] = "ready"]
        /\ stale' = [stale EXCEPT ![q] = {k \in Queries : check[k] = "cleared"}]
        /\ UNCHANGED <<outcome, pool, disposed, disposer, channel>>
        /\ Ready(q)
    BY DEF Begin, closeVars
  <1>1. CASE readyPromise = None
    <2>0. /\ readyPromise' = q
          /\ check' = [check EXCEPT ![q] = IF pool = "open" THEN "running" ELSE "rejected"]
          /\ awaits' = [awaits EXCEPT ![q] = q]
      BY <1>0, <1>1 DEF Ready, Accepted
    <2>1. ManagerTypeOK'
      BY <1>0, <2>0 DEF ManagerTypeOK
    <2>2. StartInv'
      BY <1>0, <2>0 DEF ManagerTypeOK, StartInv
    <2>3. \A k \in Queries : ~Live(k)
      BY <1>1 DEF MemoInv
    <2>4. MemoInv'
      BY <1>0, <2>0, <2>3 DEF ManagerTypeOK, MemoInv, Live
    <2>5. q \notin stale'[q]
      BY <1>0 DEF ManagerTypeOK, StartInv
    <2>6. WaitInv'
      BY <1>0, <2>0, <2>5 DEF ManagerTypeOK, WaitInv
    <2>7. GateInv'
      BY <1>0, <2>3 DEF ManagerTypeOK, GateInv, Live
    <2>8. CloseInv'
      BY <1>0, <2>0 DEF ManagerTypeOK, CloseInv
    <2>. QED
      BY <2>1, <2>2, <2>4, <2>6, <2>7, <2>8
  <1>2. CASE readyPromise # None
    <2>0. awaits' = [awaits EXCEPT ![q] = readyPromise] /\ UNCHANGED <<readyPromise, check>>
      BY <1>0, <1>2 DEF Ready, checkVars
    <2>1. readyPromise \in Queries /\ check[readyPromise] # "cleared"
      BY <1>2 DEF ManagerTypeOK, MemoInv, Live
    <2>2. ManagerTypeOK'
      BY <1>0, <2>0 DEF ManagerTypeOK
    <2>3. StartInv' /\ GateInv'
      BY <1>0, <2>0 DEF ManagerTypeOK, StartInv, GateInv
    <2>4. MemoInv'
      BY <2>0 DEF MemoInv, Live
    <2>5. readyPromise \notin stale'[q]
      BY <1>0, <2>1 DEF ManagerTypeOK
    <2>6. WaitInv'
      BY <1>0, <2>0, <2>1, <2>5 DEF ManagerTypeOK, WaitInv
    <2>7. CloseInv'
      BY <1>0, <2>0 DEF ManagerTypeOK, CloseInv
    <2>. QED
      BY <2>2, <2>3, <2>4, <2>6, <2>7
  <1>. QED
    BY <1>1, <1>2

LEMMA CheckStep ==
  ASSUME ManagerInv, NEW k \in Queries, CheckSettles(k) \/ Clear(k)
  PROVE ManagerInv'
  <1>. USE ManagerAssumption DEF ManagerInv
  <1>0. UNCHANGED <<at, awaits, stale, outcome, pool, disposed, disposer, channel>>
    BY DEF CheckSettles, Clear, queryVars, closeVars
  <1>1. CASE CheckSettles(k)
    <2>0. PICK result \in {"ok", "rejected"} : check' = [check EXCEPT ![k] = result]
      BY <1>1 DEF CheckSettles
    <2>1. check[k] = "running" /\ readyPromise' = readyPromise
      BY <1>1 DEF CheckSettles
    <2>2. ManagerTypeOK'
      BY <1>0, <2>0, <2>1 DEF ManagerTypeOK
    <2>3. StartInv' /\ MemoInv'
      BY <1>0, <2>0, <2>1 DEF ManagerTypeOK, StartInv, MemoInv, Live
    <2>4. WaitInv'
      BY <1>0 DEF WaitInv
    <2>5. GateInv'
      BY <1>0, <2>0, <2>1 DEF ManagerTypeOK, GateInv
    <2>6. CloseInv'
      BY <1>0, <2>0, <2>1 DEF ManagerTypeOK, CloseInv
    <2>. QED
      BY <2>2, <2>3, <2>4, <2>5, <2>6
  <1>2. CASE Clear(k)
    <2>0. /\ check[k] = "rejected" /\ readyPromise' = None
          /\ check' = [check EXCEPT ![k] = "cleared"]
      BY <1>2 DEF Clear
    <2>1. ManagerTypeOK'
      BY <1>0, <2>0 DEF ManagerTypeOK
    <2>2. \A l \in Queries : Live(l) => l = k
      BY <2>0 DEF MemoInv, Live
    <2>3. StartInv' /\ MemoInv'
      BY <1>0, <2>0, <2>2 DEF ManagerTypeOK, StartInv, MemoInv, Live
    <2>4. WaitInv'
      BY <1>0 DEF WaitInv
    <2>5. GateInv'
      BY <1>0, <2>0 DEF ManagerTypeOK, GateInv
    <2>6. CloseInv'
      BY <1>0, <2>0 DEF ManagerTypeOK, CloseInv
    <2>. QED
      BY <2>1, <2>3, <2>4, <2>5, <2>6
  <1>. QED
    BY <1>1, <1>2

LEMMA QueryStep ==
  ASSUME ManagerInv, NEW q \in Queries, Resume(q) \/ QuerySettles(q)
  PROVE ManagerInv'
  <1>. USE DEF ManagerInv
  <1>0. UNCHANGED <<awaits, stale, readyPromise, check, pool, disposed, disposer, channel>>
    BY DEF Resume, QuerySettles, checkVars, closeVars
  <1>1. MemoInv'
    BY <1>0 DEF MemoInv, Live
  <1>2. CASE Resume(q)
    <2>0. at[q] = "ready" /\ awaits[q] \in Queries
      BY <1>2 DEF Resume, WaitInv
    <2>1. CASE check[awaits[q]] = "ok" /\ pool = "open" /\ at' = [at EXCEPT ![q] = "query"] /\ UNCHANGED outcome
      <3>1. ManagerTypeOK' /\ StartInv' /\ WaitInv'
        BY <1>0, <2>0, <2>1 DEF ManagerTypeOK, StartInv, WaitInv
      <3>2. GateInv'
        BY <1>0, <2>0, <2>1 DEF ManagerTypeOK, GateInv
      <3>3. CloseInv'
        BY <1>0, <2>1 DEF ManagerTypeOK, CloseInv
      <3>. QED
        BY <1>1, <3>1, <3>2, <3>3
    <2>2. ASSUME NEW result \in {"unready", "failed"}, Settle(q, result)
          PROVE ManagerInv'
      <3>1. ManagerTypeOK' /\ StartInv' /\ WaitInv' /\ GateInv'
        BY <1>0, <2>0, <2>2 DEF Settle, ManagerTypeOK, StartInv, WaitInv, GateInv
      <3>2. CloseInv'
        BY <1>0, <2>2 DEF Settle, ManagerTypeOK, CloseInv
      <3>. QED
        BY <1>1, <3>1, <3>2
    <2>. QED
      BY <1>2, <2>1, <2>2 DEF Resume, Accepted
  <1>3. CASE QuerySettles(q)
    <2>0. at[q] = "query"
      BY <1>3 DEF QuerySettles
    <2>1. PICK result \in {"rows", "failed"} : Settle(q, result)
      BY <1>3 DEF QuerySettles
    <2>2. ManagerTypeOK' /\ StartInv' /\ WaitInv' /\ GateInv'
      BY <1>0, <2>0, <2>1 DEF Settle, ManagerTypeOK, StartInv, WaitInv, GateInv
    <2>3. CloseInv'
      BY <1>0, <2>1 DEF Settle, ManagerTypeOK, CloseInv
    <2>. QED
      BY <1>1, <2>2, <2>3
  <1>. QED
    BY <1>2, <1>3

\* Disposal leaves the queries and the memo alone.
LEMMA CloseStep ==
  ASSUME ManagerInv,
         PoolEnds \/ \E d \in Disposers : Dispose(d) \/ DisposeResumes(d)
  PROVE ManagerInv'
  <1>. USE DEF ManagerInv
  <1>0. UNCHANGED <<at, awaits, stale, outcome, readyPromise, check>>
    BY DEF PoolEnds, Dispose, DisposeResumes, queryVars, checkVars
  <1>1. StartInv' /\ MemoInv' /\ WaitInv' /\ GateInv'
    BY <1>0 DEF StartInv, MemoInv, WaitInv, GateInv, Live
  <1>2. CASE PoolEnds
    <2>1. ManagerTypeOK'
      BY <1>0, <1>2 DEF PoolEnds, ManagerTypeOK
    <2>2. CloseInv'
      BY <1>0, <1>2 DEF PoolEnds, ManagerTypeOK, CloseInv
    <2>. QED
      BY <1>1, <2>1, <2>2
  <1>3. ASSUME NEW d \in Disposers, Dispose(d) PROVE ManagerInv'
    <2>1. ManagerTypeOK'
      BY <1>0, <1>3 DEF Dispose, ManagerTypeOK
    <2>2. CloseInv'
      BY <1>0, <1>3 DEF Dispose, ManagerTypeOK, CloseInv
    <2>. QED
      BY <1>1, <2>1, <2>2
  <1>4. ASSUME NEW d \in Disposers, DisposeResumes(d) PROVE ManagerInv'
    <2>1. ManagerTypeOK'
      BY <1>0, <1>4 DEF DisposeResumes, ManagerTypeOK
    <2>2. CloseInv'
      BY <1>0, <1>4 DEF DisposeResumes, ManagerTypeOK, CloseInv
    <2>. QED
      BY <1>1, <2>1, <2>2
  <1>. QED
    BY <1>2, <1>3, <1>4

LEMMA ManagerStep == ManagerInv /\ [ManagerNext]_managerVars => ManagerInv'
  <1>. SUFFICES ASSUME ManagerInv, [ManagerNext]_managerVars PROVE ManagerInv'
    OBVIOUS
  <1>1. CASE UNCHANGED managerVars
    BY <1>1 DEF managerVars, queryVars, checkVars, closeVars, ManagerInv, ManagerTypeOK,
                StartInv, MemoInv, WaitInv, GateInv, CloseInv, Live
  <1>2. CASE ManagerNext
    BY <1>2, RefuseStep, BeginStep, CheckStep, QueryStep, CloseStep DEF ManagerNext
  <1>. QED
    BY <1>1, <1>2

LEMMA ManagerInvariant == ManagerSpec => []ManagerInv
  <1>. QED
    BY InitManager, ManagerStep, PTL DEF ManagerSpec

\* The state of the client, the pool and the disposals keeps its type.
THEOREM ManagerTypes == ManagerSpec => []ManagerTypeOK
  <1>1. ManagerInv => ManagerTypeOK
    BY DEF ManagerInv
  <1>. QED
    BY ManagerInvariant, <1>1, PTL

\* For any number of overlapping queries, at most one readiness check is
\* under way, none after one has succeeded, and no statement before that.
THEOREM ReadinessValidatedOnce == ManagerSpec => []ValidatedOnce
  <1>1. ASSUME ManagerInv PROVE ValidatedOnce
    <2>1. \A k, l \in Queries : Live(k) /\ Live(l) => k = l
      BY <1>1 DEF ManagerInv, MemoInv
    <2>. QED
      BY <1>1, <2>1 DEF ManagerInv, GateInv, ValidatedOnce, Open, Live
  <1>. QED
    BY ManagerInvariant, <1>1, PTL

\* ready() never hands a query the failure of a check that was already
\* handled when the query began.
THEOREM ReadinessNotPinned == ManagerSpec => []FailureNotPinned
  <1>1. ManagerInv => FailureNotPinned
    BY DEF ManagerInv, WaitInv, FailureNotPinned
  <1>. QED
    BY ManagerInvariant, <1>1, PTL

\* disposeAsync closes the gRPC client after the pool, with no statement
\* under way, and whenever the pool has ended somebody still has the client
\* to close or it is closed.
THEOREM PoolClosedFirst == ManagerSpec => []PoolFirst
  <1>1. ManagerInv => PoolFirst
    BY DEF ManagerInv, ManagerTypeOK, CloseInv, PoolFirst
  <1>. QED
    BY ManagerInvariant, <1>1, PTL

-----------------------------------------------------------------------------
(***************************************************************************)
(* Command submission.  A submission keeps the transaction it belongs to   *)
(* and the signatures its call had collected.                              *)
(***************************************************************************)

Places == {"idle", "prepare", "preparing", "sign", "send", "sent", "done"}

SubmissionTypeOK ==
  /\ actAs \in [Requests -> SUBSET Parties]
  /\ callAt \in [Calls -> Places]
  /\ method \in [Calls -> Methods \cup {"none"}]
  /\ req \in [Calls -> Requests \cup {NoCall}]
  /\ tx \in [Calls -> Calls \cup {NoCall}]
  /\ sigs \in [Calls -> SUBSET Parties]

\* A call that goes out signed: through the signers, or with signatures of
\* the caller's.
GoesSigned(c) == Signed(c) \/ method[c] = "execute"

\* What a call that began knows of its transaction and of its signatures.
CallOK(c) ==
  /\ callAt[c] = "idle" => method[c] = "none"
  /\ callAt[c] # "idle" => /\ req[c] \in Requests /\ tx[c] \in Calls
                           /\ callAt[tx[c]] # "idle" /\ req[tx[c]] = req[c]
  /\ callAt[c] \in {"prepare", "preparing"} => sigs[c] = {} /\ method[c] # "execute"
  /\ callAt[c] = "sign" => sigs[c] \subseteq actAs[req[c]] /\ Signed(c)
  /\ callAt[c] \in {"send", "sent"} /\ GoesSigned(c) => sigs[c] = actAs[req[c]]

\* What a submission carries, on its way and once committed.
RecordOK(s) ==
  /\ s.tx \in Calls /\ callAt[s.tx] # "idle" /\ req[s.tx] = s.req
  /\ s.id = CommandId(s.tx, s.req)
  /\ s.signed => s.sigs = actAs[s.req]

SubmissionInv ==
  /\ SubmissionTypeOK
  /\ \A c \in Calls : CallOK(c)
  /\ \A s \in wire \cup commits : RecordOK(s)
  /\ \A s, d \in commits : s.id = d.id => s = d

LEMMA InitSubmission == SubmissionInit => SubmissionInv
  BY SubmissionAssumption DEF SubmissionInit, SubmissionInv, SubmissionTypeOK, CallOK, Places

\* A step keeps a record in order when it leaves begun calls their request
\* and does not touch the setting.
LEMMA RecordKept ==
  ASSUME SubmissionInv, NEW s, RecordOK(s), UNCHANGED setting,
         \A c \in Calls : callAt[c] # "idle" => callAt'[c] # "idle" /\ req'[c] = req[c]
  PROVE RecordOK(s)'
  BY DEF RecordOK, CommandId, setting

\* What every step of one call that began leaves alone.
Frame == UNCHANGED <<setting, method, req, tx>>

\* A call other than the one that moves stays in order.
LEMMA OthersKept ==
  ASSUME SubmissionInv, Frame, NEW c \in Calls, callAt[c] # "idle",
         NEW place \in Places \ {"idle"}, callAt' = [callAt EXCEPT ![c] = place],
         \A d \in Calls \ {c} : sigs'[d] = sigs[d]
  PROVE \A d \in Calls \ {c} : CallOK(d)'
  <1>. SUFFICES ASSUME NEW d \in Calls \ {c} PROVE CallOK(d)'
    OBVIOUS
  <1>1. callAt'[d] = callAt[d] /\ sigs'[d] = sigs[d] /\ tx' = tx /\ req' = req /\ method' = method
    BY DEF SubmissionInv, SubmissionTypeOK, Frame
  <1>2. \A e \in Calls : callAt[e] # "idle" => callAt'[e] # "idle"
    BY DEF SubmissionInv, SubmissionTypeOK
  <1>3. CallOK(d)
    BY DEF SubmissionInv
  <1>. QED
    BY <1>1, <1>2, <1>3 DEF CallOK, Signed, GoesSigned, Frame, setting

\* A step of one call keeps the invariant when the call itself stays in order.
LEMMA CallMoves ==
  ASSUME SubmissionInv, Frame, NEW c \in Calls, callAt[c] # "idle",
         NEW place \in Places \ {"idle"}, callAt' = [callAt EXCEPT ![c] = place],
         sigs' \in [Calls -> SUBSET Parties],
         \A d \in Calls \ {c} : sigs'[d] = sigs[d],
         CallOK(c)',
         commits' = commits, \A s \in wire' : RecordOK(s)'
  PROVE SubmissionInv'
  <1>1. SubmissionTypeOK'
    BY DEF SubmissionInv, SubmissionTypeOK, Frame, setting
  <1>2. \A d \in Calls : CallOK(d)'
    BY OthersKept
  <1>3. \A s \in commits' : RecordOK(s)'
    <2>1. \A e \in Calls : callAt[e] # "idle" => callAt'[e] # "idle" /\ req'[e] = req[e]
      BY DEF SubmissionInv, SubmissionTypeOK, Frame
    <2>. QED
      BY <2>1, RecordKept DEF SubmissionInv, Frame
  <1>. QED
    BY <1>1, <1>2, <1>3 DEF SubmissionInv

\* Records stay in order when a call moves.
LEMMA RecordsStay ==
  ASSUME SubmissionInv, Frame, NEW c \in Calls,
         NEW place \in Places \ {"idle"}, callAt' = [callAt EXCEPT ![c] = place]
  PROVE \A s : RecordOK(s) => RecordOK(s)'
  <1>1. \A e \in Calls : callAt[e] # "idle" => callAt'[e] # "idle" /\ req'[e] = req[e]
    BY DEF SubmissionInv, SubmissionTypeOK, Frame
  <1>. QED
    BY <1>1, RecordKept DEF Frame

\* A call begins.
LEMMA CallBegins ==
  ASSUME SubmissionInv, NEW c \in Calls, callAt[c] = "idle", UNCHANGED <<setting, remote>>,
         NEW m \in Methods, NEW r \in Requests, NEW origin \in Calls,
         origin = c \/ (callAt[origin] # "idle" /\ req[origin] = r),
         NEW given \in SUBSET Parties,
         NEW place \in {"prepare", "send", "done"}, NEW result,
         Start(c, m, r, origin, given, place, result),
         place = "prepare" => given = {} /\ m # "execute",
         place = "send" /\ ((m = "submit" /\ signer # "none") \/ m = "execute") => given = actAs[r]
  PROVE SubmissionInv'
  <1>. USE DEF Start, setting, remote
  <1>1. SubmissionTypeOK'
    <2>1. actAs' \in [Requests -> SUBSET Parties] /\ callAt' \in [Calls -> Places]
      BY DEF SubmissionInv, SubmissionTypeOK, Places
    <2>2. method' \in [Calls -> Methods \cup {"none"}] /\ sigs' \in [Calls -> SUBSET Parties]
      BY DEF SubmissionInv, SubmissionTypeOK
    <2>3. req' \in [Calls -> Requests \cup {NoCall}] /\ tx' \in [Calls -> Calls \cup {NoCall}]
      BY DEF SubmissionInv, SubmissionTypeOK
    <2>. QED
      BY <2>1, <2>2, <2>3 DEF SubmissionTypeOK
  <1>2. \A e \in Calls : callAt[e] # "idle" => callAt'[e] # "idle" /\ req'[e] = req[e]
    BY DEF SubmissionInv, SubmissionTypeOK
  <1>3. /\ callAt'[c] = place /\ method'[c] = m /\ req'[c] = r /\ tx'[c] = origin /\ sigs'[c] = given
        /\ \A d \in Calls \ {c} : /\ callAt'[d] = callAt[d] /\ method'[d] = method[d] /\ req'[d] = req[d]
                                  /\ tx'[d] = tx[d] /\ sigs'[d] = sigs[d]
    BY DEF SubmissionInv, SubmissionTypeOK
  <1>4. CallOK(c)'
    BY <1>2, <1>3 DEF CallOK, Signed, GoesSigned
  <1>5. \A d \in Calls \ {c} : CallOK(d)'
    <2>. SUFFICES ASSUME NEW d \in Calls \ {c} PROVE CallOK(d)'
      OBVIOUS
    <2>1. CallOK(d)
      BY DEF SubmissionInv
    <2>. QED
      BY <1>2, <1>3, <2>1 DEF CallOK, Signed, GoesSigned
  <1>6. \A s \in wire' \cup commits' : RecordOK(s)'
    BY <1>2, RecordKept DEF SubmissionInv
  <1>. QED
    BY <1>1, <1>4, <1>5, <1>6 DEF SubmissionInv

LEMMA NextSubmission == SubmissionInv /\ [SubmissionNext]_submissionVars => SubmissionInv'
  <1>. SUFFICES ASSUME SubmissionInv, [SubmissionNext]_submissionVars PROVE SubmissionInv'
    OBVIOUS
  <1>0. /\ callAt \in [Calls -> Places] /\ sigs \in [Calls -> SUBSET Parties]
        /\ \A c \in Calls : CallOK(c)
        /\ \A s \in wire \cup commits : RecordOK(s)
    BY DEF SubmissionInv, SubmissionTypeOK
  <1>1. ASSUME NEW c \in Calls, NEW m \in Methods, NEW r \in Requests, BeginCall(c, m, r)
        PROVE SubmissionInv'
    <2>. DEFINE place == IF Refusal(m, r) = "none" THEN IF Interactive(m) THEN "prepare" ELSE "send" ELSE "done"
    <2>1. /\ callAt[c] = "idle" /\ m # "execute" /\ UNCHANGED <<setting, remote>>
          /\ Start(c, m, r, c, {}, place, Refusal(m, r))
      BY <1>1 DEF BeginCall, IsNext
    <2>2. place \in {"prepare", "send", "done"}
      OBVIOUS
    <2>3. place = "send" => ~(m = "submit" /\ signer # "none")
      BY DEF Interactive
    <2>4. {} \in SUBSET Parties
      OBVIOUS
    <2>. HIDE DEF place
    <2>. QED
      BY <2>1, <2>2, <2>3, <2>4, CallBegins
  <1>2. ASSUME NEW c \in Calls, NEW p \in Calls, NEW given \in SUBSET Parties, BeginExecute(c, p, given)
        PROVE SubmissionInv'
    <2>. DEFINE refusal == IF actAs[req[p]] \subseteq given THEN "none" ELSE "unsigned"
                place == IF refusal = "none" THEN "send" ELSE "done"
                kept == actAs[req[p]] \cap given
    <2>1. /\ callAt[c] = "idle" /\ method[p] = "prepare" /\ UNCHANGED <<setting, remote>>
          /\ Start(c, "execute", req[p], p, kept, place, refusal)
      BY <1>2 DEF BeginExecute, IsNext
    <2>2. callAt[p] # "idle" /\ req[p] \in Requests
      BY <2>1, <1>0 DEF CallOK
    <2>3. place \in {"send", "done"} /\ kept \in SUBSET Parties /\ "execute" \in Methods
      BY DEF Methods
    <2>4. place = "send" => kept = actAs[req[p]]
      OBVIOUS
    <2>. HIDE DEF place, kept, refusal
    <2>. QED
      BY <2>1, <2>2, <2>3, <2>4, CallBegins
  <1>3. ASSUME NEW c \in Calls, Prepare(c) \/ Prepared(c) PROVE SubmissionInv'
    <2>1. /\ callAt[c] \in {"prepare", "preparing"} /\ Frame /\ sigs' = sigs /\ wire' = wire /\ commits' = commits
          /\ \E place \in {"preparing", "sign", "done"} :
               callAt' = [callAt EXCEPT ![c] = place] /\ (place = "sign" => Signed(c))
      BY <1>3 DEF Prepare, Prepared, Goto, End, Frame, remote
    <2>2. PICK place \in {"preparing", "sign", "done"} :
               callAt' = [callAt EXCEPT ![c] = place] /\ (place = "sign" => Signed(c))
      BY <2>1
    <2>3. callAt'[c] = place /\ place \in Places \ {"idle"} /\ callAt[c] # "idle"
      BY <2>1, <2>2, <1>0 DEF Places
    <2>4. CallOK(c)'
      <3>1. callAt'[tx[c]] # "idle"
        BY <1>0, <2>2, <2>3 DEF CallOK
      <3>. QED
        BY <1>0, <2>1, <2>2, <2>3, <3>1 DEF CallOK, Signed, Frame, setting
    <2>5. \A s \in wire' : RecordOK(s)'
      BY <1>0, <2>1, <2>2, <2>3, RecordsStay
    <2>. QED
      BY <1>0, <2>1, <2>2, <2>3, <2>4, <2>5, CallMoves
  <1>4. ASSUME NEW c \in Calls, NEW p \in Parties, Sign(c, p) PROVE SubmissionInv'
    <2>1. /\ callAt[c] = "sign" /\ p \in actAs[req[c]] /\ Frame /\ wire' = wire /\ commits' = commits
      BY <1>4 DEF Sign, Frame, remote
    <2>2. PICK place \in {"sign", "send", "done"} :
            /\ callAt' = [callAt EXCEPT ![c] = place]
            /\ sigs' = sigs \/ sigs' = [sigs EXCEPT ![c] = @ \cup {p}]
            /\ place = "sign" => sigs' = [sigs EXCEPT ![c] = @ \cup {p}]
            /\ place = "send" => /\ sigs' = [sigs EXCEPT ![c] = @ \cup {p}]
                                 /\ actAs[req[c]] \subseteq sigs[c] \cup {p}
      <3>1. callAt = [callAt EXCEPT ![c] = "sign"]
        BY <1>0, <2>1
      <3>. QED
        BY <1>4, <3>1 DEF Sign, Goto, End
    <2>3. callAt'[c] = place /\ place \in Places \ {"idle"} /\ callAt[c] # "idle"
      BY <2>1, <2>2, <1>0 DEF Places
    <2>4. sigs' \in [Calls -> SUBSET Parties] /\ \A d \in Calls \ {c} : sigs'[d] = sigs[d]
      BY <1>0, <2>2
    <2>5. CallOK(c)'
      <3>1. callAt'[tx[c]] # "idle"
        BY <1>0, <2>1, <2>2, <2>3 DEF CallOK
      <3>2. sigs[c] \subseteq actAs[req[c]]
        BY <1>0, <2>1 DEF CallOK
      <3>3. /\ place = "sign" => sigs'[c] \subseteq actAs[req[c]]
            /\ place = "send" => sigs'[c] = actAs[req[c]]
        <4>1. CASE sigs' = [sigs EXCEPT ![c] = @ \cup {p}]
          <5>1. sigs'[c] = sigs[c] \cup {p}
            BY <1>0, <4>1
          <5>. QED
            BY <2>1, <2>2, <3>2, <5>1
        <4>2. CASE place = "done"
          BY <4>2
        <4>. QED
          BY <2>2, <4>1, <4>2
      <3>. QED
        BY <1>0, <2>1, <2>2, <2>3, <3>1, <3>2, <3>3 DEF CallOK, Signed, Frame, setting
    <2>6. \A s \in wire' : RecordOK(s)'
      BY <1>0, <2>1, <2>2, <2>3, RecordsStay
    <2>. QED
      BY <1>0, <2>1, <2>2, <2>3, <2>4, <2>5, <2>6, CallMoves
  <1>5. ASSUME NEW c \in Calls, Send(c) PROVE SubmissionInv'
    <2>1. callAt[c] = "send" /\ Frame /\ sigs' = sigs /\ commits' = commits
      BY <1>5 DEF Send, Frame
    <2>2. PICK place \in {"sent", "done"} : callAt' = [callAt EXCEPT ![c] = place]
      BY <1>5 DEF Send, Goto, End
    <2>3. callAt'[c] = place /\ place \in Places \ {"idle"} /\ callAt[c] # "idle"
      BY <2>1, <2>2, <1>0 DEF Places
    <2>4. CallOK(c)'
      <3>1. callAt'[tx[c]] # "idle"
        BY <1>0, <2>1, <2>2, <2>3 DEF CallOK
      <3>. QED
        BY <1>0, <2>1, <2>2, <2>3, <3>1 DEF CallOK, Signed, GoesSigned, Frame, setting
    <2>5. wire' \subseteq wire \cup {Submission(c)}
      BY <1>5 DEF Send
    <2>6. RecordOK(Submission(c))
      BY <1>0, <2>1 DEF CallOK, GoesSigned, RecordOK, Submission
    <2>7. \A s \in wire' : RecordOK(s)'
      BY <1>0, <2>1, <2>2, <2>3, <2>5, <2>6, RecordsStay
    <2>. QED
      BY <1>0, <2>1, <2>2, <2>3, <2>4, <2>7, CallMoves
  <1>6. ASSUME NEW c \in Calls, Abandon(c) PROVE SubmissionInv'
    <2>1. /\ callAt[c] = "sent" /\ Frame /\ sigs' = sigs /\ commits' = commits /\ wire' \subseteq wire
          /\ callAt' = [callAt EXCEPT ![c] = "done"]
      BY <1>6 DEF Abandon, End, Frame
    <2>2. callAt'[c] = "done" /\ "done" \in Places \ {"idle"} /\ callAt[c] # "idle"
      BY <2>1, <1>0 DEF Places
    <2>3. CallOK(c)'
      <3>1. callAt'[tx[c]] # "idle"
        BY <1>0, <2>1, <2>2 DEF CallOK
      <3>. QED
        BY <1>0, <2>1, <2>2, <3>1 DEF CallOK, Signed, Frame, setting
    <2>4. \A s \in wire' : RecordOK(s)'
      BY <1>0, <2>1, <2>2, RecordsStay
    <2>. QED
      BY <1>0, <2>1, <2>2, <2>3, <2>4, CallMoves
  <1>7. ASSUME NEW s \in wire, Deliver(s) PROVE SubmissionInv'
    <2>1. /\ Frame /\ sigs' = sigs /\ wire' \subseteq wire
          /\ \/ commits' = commits
             \/ commits' = commits \cup {s} /\ \A d \in commits : d.id # s.id
          /\ \/ callAt' = callAt
             \/ callAt[s.call] = "sent" /\ callAt' = [callAt EXCEPT ![s.call] = "done"]
      BY <1>7 DEF Deliver, End, Frame
    <2>2. /\ callAt' \in [Calls -> Places]
          /\ \A d \in Calls : \/ callAt'[d] = callAt[d]
                              \/ callAt[d] = "sent" /\ callAt'[d] = "done"
      BY <1>0, <2>1 DEF Places
    <2>3. \A d \in Calls : CallOK(d)'
      BY <1>0, <2>1, <2>2 DEF CallOK, Signed, GoesSigned, Frame, setting
    <2>4. \A d \in wire' \cup commits' : RecordOK(d)'
      <3>1. \A e \in Calls : callAt[e] # "idle" => callAt'[e] # "idle" /\ req'[e] = req[e]
        BY <2>1, <2>2 DEF Frame
      <3>. QED
        BY <1>0, <2>1, <3>1, RecordKept DEF Frame
    <2>5. \A d, e \in commits' : d.id = e.id => d = e
      BY <2>1 DEF SubmissionInv
    <2>6. SubmissionTypeOK'
      BY <2>1, <2>2 DEF SubmissionInv, SubmissionTypeOK, Frame, setting
    <2>. QED
      BY <2>3, <2>4, <2>5, <2>6 DEF SubmissionInv
  <1>8. CASE DisposeTransport \/ UNCHANGED submissionVars
    <2>1. Frame /\ UNCHANGED <<callAt, sigs, wire, commits>>
      BY <1>8 DEF DisposeTransport, submissionVars, callVars, remote, Frame
    <2>2. \A d \in Calls : CallOK(d)'
      BY <1>0, <2>1 DEF CallOK, Signed, GoesSigned, Frame, setting
    <2>3. \A s \in wire' \cup commits' : RecordOK(s)'
      BY <1>0, <2>1 DEF RecordOK, CommandId, Frame, setting
    <2>4. SubmissionTypeOK' /\ \A d, e \in commits' : d.id = e.id => d = e
      BY <2>1 DEF SubmissionInv, SubmissionTypeOK, Frame, setting
    <2>. QED
      BY <2>2, <2>3, <2>4 DEF SubmissionInv
  <1>. QED
    BY <1>1, <1>2, <1>3, <1>4, <1>5, <1>6, <1>7, <1>8 DEF SubmissionNext

(* Whatever is repeated, abandoned and overtaken: a request with a command *)
(* id of its own, and a prepared transaction, is committed at most once.   *)
THEOREM SubmissionsCommitOnce == SubmissionSpec => []CommitsOnce
  <1>1. SubmissionInv => CommitsOnce
    <2>. SUFFICES ASSUME SubmissionInv, NEW s \in commits, NEW d \in commits, s # d
                  PROVE /\ s.req = d.req => s.req \notin named
                        /\ s.signed /\ d.signed => s.tx # d.tx
      BY DEF CommitsOnce
    <2>1. RecordOK(s) /\ RecordOK(d) /\ s.id # d.id
      BY DEF SubmissionInv
    <2>. QED
      BY <2>1 DEF RecordOK, CommandId
  <1>. QED
    BY <1>1, InitSubmission, NextSubmission, PTL DEF SubmissionSpec

(* An interactive submission on its way or committed carries exactly the   *)
(* signatures of the acting parties, whichever signers fail or are missing.*)
THEOREM SubmissionsAreSigned == SubmissionSpec => []SignedByAll
  <1>1. SubmissionInv => SignedByAll
    BY DEF SubmissionInv, RecordOK, SignedByAll
  <1>. QED
    BY <1>1, InitSubmission, NextSubmission, PTL DEF SubmissionSpec
=============================================================================
