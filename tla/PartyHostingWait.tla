-------------------------- MODULE PartyHostingWait --------------------------
(***************************************************************************)
(* waitForPartyHostingAsync over pollUntilAsync: read the party listing,   *)
(* look for the exact hosting, sleep, and read again until the deadline.   *)
(* The participant evaluates a listing at some moment between request and  *)
(* answer, timers fire late, and the hosting may come and go meanwhile.    *)
(***************************************************************************)
EXTENDS Integers

CONSTANTS
  WaitTimeouts,  (* request.timeoutMs tried                                *)
  WaitIntervals, (* request.pollIntervalMs tried                           *)
  MaxTimerLag,   (* how late a timer fires at most                         *)
  MaxTime        (* bound: the clock of the instance stops here            *)

\* The constructor of WaitForPartyHostingRequest refuses anything else.
ASSUME WaitAssumption ==
  /\ WaitTimeouts \subseteq Nat \ {0}
  /\ WaitIntervals \subseteq Nat
  /\ MaxTimerLag \in Nat
  /\ MaxTime \in Nat

VARIABLES
  now,            (* Date.now()                                            *)
  timeoutMs,      (* init.timeoutMs                                        *)
  pollIntervalMs, (* init.pollIntervalMs                                   *)
  deadline,       (* the time after which no read is started               *)
  waitAt,         (* the await the wait is suspended at                    *)
  timerDue,       (* when the timer of the sleep is due                    *)
  reply,          (* the answer of the participant, on its way             *)
  last,           (* lastObserved                                          *)
  waitOutcome,    (* how the wait ended                                    *)
  hosted,         (* participant: the exact hosting exists                 *)
  decoy,          (* participant: another result passes the filters        *)
  heardAt,        (* history: when the last answer arrived                 *)
  hostedSeen,     (* history: it existed at a moment of the last read      *)
  missing         (* history: at a moment of the last read it was absent   *)
                  (* or a decoy took its place in the listing              *)

waitRequest == <<timeoutMs, pollIntervalMs>>
listingVars == <<hosted, decoy>>
history == <<heardAt, hostedSeen, missing>>
waitVars == <<now, waitRequest, deadline, waitAt, timerDue, reply, last, waitOutcome,
              listingVars, history>>

\* The listing is limited to one result of those that pass the filters.
Listing ==
  CASE hosted /\ decoy -> {"match", "decoy"}
    [] hosted /\ ~decoy -> {"match"}
    [] ~hosted /\ decoy -> {"decoy"}
    [] ~hosted /\ ~decoy -> {"none"}

Obstructed == ~hosted \/ decoy

WaitInit ==
  /\ now = 0
  /\ timeoutMs \in WaitTimeouts
  /\ pollIntervalMs \in WaitIntervals
  /\ deadline = now + timeoutMs
  /\ waitAt = "reading"
  /\ timerDue = 0
  /\ reply = "none"
  /\ last = "unread"
  /\ waitOutcome = "pending"
  /\ hosted \in BOOLEAN
  /\ decoy \in BOOLEAN
  /\ heardAt = 0
  /\ hostedSeen = hosted
  /\ missing = Obstructed

-----------------------------------------------------------------------------

\* The participant evaluates listPartiesAsync.
Answer ==
  /\ waitAt = "reading"
  /\ reply' \in Listing
  /\ waitAt' = "replied"
  /\ UNCHANGED <<now, waitRequest, deadline, timerDue, last, waitOutcome, listingVars, history>>

EndWait(result) ==
  /\ waitAt' = "done"
  /\ waitOutcome' = result

\* findPartyHosting compares party, participant and synchronizer exactly.
Matches(value) == value = "match"

\* The timer of sleepAsync(min(pollIntervalMs, remainingMs)).
WakeAt(t) == IF pollIntervalMs < deadline - t THEN t + pollIntervalMs ELSE deadline

\* Slip: an answer that arrives after the deadline is not looked at.
ReadResolvesInTime ==
  /\ waitAt = "replied"
  /\ last' = reply
  /\ heardAt' = now
  /\ \/ Matches(reply) /\ now < deadline /\ EndWait("found") /\ UNCHANGED timerDue
     \/ now >= deadline /\ EndWait("timeout") /\ UNCHANGED timerDue
     \/ /\ ~Matches(reply) /\ now < deadline
        /\ waitAt' = "sleeping" /\ timerDue' = WakeAt(now) /\ UNCHANGED waitOutcome
  /\ UNCHANGED <<now, waitRequest, deadline, reply, listingVars, hostedSeen, missing>>

\* The answer arrives: return it if it matches, even after the deadline;
\* otherwise give up at the deadline or sleep.
ReadResolves ==
  /\ waitAt = "replied"
  /\ last' = reply
  /\ heardAt' = now
  /\ \/ Matches(reply) /\ EndWait("found") /\ UNCHANGED timerDue
     \/ ~Matches(reply) /\ now >= deadline /\ EndWait("timeout") /\ UNCHANGED timerDue
     \/ /\ ~Matches(reply) /\ now < deadline
        /\ waitAt' = "sleeping" /\ timerDue' = WakeAt(now) /\ UNCHANGED waitOutcome
  /\ UNCHANGED <<now, waitRequest, deadline, reply, listingVars, hostedSeen, missing>>

\* A failed request ends the wait with its error.
ReadRejects ==
  /\ waitAt \in {"reading", "replied"}
  /\ EndWait("rejected")
  /\ UNCHANGED <<now, waitRequest, deadline, timerDue, reply, last, listingVars, history>>

\* Slip: every turn of the loop starts a new deadline.
WakesAfresh ==
  /\ waitAt = "sleeping"
  /\ now >= timerDue
  /\ waitAt' = "reading"
  /\ deadline' = now + timeoutMs
  /\ hostedSeen' = hosted
  /\ missing' = Obstructed
  /\ UNCHANGED <<now, waitRequest, timerDue, reply, last, waitOutcome, listingVars, heardAt>>

\* The timer fires: start another read before the deadline, or give up.
Wakes ==
  /\ waitAt = "sleeping"
  /\ now >= timerDue
  /\ \/ /\ now < deadline
        /\ waitAt' = "reading"
        /\ hostedSeen' = hosted
        /\ missing' = Obstructed
        /\ UNCHANGED waitOutcome
     \/ /\ now >= deadline
        /\ EndWait("timeout")
        /\ UNCHANGED <<hostedSeen, missing>>
  /\ UNCHANGED <<now, waitRequest, deadline, timerDue, reply, last, listingVars, heardAt>>

\* Time passes; a timer that is due fires within MaxTimerLag.
TimePasses ==
  /\ now < MaxTime
  /\ waitAt # "done"
  /\ waitAt = "sleeping" => now < timerDue + MaxTimerLag
  /\ now' = now + 1
  /\ UNCHANGED <<waitRequest, deadline, waitAt, timerDue, reply, last, waitOutcome, listingVars, history>>

\* The topology changes; while a read is unanswered it may show either state.
TopologyChanges ==
  /\ waitAt # "done"
  /\ hosted' \in BOOLEAN /\ decoy' \in BOOLEAN
  /\ hostedSeen' = (hostedSeen \/ (waitAt = "reading" /\ hosted'))
  /\ missing' = (missing \/ (waitAt = "reading" /\ Obstructed'))
  /\ UNCHANGED <<now, waitRequest, deadline, waitAt, timerDue, reply, last, waitOutcome, heardAt>>

WaitStep == Answer \/ ReadResolves \/ ReadRejects \/ Wakes

WaitNext == WaitStep \/ TimePasses \/ TopologyChanges

\* Requests are answered or fail, timers fire, time passes.
WaitSpec ==
  /\ WaitInit /\ [][WaitNext]_waitVars
  /\ WF_waitVars(WaitStep) /\ WF_waitVars(TimePasses)

-----------------------------------------------------------------------------

(* The end of a wait tells the truth about the topology.  One that found   *)
(* the hosting returns a result the participant held during the last read, *)
(* never a decoy that only passes the server's filters.  One that gave up  *)
(* had reached its deadline, had looked again within one poll interval of  *)
(* it, and during that look the exact hosting was absent or hidden behind  *)
(* another result: a late answer that matches is never dropped.            *)
WaitTruthful ==
  /\ waitOutcome = "found" => last = "match" /\ hostedSeen
  /\ waitOutcome = "timeout" =>
       /\ now >= deadline
       /\ last = reply
       /\ heardAt >= deadline - pollIntervalMs - MaxTimerLag
       /\ missing

(* Every wait ends, also with a zero interval, also when the hosting never *)
(* appears.                                                                *)
WaitEnds == <>(waitAt = "done")
=============================================================================
