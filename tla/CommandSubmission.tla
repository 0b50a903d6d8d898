------------------------- MODULE CommandSubmission -------------------------
(***************************************************************************)
(* Command submission: CommandSubmissionPipeline over a gRPC or a JSON     *)
(* transport that may be disposed at any time.  A call submits a request   *)
(* directly, submits it through preparation, external signatures and       *)
(* execution, or performs preparation or execution alone.                  *)
(*                                                                         *)
(* The application repeats calls as it likes.  A call may be abandoned     *)
(* (deadline, broken connection) while its submission is still on its way, *)
(* so that a repetition overtakes it.  The participant drops a submission  *)
(* whose command id has been committed: that is Canton's deduplication.    *)
(***************************************************************************)
EXTENDS Integers, FiniteSets

CONSTANTS
  Calls,    (* calls of the command service, numbered as they are made     *)
  Requests, (* SubmitCommandsRequest objects of the application            *)
  Parties,
  NoCall

ASSUME SubmissionAssumption == Calls \subseteq Nat /\ NoCall \notin Calls \cup Requests

VARIABLES
  transport,         (* "grpc" or "json"                                   *)
  signer,            (* "none", "one" for all, or "each": one per party    *)
  signing,           (* the parties that have a signer under "each"        *)
  named,             (* the requests with a command id of their own        *)
  period,            (* deduplication: "unset", "begin" (offset 0), "set"  *)
  actAs,             (* the acting parties of a request                    *)
  transportDisposed, (* the transport's flag; the channel closes with it   *)
  callAt,            (* where each call is                                 *)
  method,            (* of each call                                       *)
  req,               (* the request of each call                           *)
  tx,                (* the call that prepared what a call executes        *)
  sigs,              (* signatures a call has collected, by party          *)
  callOutcome,       (* how each call ended                                *)
  wire,              (* submissions on their way to the participant        *)
  commits            (* submissions the participant has committed          *)

setting == <<transport, signer, signing, named, period, actAs>>
callVars == <<callAt, method, req, tx, sigs, callOutcome>>
remote == <<wire, commits>>
submissionVars == <<setting, transportDisposed, callVars, remote>>

Plain == {"submit", "local", "forTransaction"}
Methods == Plain \cup {"prepare", "execute"}

SubmissionInit ==
  /\ transport \in {"grpc", "json"}
  /\ signer \in {"none", "one", "each"}
  /\ signing \in SUBSET Parties
  /\ signer # "each" => signing = {}
  /\ named \in SUBSET Requests
  /\ period \in [Requests -> {"unset", "begin", "set"}]
  /\ actAs \in [Requests -> (SUBSET Parties) \ {{}}]
  /\ transportDisposed = FALSE
  /\ callAt = [c \in Calls |-> "idle"]
  /\ method = [c \in Calls |-> "none"]
  /\ req = [c \in Calls |-> NoCall]
  /\ tx = [c \in Calls |-> NoCall]
  /\ sigs = [c \in Calls |-> {}]
  /\ callOutcome = [c \in Calls |-> "none"]
  /\ wire = {} /\ commits = {}

\* Slip: an id is generated although the request has one.
FreshId(origin, r) == <<"uuid", origin>>

\* request.commandId ?? randomUUID(), for a submission that originates in a
\* call: the id stays with a prepared transaction.
CommandId(origin, r) == IF r \in named THEN <<"given", r>> ELSE <<"uuid", origin>>

\* Whether a call goes through preparation.
Interactive(m) == m = "prepare" \/ (m = "submit" /\ signer # "none")

Signed(c) == method[c] = "submit" /\ signer # "none"

-----------------------------------------------------------------------------

\* Why a call is refused before any request is made, in the order of the
\* checks; "none" when it is not.
Refusal(m, r) ==
  CASE m = "submit" /\ signer # "none" /\ transport = "json" -> "unsupported"
    [] m \notin {"submit", "local"} /\ transport = "json" -> "unsupported"
    [] m \in Plain /\ transportDisposed -> "disposed"
    [] m \in {"submit", "local"} /\ transport = "json" /\ period[r] # "unset" -> "unsupported"
    [] m = "submit" /\ signer = "each" /\ Cardinality(actAs[r]) # 1 -> "invalid"
    [] Interactive(m) /\ period[r] = "begin" -> "invalid"
    [] OTHER -> "none"

Start(c, m, r, origin, given, place, result) ==
  /\ callAt' = [callAt EXCEPT ![c] = place]
  /\ method' = [method EXCEPT ![c] = m]
  /\ req' = [req EXCEPT ![c] = r]
  /\ tx' = [tx EXCEPT ![c] = origin]
  /\ sigs' = [sigs EXCEPT ![c] = given]
  /\ callOutcome' = [callOutcome EXCEPT ![c] = result]

\* The calls are numbered in the order in which they are made.
IsNext(c) == callAt[c] = "idle" /\ \A d \in Calls : d < c => callAt[d] # "idle"

BeginCall(c, m, r) ==
  /\ IsNext(c)
  /\ m # "execute"
  /\ LET refusal == Refusal(m, r)
         first == IF Interactive(m) THEN "prepare" ELSE "send"
     IN  Start(c, m, r, c, {}, IF refusal = "none" THEN first ELSE "done", refusal)
  /\ UNCHANGED <<setting, transportDisposed, remote>>

\* Detached signatures, for any of the parties, with a prepared transaction.
BeginExecute(c, p, given) ==
  /\ IsNext(c)
  /\ method[p] = "prepare" /\ callOutcome[p] = "ok"
  /\ LET refusal == IF actAs[req[p]] \subseteq given THEN "none" ELSE "unsigned"
     IN  Start(c, "execute", req[p], p, actAs[req[p]] \cap given,
               IF refusal = "none" THEN "send" ELSE "done", refusal)
  /\ UNCHANGED <<setting, transportDisposed, remote>>

End(c, result) ==
  /\ callAt' = [callAt EXCEPT ![c] = "done"]
  /\ callOutcome' = [callOutcome EXCEPT ![c] = result]

Goto(c, place) ==
  /\ callAt' = [callAt EXCEPT ![c] = place]
  /\ UNCHANGED callOutcome

\* The channel of a disposed gRPC transport is closed; fetch has none.
Reachable == transport = "json" \/ ~transportDisposed

\* Call options are built (which awaits a token) and the request is made.
Prepare(c) ==
  /\ callAt[c] = "prepare"
  /\ \/ /\ Reachable
        /\ Goto(c, "preparing")
     \/ /\ ~Reachable
        /\ End(c, "failed")
  /\ UNCHANGED <<setting, transportDisposed, method, req, tx, sigs, wire, commits>>

\* A transaction and its hash, an incomplete answer, or a failure.
Prepared(c) ==
  /\ callAt[c] = "preparing"
  /\ \/ Signed(c) /\ Goto(c, "sign")
     \/ ~Signed(c) /\ End(c, "ok")
     \/ End(c, "failed")
  /\ UNCHANGED <<setting, transportDisposed, method, req, tx, sigs, remote>>

\* Slip: a party without a signer is left out.
SignSkips(c, p) ==
  /\ callAt[c] = "sign"
  /\ p \in actAs[req[c]] \ sigs[c]
  /\ \/ /\ signer = "one" \/ p \in signing
        /\ sigs' = [sigs EXCEPT ![c] = @ \cup {p}]
        /\ IF actAs[req[c]] \subseteq sigs[c] \cup {p}
             THEN Goto(c, "send") ELSE UNCHANGED <<callAt, callOutcome>>
     \/ /\ signer = "each" /\ p \notin signing
        /\ Goto(c, "send")
        /\ UNCHANGED sigs
  /\ UNCHANGED <<setting, transportDisposed, method, req, tx, remote>>

\* One signer of Promise.all: none for the party, a failure or a signature.
Sign(c, p) ==
  /\ callAt[c] = "sign"
  /\ p \in actAs[req[c]] \ sigs[c]
  /\ \/ /\ signer = "each" /\ p \notin signing
        /\ End(c, "unsigned")
        /\ UNCHANGED sigs
     \/ /\ signer = "one" \/ p \in signing
        /\ End(c, "failed")
        /\ UNCHANGED sigs
     \/ /\ signer = "one" \/ p \in signing
        /\ sigs' = [sigs EXCEPT ![c] = @ \cup {p}]
        /\ IF actAs[req[c]] \subseteq sigs[c] \cup {p}
             THEN Goto(c, "send") ELSE UNCHANGED <<callAt, callOutcome>>
  /\ UNCHANGED <<setting, transportDisposed, method, req, tx, remote>>

Submission(c) ==
  [call |-> c, req |-> req[c], tx |-> tx[c], sigs |-> sigs[c],
   signed |-> Signed(c) \/ method[c] = "execute",
   id |-> CommandId(tx[c], req[c])]

\* submitAndWait, submitAndWaitForTransaction or executeSubmissionAndWait.
Send(c) ==
  /\ callAt[c] = "send"
  /\ \/ /\ Reachable
        /\ wire' = wire \cup {Submission(c)}
        /\ Goto(c, "sent")
     \/ /\ ~Reachable
        /\ End(c, "failed")
        /\ UNCHANGED wire
  /\ UNCHANGED <<setting, transportDisposed, method, req, tx, sigs, commits>>

\* How a rejected call ends: fetch resolves with an error status too, and the
\* JSON client takes any JSON body for the answer.
Rejection == IF transport = "json" THEN {"failed", "ok"} ELSE {"failed"}

\* The participant commits a submission, or rejects it: always when its
\* command id has been committed before, possibly for another reason.  The
\* answer reaches a call that still waits for it.
Deliver(s) ==
  /\ s \in wire
  /\ wire' = wire \ {s}
  /\ \/ /\ s.id \notin {d.id : d \in commits}
        /\ commits' = commits \cup {s}
        /\ IF callAt[s.call] = "sent" THEN End(s.call, "ok") ELSE UNCHANGED <<callAt, callOutcome>>
     \/ /\ UNCHANGED commits
        /\ IF callAt[s.call] = "sent"
             THEN \E result \in Rejection : End(s.call, result)
             ELSE UNCHANGED <<callAt, callOutcome>>
  /\ UNCHANGED <<setting, transportDisposed, method, req, tx, sigs>>

\* The deadline passes or the connection breaks; the submission may be lost.
Abandon(c) ==
  /\ callAt[c] = "sent"
  /\ End(c, "failed")
  /\ wire' \in {wire, {s \in wire : s.call # c}}
  /\ UNCHANGED <<setting, transportDisposed, method, req, tx, sigs, commits>>

\* disposeAsync: the flag and the close happen in one turn of the event loop.
DisposeTransport ==
  /\ ~transportDisposed
  /\ transportDisposed' = TRUE
  /\ UNCHANGED <<setting, callVars, remote>>

SubmissionNext ==
  \/ DisposeTransport
  \/ \E c \in Calls :
       \/ \E m \in Methods, r \in Requests : BeginCall(c, m, r)
       \/ \E p \in Calls, given \in SUBSET Parties : BeginExecute(c, p, given)
       \/ Prepare(c) \/ Prepared(c) \/ Send(c) \/ Abandon(c)
       \/ \E p \in Parties : Sign(c, p)
  \/ \E s \in wire : Deliver(s)

SubmissionSpec == SubmissionInit /\ [][SubmissionNext]_submissionVars

\* Requests and signers answer or fail, and the event loop runs what is due.
FairSubmissionSpec ==
  /\ SubmissionSpec
  /\ \A c \in Calls :
       /\ WF_submissionVars(Prepare(c) \/ Prepared(c) \/ Send(c) \/ Abandon(c))
       /\ WF_submissionVars(\E p \in Parties : Sign(c, p))

-----------------------------------------------------------------------------

(* A request with a command id is committed at most once, whatever calls   *)
(* carry it, however they are repeated, abandoned and overtaken; and so is *)
(* a prepared transaction, with or without one, however often executed.    *)
CommitsOnce ==
  \A s, d \in commits :
    s # d => /\ s.req = d.req => s.req \notin named
             /\ s.signed /\ d.signed => s.tx # d.tx

(* An interactive submission carries a signature for each acting party and *)
(* for nobody else, also when signers fail, are missing, or the signatures *)
(* were collected elsewhere.                                               *)
SignedByAll == \A s \in wire \cup commits : s.signed => s.sigs = actAs[s.req]

(* Every call that began comes to an end, disposed or not.                 *)
CallsSettle == []<>(\A c \in Calls : callAt[c] \in {"idle", "done"})
=============================================================================
