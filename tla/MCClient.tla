------------------------------ MODULE MCClient ------------------------------
(***************************************************************************)
(* Instance of what an application holds: the manager with its queries,    *)
(* and the submissions of the client, whose transport may be disposed at   *)
(* any time (the manager's disposal is one occasion).  Apart from that     *)
(* they share no variable, so each is explored while the other rests.      *)
(***************************************************************************)
EXTENDS PqsManager, CommandSubmission

CONSTANT p1

VARIABLE side  (* the one that runs *)

SubmissionRests ==
  /\ transport = "grpc" /\ signer = "none" /\ signing = {}
  /\ named = {} /\ period = [r \in Requests |-> "unset"]
  /\ actAs = [r \in Requests |-> Parties]
  /\ SubmissionInit

\* Parties are interchangeable: one that acts in the request is the first.
SubmissionStart == SubmissionInit /\ \A r \in Requests : p1 \in actAs[r]

ClientInit ==
  \/ side = "manager" /\ ManagerInit /\ SubmissionRests
  \/ side = "submission" /\ ManagerInit /\ SubmissionStart

clientVars == <<side, managerVars, submissionVars>>

\* A step of one side.
Managing(step) == side = "manager" /\ step /\ UNCHANGED <<side, submissionVars>>
Submitting(step) == side = "submission" /\ step /\ UNCHANGED <<side, managerVars>>

ClientNext == Managing(ManagerNext) \/ Submitting(SubmissionNext)

\* The fairness of FairManagerSpec and of FairSubmissionSpec.
ClientSpec ==
  /\ ClientInit /\ [][ClientNext]_clientVars
  /\ WF_clientVars(Managing(PoolEnds))
  /\ \A q \in Queries :
       WF_clientVars(Managing(CheckSettles(q) \/ Clear(q) \/ Resume(q) \/ QuerySettles(q)))
  /\ \A d \in Disposers : WF_clientVars(Managing(DisposeResumes(d)))
  /\ \A c \in Calls :
       /\ WF_clientVars(Submitting(Prepare(c) \/ Prepared(c) \/ Send(c) \/ Abandon(c)))
       /\ WF_clientVars(Submitting(\E p \in Parties : Sign(c, p)))

-----------------------------------------------------------------------------

(* Nothing hangs.  Every query and every disposal of a manager comes to an *)
(* end, whoever's schema check they joined and whenever the pool goes; and *)
(* so does every submission that began, whether its signers answer or fail *)
(* and whether the transport is disposed under it or not.                  *)
AllSettle == EverythingSettles /\ CallsSettle
=============================================================================
