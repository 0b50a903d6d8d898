------------------------------ MODULE MCReplay ------------------------------
(***************************************************************************)
(* Instance of the parts of the replay debugger.  They run one after the   *)
(* other in the code and share no variable, so each is explored while the  *)
(* others rest in a fixed state: nothing one of them does can change what  *)
(* is true of another.                                                     *)
(***************************************************************************)
EXTENDS ReplayHydration, ReplayArtifacts, ReplaySession

VARIABLE part  (* the part that runs *)

\* Two DARs with a main package each and one package either may hold.
TwoMains == [d \in Dars |-> IF d = "dar1" THEN "one" ELSE "two"]

\* Long enough for a closure to be applied below a call; shorter where every
\* step may also be left out.
TraceLengths == [mapped \in BOOLEAN |-> IF mapped THEN 9 ELSE 15]

HydrationRests == refs = [c \in Contracts |-> {}] /\ HydrationInit
ArtifactsRest ==
  /\ store = [d \in Dars |-> Unmapped({Main[d]})]
  /\ required = <<CHOOSE p \in Packages : TRUE>>
  /\ ArtifactInit
SessionRests == sourceMapped = (CHOOSE mapped \in SourceMappers : TRUE) /\ SessionInit

\* Only whether two fingerprints are equal matters: fix one of them.  One
\* package at most is held and not shown, by the first DAR (up to the names
\* of the DARs); then one package is required and no fingerprints differ, so
\* that what the second DAR's source map names makes no difference.
Hidden(content) == IF content.mapped THEN content.holds \ (content.decoded \ content.debug) ELSE {}
ArtifactsStart ==
  \E one \in {c \in Contents["dar1"] : c.print # "y" /\ Cardinality(Hidden(c)) <= 1},
     two \in {c \in Contents["dar2"] : Hidden(c) = {}} :
    /\ store = [d \in Dars |-> IF d = "dar1" THEN one ELSE two]
    /\ ArtifactInit
    /\ Hidden(one) = {} \/ (two.print # "y" /\ two.names = NoPackage /\ Len(required) = 1)

ReplayInit ==
  \/ part = "hydration" /\ HydrationInit /\ ArtifactsRest /\ SessionRests
  \/ part = "artifacts" /\ HydrationRests /\ ArtifactsStart /\ SessionRests
  \/ part = "session" /\ HydrationRests /\ ArtifactsRest /\ SessionInit

ReplayVars == <<part, hydrationVars, artifactVars, sessionVars>>

HydrationMoves ==
  part = "hydration" /\ HydrationNext /\ UNCHANGED <<part, artifactVars, sessionVars>>
ArtifactsMove ==
  part = "artifacts" /\ ArtifactNext /\ UNCHANGED <<part, hydrationVars, sessionVars>>
SessionMoves ==
  part = "session" /\ SessionNext /\ UNCHANGED <<part, hydrationVars, artifactVars>>

ReplayNext == HydrationMoves \/ ArtifactsMove \/ SessionMoves

\* The fairness of FairHydrationSpec and of ArtifactSpec.
ReplaySpec ==
  /\ ReplayInit /\ [][ReplayNext]_ReplayVars
  /\ WF_ReplayVars(HydrationMoves) /\ WF_ReplayVars(ArtifactsMove)

-----------------------------------------------------------------------------

(* Loading a replay ends, with a result or an error, whatever cycles the   *)
(* contracts' payloads form (buildAsync's worklist) and however packages   *)
(* and DARs import each other (resolveAsync's worklist).                   *)
LoadingEnds ==
  /\ part = "hydration" => LoadEnds
  /\ part = "artifacts" => ResolutionEnds
=============================================================================
