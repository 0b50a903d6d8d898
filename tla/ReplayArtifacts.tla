--------------------------- MODULE ReplayArtifacts ---------------------------
(***************************************************************************)
(* ReplayArtifactResolver.resolveAsync: from the packages a replay needs   *)
(* to the source-mapped DARs that hold them and everything they import.    *)
(* The participant holds overlapping DARs, uploaded by different people;   *)
(* it lists the DARs of a package in any order.                            *)
(***************************************************************************)
EXTENDS Naturals, FiniteSets, Sequences, SequencesExt

CONSTANTS
    Packages,   \* package ids
    Dars,       \* the DARs of the participant
    Main,       \* Main[d]: the id of the main package of DAR d
    Prints,     \* fingerprints of sources and mapping records
    NoPackage,
    MaxRequired \* bound: length of requiredPackageIds

ASSUME ArtifactAssumption ==
    /\ Main \in [Dars -> Packages] /\ MaxRequired \in Nat \ {0}
    /\ IsFiniteSet(Packages) /\ IsFiniteSet(Dars)
    /\ NoPackage \notin Packages \cup Dars \cup Prints
    /\ \A held \in SUBSET Packages : held # NoPackage

VARIABLES
    store,          \* the DARs' contents; never changes
    required,       \* the argument
    worklist, seen, \* the worklist and seenPackageIds
    resolved,       \* resolvedDars
    packageIds,     \* replayPackageIds
    prints,         \* packageFingerprints
    candidates,     \* candidateByDarMainPackageId: what each contains
    darOf,          \* darMainPackageIdByContainedPackageId
    packageId,      \* the package of this turn
    listing,        \* the DARs still to look at for it
    selected,       \* selectedCandidate
    lookedUp,       \* history: packages whose references were read
    pc              \* "turn", "references", "listing" or the outcome

known == <<seen, resolved, packageIds, prints, candidates, darOf>>
input == <<store, required>>
artifactVars  == <<input, known, worklist, packageId, listing, selected, lookedUp, pc>>

(* A DAR holds, and is listed for, its main package and perhaps others.    *)
(* Without a source map nothing else of it matters.  With one, the map may *)
(* name the package it describes.  Of the held packages the SDK can decode *)
(* some, of which some are debug-locations packages; `imports' is what the *)
(* map and the decoded packages import, held by the DAR or not.            *)
Unmapped(held) ==
    [mapped |-> FALSE, holds |-> held, decoded |-> {}, debug |-> {}, imports |-> {},
     names |-> NoPackage, print |-> NoPackage]
Mapped(d, held, decoded) ==
    [mapped : {TRUE}, holds : {held}, decoded : {decoded}, debug : SUBSET (decoded \ {Main[d]}),
     imports : SUBSET (Packages \ {Main[d]}), names : held \cup {NoPackage}, print : Prints]
Contents ==
    [d \in Dars |->
        UNION {{Unmapped(held)} \cup UNION {Mapped(d, held, decoded) : decoded \in SUBSET held} :
               held \in {h \in SUBSET Packages : Main[d] \in h}}]

ArtifactInit ==
    /\ store \in {s \in [Dars -> UNION {Contents[d] : d \in Dars}] :
                     \A d \in Dars : s[d] \in Contents[d]}
    /\ required \in UNION {[1..n -> Packages] : n \in 1..MaxRequired}
    /\ worklist = required
    /\ seen = {} /\ resolved = {} /\ packageIds = {}
    /\ prints = [p \in Packages |-> NoPackage]
    /\ candidates = [d \in Dars |-> NoPackage]
    /\ darOf = [p \in Packages |-> NoPackage]
    /\ packageId = NoPackage /\ listing = <<>> /\ selected = NoPackage
    /\ lookedUp = {} /\ pc = "turn"

-----------------------------------------------------------------------------
(* What a turn does with the DAR it settled on: its packages become known, *)
(* its imports join the worklist.                                          *)

(* Slip: only imports that are known already are followed.                 *)
UnseenKnown(imports) == {p \in imports \ seen' : darOf[p] # NoPackage}

Unseen(imports) == imports \ seen'

Adopt(d) ==
    /\ resolved' = resolved \cup {d}
    /\ packageIds' = packageIds \cup candidates[d]
    /\ darOf' = [p \in Packages |-> IF p \in candidates[d] THEN d ELSE darOf[p]]
    /\ \E imports \in SetToSeqs(Unseen(store[d].imports)) :
          worklist' = (IF pc = "turn" THEN Tail(worklist) ELSE worklist) \o imports
    /\ pc' = "turn"
    /\ UNCHANGED <<input, prints, candidates, lookedUp>>

Marked(p) == seen \cup {p}

Skips ==
    /\ pc = "turn" /\ worklist # <<>> /\ Head(worklist) \in seen
    /\ worklist' = Tail(worklist)
    /\ UNCHANGED <<input, known, packageId, listing, selected, lookedUp, pc>>

(* A package of a DAR that was chosen before is not looked up.             *)
Reuses ==
    /\ pc = "turn" /\ worklist # <<>> /\ Head(worklist) \notin seen
    /\ darOf[Head(worklist)] # NoPackage
    /\ seen' = Marked(Head(worklist))
    /\ Adopt(darOf[Head(worklist)])
    /\ UNCHANGED <<packageId, listing, selected>>

LooksUp ==
    /\ pc = "turn" /\ worklist # <<>> /\ Head(worklist) \notin seen
    /\ darOf[Head(worklist)] = NoPackage
    /\ packageId' = Head(worklist) /\ worklist' = Tail(worklist)
    /\ seen' = Marked(Head(worklist))
    /\ selected' = NoPackage /\ pc' = "references"
    /\ UNCHANGED <<input, resolved, packageIds, prints, candidates, darOf, listing, lookedUp>>

Returns ==
    /\ pc = "turn" /\ worklist = <<>>
    /\ pc' = "done"
    /\ UNCHANGED <<input, known, worklist, packageId, listing, selected, lookedUp>>

-----------------------------------------------------------------------------
(* resolveSourceMappedDarCandidateOrThrowAsync                             *)

Holders(p) == {d \in Dars : p \in store[d].holds}

(* getPackageReferencesAsync answers.                                      *)
Listed ==
    /\ pc = "references"
    /\ listing' \in SetToSeqs(Holders(packageId))
    /\ lookedUp' = lookedUp \cup {packageId}
    /\ pc' = "listing"
    /\ UNCHANGED <<input, known, worklist, packageId, selected>>

First(d) == IF selected = NoPackage THEN d ELSE selected

Cached ==
    /\ pc = "listing" /\ listing # <<>> /\ candidates[Head(listing)] # NoPackage
    /\ selected' = First(Head(listing)) /\ listing' = Tail(listing)
    /\ UNCHANGED <<input, known, worklist, packageId, lookedUp, pc>>

(* The package the source map speaks of.                                   *)
MetadataPackage(d) == IF store[d].names = NoPackage THEN packageId ELSE store[d].names

(* Slip: a DAR is only compared until one has been chosen.                 *)
ConflictsUnlessChosen(d) ==
    selected = NoPackage /\ prints[MetadataPackage(d)] \notin {NoPackage, store[d].print}

Conflicts(d) ==
    /\ prints[MetadataPackage(d)] # NoPackage
    /\ prints[MetadataPackage(d)] # store[d].print

(* readPackageGraph's containedPackageIds, debug-locations packages left   *)
(* out: an entry that cannot be decoded is passed over.                    *)
Shown(d) == store[d].decoded \ store[d].debug
Contained(d) == Shown(d) \cup ({MetadataPackage(d)} \ store[d].debug)

(* getDarAsync answers with a DAR that has no source map, one that tells   *)
(* of other sources than an earlier one, or one that fits.                 *)
Downloads ==
    /\ pc = "listing" /\ listing # <<>> /\ candidates[Head(listing)] = NoPackage
    /\ LET d == Head(listing)
       IN  \/ /\ ~store[d].mapped
              /\ listing' = Tail(listing)
              /\ UNCHANGED <<known, selected, pc>>
           \/ /\ store[d].mapped /\ Conflicts(d)
              /\ pc' = "conflict"
              /\ UNCHANGED <<known, listing, selected>>
           \/ /\ store[d].mapped /\ ~Conflicts(d)
              /\ listing' = Tail(listing)
              /\ prints' = [prints EXCEPT ![MetadataPackage(d)] = store[d].print]
              /\ candidates' = IF selected # NoPackage THEN candidates
                               ELSE [candidates EXCEPT ![d] = Contained(d)]
              /\ selected' = First(d)
              /\ UNCHANGED <<seen, resolved, packageIds, darOf, pc>>
    /\ UNCHANGED <<input, worklist, packageId, lookedUp>>

Chooses ==
    /\ pc = "listing" /\ listing = <<>> /\ selected # NoPackage
    /\ seen' = seen
    /\ Adopt(selected)
    /\ UNCHANGED <<packageId, listing, selected>>

(* No DAR of the package has a source map, or there is no DAR at all.      *)
Missing ==
    /\ pc = "listing" /\ listing = <<>> /\ selected = NoPackage
    /\ pc' = "missing"
    /\ UNCHANGED <<input, known, worklist, packageId, listing, selected, lookedUp>>

(* A request fails, or the DAR's container or source bundle cannot be      *)
(* read.  A single entry that cannot be decoded ends nothing: see Shown.   *)
Fails ==
    /\ \/ pc = "references"
       \/ pc = "listing" /\ listing # <<>> /\ candidates[Head(listing)] = NoPackage
    /\ pc' = "failed"
    /\ UNCHANGED <<input, known, worklist, packageId, listing, selected, lookedUp>>

Ended == pc \in {"done", "conflict", "missing", "failed"}
Rests == Ended /\ UNCHANGED artifactVars

ArtifactNext ==
    \/ Skips \/ Reuses \/ LooksUp \/ Returns
    \/ Listed \/ Cached \/ Downloads \/ Chooses \/ Missing \/ Fails
    \/ Rests

(* The participant's answers, or its errors, arrive; the loop goes on.     *)
ArtifactSpec == ArtifactInit /\ [][ArtifactNext]_artifactVars /\ WF_artifactVars(ArtifactNext)

-----------------------------------------------------------------------------
(* The participant was asked for the package and the result has a DAR it   *)
(* listed, but that DAR's entry of the package was passed over.            *)
PassedOver(p) == p \in lookedUp /\ \E d \in resolved \cap Holders(p) : p \notin Shown(d)

(* A result is closed, through DARs that import each other, packages found *)
(* inside DARs chosen for others, and DARs analysed before (lines 58 to    *)
(* 114): a required package, or one a chosen DAR imports, is missing from  *)
(* it for no other reason than that readPackageGraph passed it over (lines *)
(* 299 to 318, 243 to 247).                                                *)
ClosureComplete ==
    pc = "done" =>
        \A p \in ToSet(required) \cup UNION {store[d].imports : d \in resolved} :
            p \in packageIds \/ PassedOver(p)

(* A result rests on sources that agree: of every package that was looked  *)
(* up, all source-mapped DARs that hold it and describe the same package   *)
(* carry one fingerprint, the ones not chosen included (lines 194 to 213). *)
SourcesAgree ==
    pc = "done" =>
        \A p \in lookedUp : \A d, e \in Holders(p) :
            /\ store[d].mapped /\ store[e].mapped
            /\ store[d].names = store[e].names /\ store[d].names # NoPackage
            => store[d].print = store[e].print

(* Resolution ends, however the packages import each other.                *)
ResolutionEnds == <>Ended
=============================================================================
