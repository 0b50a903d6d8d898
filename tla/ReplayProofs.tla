---------------------------- MODULE ReplayProofs ----------------------------
(***************************************************************************)
(* Theorems about what a replay starts from: its contracts, for every      *)
(* reference graph, and its packages, for every set of overlapping DARs;   *)
(* and about the session it ends in, for traces of every length.           *)
(***************************************************************************)
EXTENDS ReplayHydration, ReplayArtifacts, ReplaySession, FiniteSetTheorems,
        SequenceTheorems, WellFoundedInduction, TLAPS

-----------------------------------------------------------------------------
(***************************************************************************)
(* A load of the environment asks for every contract once and ends with    *)
(* exactly the contracts that can be reached from the update.              *)
(***************************************************************************)

\* The contract that is being hydrated, if any.
Busy == IF at \in {"contract", "events"} THEN {current} ELSE {}

\* What was found so far.
Found == contracts \cup pending \cup Busy

\* A contract is being hydrated where the load waits for one, and it is not
\* hydrated yet.
BusyInv ==
  at \in {"contract", "events"} =>
    current \in Contracts /\ current \notin contracts

\* Nothing that was found is lost.
CoverInv ==
  /\ created \subseteq contracts
  /\ at \notin {"update", "failed"} =>
       /\ named \subseteq Found
       /\ \A c \in contracts : refs[c] \subseteq Found

\* Nothing is found that cannot be reached.
LeastInv == \A S \in SUBSET Contracts : SelfContained(S) => Found \subseteq S

\* A contract that was requested is hydrated, is being hydrated, or made the
\* load fail.
AskInv ==
  /\ AskedOnce
  /\ at = "update" => \A c \in Contracts : asked[c] = 0
  /\ at # "failed" =>
       \A c \in Contracts : asked[c] = 0 \/ c \in contracts \cup Busy

HydrationInv ==
  HydrationTypeOK /\ BusyInv /\ CoverInv /\ LeastInv /\ AskInv

LEMMA InitHydration == HydrationInit => HydrationInv
  <1>. SUFFICES ASSUME HydrationInit PROVE HydrationInv
    OBVIOUS
  <1>1. HydrationTypeOK
    BY DEF HydrationInit, HydrationTypeOK
  <1>2. BusyInv /\ CoverInv
    BY DEF HydrationInit, BusyInv, CoverInv, Found, Busy
  <1>3. LeastInv
    BY DEF HydrationInit, LeastInv, Found, Busy
  <1>4. AskInv
    BY DEF HydrationInit, AskInv, AskedOnce
  <1>. QED
    BY <1>1, <1>2, <1>3, <1>4 DEF HydrationInv

LEMMA TypeStep == HydrationTypeOK /\ BusyInv /\ [HydrationNext]_hydrationVars => HydrationTypeOK'
  <1>. SUFFICES ASSUME HydrationTypeOK, BusyInv, [HydrationNext]_hydrationVars
                PROVE HydrationTypeOK'
    OBVIOUS
  <1>. USE HydrationAssumption DEF HydrationTypeOK
  <1>1. CASE UpdateRefused
    BY <1>1 DEF UpdateRefused, updateVars
  <1>2. CASE UpdateLoaded
    BY <1>2 DEF UpdateLoaded, Seeds
  <1>3. ASSUME NEW c \in Contracts, Take(c) PROVE HydrationTypeOK'
    BY <1>3 DEF Take, Taken, Known, updateVars
  <1>4. CASE ContractAnswers
    BY <1>4 DEF ContractAnswers, updateVars
  <1>5. ASSUME NEW history \in BOOLEAN, EventsAnswer(history) PROVE HydrationTypeOK'
    BY <1>5 DEF EventsAnswer, Follow, updateVars, BusyInv
  <1>6. CASE EventsReject
    BY <1>6 DEF EventsReject, updateVars
  <1>7. CASE Hydrated
    BY <1>7 DEF Hydrated, updateVars
  <1>8. CASE UNCHANGED hydrationVars
    BY <1>8 DEF hydrationVars, updateVars
  <1>. QED
    BY <1>1, <1>2, <1>3, <1>4, <1>5, <1>6, <1>7, <1>8 DEF HydrationNext

\* Every action but UpdateLoaded leaves the update alone, so the
\* self-contained sets stay the same.
LEMMA SameUpdate ==
  ASSUME UNCHANGED updateVars, NEW S
  PROVE SelfContained(S)' <=> SelfContained(S)
  BY DEF updateVars, SelfContained

LEMMA HydrationStep == HydrationInv /\ [HydrationNext]_hydrationVars => HydrationInv'
  <1>. SUFFICES ASSUME HydrationInv, [HydrationNext]_hydrationVars
                PROVE HydrationInv'
    OBVIOUS
  <1>t. HydrationTypeOK /\ HydrationTypeOK'
    BY TypeStep DEF HydrationInv
  <1>i. BusyInv /\ CoverInv /\ LeastInv /\ AskInv
    BY DEF HydrationInv
  <1>1. CASE UpdateRefused
    <2>1. BusyInv' /\ CoverInv'
      BY <1>1, <1>i DEF UpdateRefused, updateVars, BusyInv, CoverInv
    <2>2. Found' \subseteq Found
      BY <1>1 DEF UpdateRefused, Found, Busy
    <2>3. LeastInv'
      BY <1>1, <1>i, <2>2, SameUpdate DEF UpdateRefused, LeastInv
    <2>4. AskInv'
      BY <1>1, <1>i DEF UpdateRefused, updateVars, AskInv, AskedOnce
    <2>. QED
      BY <1>t, <2>1, <2>3, <2>4 DEF HydrationInv
  <1>2. CASE UpdateLoaded
    <2>0. /\ at = "update" /\ at' = "loop" /\ contracts' = created'
          /\ pending' = named' \cup UNION {refs[c] : c \in created'}
          /\ UNCHANGED <<refs, current, shown, asked>>
      BY <1>2 DEF UpdateLoaded, Seeds
    <2>1. BusyInv' /\ Found' = created' \cup pending'
      BY <2>0 DEF BusyInv, Found, Busy
    <2>2. CoverInv'
      BY <2>0, <2>1 DEF CoverInv
    <2>3. LeastInv'
      <3>. SUFFICES ASSUME NEW S \in SUBSET Contracts, SelfContained(S)'
                    PROVE Found' \subseteq S
        BY DEF LeastInv
      <3>. QED
        BY <2>0, <2>1 DEF SelfContained
    <2>4. AskInv'
      <3>1. \A c \in Contracts : asked'[c] = 0
        BY <1>i, <2>0 DEF AskInv
      <3>. QED
        BY <1>t, <2>0, <3>1 DEF AskInv, AskedOnce, HydrationTypeOK
    <2>. QED
      BY <1>t, <2>1, <2>2, <2>3, <2>4 DEF HydrationInv
  <1>3. ASSUME NEW c \in Contracts, Take(c) PROVE HydrationInv'
    <2>0. /\ at = "loop" /\ c \in pending /\ pending' = pending \ {c}
          /\ UNCHANGED <<updateVars, contracts, shown>>
      BY <1>3 DEF Take, Taken
    <2>1. CASE c \in contracts
      <3>0. UNCHANGED <<at, current, asked>>
        BY <1>3, <2>1 DEF Take, Known
      <3>1. Found' = Found
        BY <2>0, <2>1, <3>0 DEF Found, Busy
      <3>2. BusyInv' /\ CoverInv'
        BY <1>i, <2>0, <3>0, <3>1 DEF BusyInv, CoverInv, updateVars
      <3>3. LeastInv'
        BY <1>i, <2>0, <3>1, SameUpdate DEF LeastInv
      <3>4. AskInv'
        BY <1>i, <2>0, <3>0 DEF AskInv, AskedOnce, Busy, updateVars
      <3>. QED
        BY <1>t, <3>2, <3>3, <3>4 DEF HydrationInv
    <2>2. CASE c \notin contracts
      <3>0. at' = "contract" /\ current' = c /\ asked' = [asked EXCEPT ![c] = @ + 1]
        BY <1>3, <2>2 DEF Take, Known
      <3>1. Busy = {} /\ Busy' = {c} /\ Found' = Found
        BY <2>0, <3>0 DEF Found, Busy
      <3>2. BusyInv' /\ CoverInv'
        BY <1>i, <2>0, <2>2, <3>0, <3>1 DEF BusyInv, CoverInv, updateVars
      <3>3. LeastInv'
        BY <1>i, <2>0, <3>1, SameUpdate DEF LeastInv
      <3>4. asked[c] = 0 /\ c \notin created
        BY <1>i, <2>0, <2>2, <3>1 DEF AskInv, CoverInv
      <3>5. /\ asked'[c] = 1
            /\ \A d \in Contracts : d # c => asked'[d] = asked[d]
        BY <1>t, <3>0, <3>4 DEF HydrationTypeOK
      <3>6. AskedOnce'
        BY <1>t, <1>i, <2>0, <3>4, <3>5 DEF AskInv, AskedOnce, updateVars, HydrationTypeOK
      <3>7. AskInv'
        BY <1>i, <2>0, <3>0, <3>1, <3>5, <3>6 DEF AskInv
      <3>. QED
        BY <1>t, <3>2, <3>3, <3>7 DEF HydrationInv
    <2>. QED
      BY <2>1, <2>2
  <1>4. CASE ContractAnswers
    <2>0. /\ at = "contract" /\ at' = "events"
          /\ UNCHANGED <<updateVars, pending, contracts, current, asked>>
      BY <1>4 DEF ContractAnswers
    <2>1. Busy' = Busy /\ Found' = Found
      BY <2>0 DEF Found, Busy
    <2>2. BusyInv' /\ CoverInv'
      BY <1>i, <2>0, <2>1 DEF BusyInv, CoverInv, updateVars
    <2>3. LeastInv'
      BY <1>i, <2>0, <2>1, SameUpdate DEF LeastInv
    <2>4. AskInv'
      BY <1>i, <2>0, <2>1 DEF AskInv, AskedOnce, updateVars
    <2>. QED
      BY <1>t, <2>2, <2>3, <2>4 DEF HydrationInv
  <1>5. ASSUME NEW history \in BOOLEAN, EventsAnswer(history) PROVE HydrationInv'
    <2>0. at = "events" /\ UNCHANGED <<updateVars, asked>> /\ Busy = {current}
      BY <1>5 DEF EventsAnswer, Busy
    <2>1. CASE shown \/ history
      <3>0. /\ at' = "loop" /\ contracts' = contracts \cup {current}
            /\ pending' = pending \cup refs[current]
        BY <1>5, <2>1 DEF EventsAnswer, Follow
      <3>1. Busy' = {} /\ Found' = Found \cup refs[current]
        BY <2>0, <3>0 DEF Found, Busy
      <3>2. BusyInv' /\ CoverInv'
        BY <1>i, <2>0, <3>0, <3>1 DEF BusyInv, CoverInv, updateVars
      <3>3. LeastInv'
        <4>. SUFFICES ASSUME NEW S \in SUBSET Contracts, SelfContained(S)'
                      PROVE Found' \subseteq S
          BY DEF LeastInv
        <4>1. SelfContained(S) /\ Found \subseteq S
          BY <1>i, <2>0, SameUpdate DEF LeastInv
        <4>2. current \in S
          BY <2>0, <4>1 DEF Found
        <4>. QED
          BY <3>1, <4>1, <4>2 DEF SelfContained
      <3>4. AskInv'
        BY <1>i, <2>0, <3>0, <3>1 DEF AskInv, AskedOnce, updateVars
      <3>. QED
        BY <1>t, <3>2, <3>3, <3>4 DEF HydrationInv
    <2>2. CASE ~(shown \/ history)
      <3>0. at' = "failed" /\ UNCHANGED <<contracts, pending>>
        BY <1>5, <2>2 DEF EventsAnswer
      <3>1. Found' \subseteq Found
        BY <3>0 DEF Found, Busy
      <3>2. BusyInv' /\ CoverInv'
        BY <1>i, <2>0, <3>0 DEF BusyInv, CoverInv, updateVars
      <3>3. LeastInv'
        BY <1>i, <2>0, <3>1, SameUpdate DEF LeastInv
      <3>4. AskInv'
        BY <1>i, <2>0, <3>0 DEF AskInv, AskedOnce, updateVars
      <3>. QED
        BY <1>t, <3>2, <3>3, <3>4 DEF HydrationInv
    <2>. QED
      BY <2>1, <2>2
  <1>6. CASE EventsReject
    <2>0. at' = "failed" /\ UNCHANGED <<updateVars, contracts, pending, asked>>
      BY <1>6 DEF EventsReject
    <2>1. Found' \subseteq Found
      BY <2>0 DEF Found, Busy
    <2>2. BusyInv' /\ CoverInv'
      BY <1>i, <2>0 DEF BusyInv, CoverInv, updateVars
    <2>3. LeastInv'
      BY <1>i, <2>0, <2>1, SameUpdate DEF LeastInv
    <2>4. AskInv'
      BY <1>i, <2>0 DEF AskInv, AskedOnce, updateVars
    <2>. QED
      BY <1>t, <2>2, <2>3, <2>4 DEF HydrationInv
  <1>7. CASE Hydrated
    <2>0. /\ at = "loop" /\ at' = "ready"
          /\ UNCHANGED <<updateVars, pending, contracts, asked>>
      BY <1>7 DEF Hydrated
    <2>1. Busy' = Busy /\ Found' = Found
      BY <2>0 DEF Found, Busy
    <2>2. BusyInv' /\ CoverInv'
      BY <1>i, <2>0, <2>1 DEF BusyInv, CoverInv, updateVars
    <2>3. LeastInv'
      BY <1>i, <2>0, <2>1, SameUpdate DEF LeastInv
    <2>4. AskInv'
      BY <1>i, <2>0, <2>1 DEF AskInv, AskedOnce, updateVars
    <2>. QED
      BY <1>t, <2>2, <2>3, <2>4 DEF HydrationInv
  <1>8. CASE UNCHANGED hydrationVars
    <2>1. BusyInv' /\ CoverInv' /\ AskInv'
      BY <1>i, <1>8 DEF hydrationVars, updateVars, BusyInv, CoverInv, AskInv, AskedOnce, Found, Busy
    <2>2. LeastInv'
      BY <1>i, <1>8, SameUpdate DEF hydrationVars, LeastInv, Found, Busy
    <2>. QED
      BY <1>t, <2>1, <2>2 DEF HydrationInv
  <1>. QED
    BY <1>1, <1>2, <1>3, <1>4, <1>5, <1>6, <1>7, <1>8 DEF HydrationNext

\* Nothing is pending once the load has ended well.
ReadyInv == at = "ready" => pending = {}

LEMMA ReadyStep == ReadyInv /\ [HydrationNext]_hydrationVars => ReadyInv'
  BY DEF ReadyInv, HydrationNext, hydrationVars, UpdateRefused, UpdateLoaded, Take,
         ContractAnswers, EventsAnswer, EventsReject, Hydrated

LEMMA ReadyIsExact == HydrationInv /\ ReadyInv => EnvironmentExact
  <1>. SUFFICES ASSUME HydrationInv, ReadyInv, at = "ready"
                PROVE /\ SelfContained(contracts)
                      /\ \A S \in SUBSET Contracts : SelfContained(S) => contracts \subseteq S
    BY DEF EnvironmentExact
  <1>1. Found = contracts
    BY DEF Found, Busy, ReadyInv
  <1>2. SelfContained(contracts)
    BY <1>1 DEF HydrationInv, CoverInv, SelfContained
  <1>. QED
    BY <1>1, <1>2 DEF HydrationInv, LeastInv

LEMMA HydrationInvariant == HydrationSpec => [](HydrationInv /\ ReadyInv)
  <1>1. HydrationInit => HydrationInv /\ ReadyInv
    BY InitHydration DEF HydrationInit, ReadyInv
  <1>2. HydrationInv /\ ReadyInv /\ [HydrationNext]_hydrationVars => (HydrationInv /\ ReadyInv)'
    BY HydrationStep, ReadyStep
  <1>. QED
    BY <1>1, <1>2, PTL DEF HydrationSpec

\* The state of a load keeps its type.
THEOREM HydrationTypes == HydrationSpec => []HydrationTypeOK
  <1>1. HydrationInv => HydrationTypeOK
    BY DEF HydrationInv
  <1>. QED
    BY HydrationInvariant, <1>1, PTL

\* For every set of contracts and every graph of references between them,
\* cycles included, buildOrThrowAsync returns the least set that contains
\* what the update creates and names and is closed under references.
THEOREM EnvironmentIsExact == HydrationSpec => []EnvironmentExact
  <1>. QED
    BY HydrationInvariant, ReadyIsExact, PTL

\* The worklist never requests a contract twice, and never one that the
\* update itself shows.
THEOREM ContractsAskedOnce == HydrationSpec => []AskedOnce
  <1>1. HydrationInv => AskedOnce
    BY DEF HydrationInv, AskInv
  <1>. QED
    BY HydrationInvariant, <1>1, PTL

-----------------------------------------------------------------------------
(***************************************************************************)
(* The resolution of the packages.  What is needed has been seen or waits  *)
(* on the worklist, and what was passed over has been compared.            *)
(***************************************************************************)

Running == pc \in {"turn", "references", "listing"}

StoreOK ==
    \A d \in Dars :
        /\ store[d].mapped \in BOOLEAN
        /\ store[d].holds \subseteq Packages /\ store[d].imports \subseteq Packages
        /\ Shown(d) \subseteq Packages
        /\ store[d].names \in Packages \cup {NoPackage}
        /\ store[d].mapped => store[d].print \in Prints

ArtifactTypeOK ==
    /\ StoreOK
    /\ required \in Seq(Packages) /\ worklist \in Seq(Packages)
    /\ seen \subseteq Packages /\ packageIds \subseteq Packages /\ lookedUp \subseteq Packages
    /\ resolved \subseteq Dars
    /\ prints \in [Packages -> Prints \cup {NoPackage}]
    /\ candidates \in [Dars -> (SUBSET Packages) \cup {NoPackage}]
    /\ darOf \in [Packages -> Dars \cup {NoPackage}]
    /\ packageId \in Packages \cup {NoPackage}
    /\ listing \in Seq(Dars)
    /\ selected \in Dars \cup {NoPackage}
    /\ pc \in {"turn", "references", "listing", "done", "conflict", "missing", "failed"}

\* The package a turn is still looking for.
Sought == IF pc \in {"references", "listing"} THEN {packageId} ELSE {}

\* What is still to be looked at, or has been.
Noticed == seen \cup ToSet(worklist)

\* Nothing that is needed is forgotten, and what has been dealt with is
\* part of the result or was passed over.
NeedsInv ==
    Running \/ pc = "done" =>
        /\ ToSet(required) \subseteq Noticed
        /\ \A d \in resolved : store[d].imports \subseteq Noticed
        /\ \A p \in seen \ Sought : p \in packageIds \/ PassedOver(p)
        /\ pc = "done" => worklist = <<>>

\* What the two maps say of a DAR, and which DAR a turn has settled on.
KnownInv ==
    /\ \A d \in Dars : candidates[d] # NoPackage => Shown(d) \subseteq candidates[d]
    /\ \A p \in Packages : darOf[p] # NoPackage => p \in candidates[darOf[p]] /\ candidates[darOf[p]] # NoPackage
    /\ pc \in {"references", "listing"} => packageId \in Packages /\ packageId \in seen
    /\ pc = "references" => selected = NoPackage
    /\ pc = "listing" =>
          /\ packageId \in lookedUp
          /\ ToSet(listing) \subseteq Holders(packageId)
          /\ selected # NoPackage => selected \in Holders(packageId) /\ candidates[selected] # NoPackage

\* A DAR whose source map names a package has been compared.
Compared(d) ==
    store[d].mapped /\ store[d].names # NoPackage => prints[store[d].names] = store[d].print

\* Every DAR that was analysed, or listed for a package and passed over, has
\* been compared.
PrintInv ==
    /\ \A d \in Dars : candidates[d] # NoPackage => store[d].mapped /\ Compared(d)
    /\ Running \/ pc = "done" =>
          \A p \in lookedUp : \A d \in Holders(p) :
              Compared(d) \/ (pc = "listing" /\ p = packageId /\ d \in ToSet(listing))

ArtifactInv == ArtifactTypeOK /\ NeedsInv /\ KnownInv /\ PrintInv

-----------------------------------------------------------------------------
(* Sequences of the elements of a set.                                     *)

LEMMA SeqsHaveTheirSet ==
    ASSUME NEW S, IsFiniteSet(S), NEW q \in SetToSeqs(S)
    PROVE q \in Seq(S) /\ ToSet(q) = S
    <1>. DEFINE n == Cardinality(S)
    <1>1. n \in Nat
      BY FS_CardinalityType
    <1>2. q \in [1..n -> S] /\ \A i, j \in 1..n : i # j => q[i] # q[j]
      BY DEF SetToSeqs
    <1>3. IsFiniteSet(1..n) /\ Cardinality(1..n) = n
      BY <1>1, FS_Interval
    <1>4. q \in Injection(1..n, S)
      BY <1>2 DEF Injection, IsInjective
    <1>5. q \in Surjection(1..n, S)
      BY <1>3, <1>4, FS_Injection
    <1>6. q \in Seq(S)
      BY <1>1, <1>2
    <1>7. ToSet(q) = S
      BY <1>2, <1>5 DEF Surjection, ToSet
    <1>. QED
      BY <1>6, <1>7

LEMMA SetOfTail ==
    ASSUME NEW S, NEW q \in Seq(S), q # <<>>
    PROVE Head(q) \in S /\ Tail(q) \in Seq(S) /\ ToSet(q) = {Head(q)} \cup ToSet(Tail(q))
    <1>1. Head(q) \in S /\ Tail(q) \in Seq(S) /\ Len(q) \in Nat \ {0}
      OBVIOUS
    <1>2. DOMAIN q = 1..Len(q) /\ DOMAIN Tail(q) = 1..(Len(q) - 1) /\ Head(q) = q[1]
      OBVIOUS
    <1>3. \A i \in 1..(Len(q) - 1) : Tail(q)[i] = q[i + 1]
      OBVIOUS
    <1>4. \A i \in 1..Len(q) : i = 1 \/ (i - 1 \in 1..(Len(q) - 1) /\ Tail(q)[i - 1] = q[i])
      BY <1>1, <1>3
    <1>5. \A i \in 1..(Len(q) - 1) : i + 1 \in 1..Len(q)
      BY <1>1
    <1>6. ToSet(q) \subseteq {Head(q)} \cup ToSet(Tail(q))
      BY <1>2, <1>4 DEF ToSet
    <1>7. {Head(q)} \cup ToSet(Tail(q)) \subseteq ToSet(q)
      <2>1. 1 \in 1..Len(q)
        BY <1>1
      <2>. QED
        BY <1>2, <1>3, <1>5, <2>1 DEF ToSet
    <1>. QED
      BY <1>1, <1>6, <1>7

LEMMA SetOfConcat ==
    ASSUME NEW S, NEW q \in Seq(S), NEW r \in Seq(S)
    PROVE q \o r \in Seq(S) /\ ToSet(q \o r) = ToSet(q) \cup ToSet(r)
    <1>1. /\ q \o r \in Seq(S) /\ Len(q) \in Nat /\ Len(r) \in Nat /\ Len(q \o r) = Len(q) + Len(r)
          /\ DOMAIN q = 1..Len(q) /\ DOMAIN r = 1..Len(r) /\ DOMAIN (q \o r) = 1..(Len(q) + Len(r))
      OBVIOUS
    <1>2. \A i \in 1..Len(q) : i \in 1..(Len(q) + Len(r)) /\ (q \o r)[i] = q[i]
      BY <1>1
    <1>3. \A i \in 1..Len(r) : Len(q) + i \in 1..(Len(q) + Len(r)) /\ (q \o r)[Len(q) + i] = r[i]
      BY <1>1
    <1>4. \A i \in 1..(Len(q) + Len(r)) :
            i \in 1..Len(q) \/ (i - Len(q) \in 1..Len(r) /\ (q \o r)[i] = r[i - Len(q)])
      BY <1>1
    <1>5. ToSet(q) = {q[i] : i \in 1..Len(q)} /\ ToSet(r) = {r[i] : i \in 1..Len(r)}
          /\ ToSet(q \o r) = {(q \o r)[i] : i \in 1..(Len(q) + Len(r))}
      BY <1>1 DEF ToSet
    <1>6. ToSet(q \o r) \subseteq ToSet(q) \cup ToSet(r)
      BY <1>2, <1>4, <1>5
    <1>7. ToSet(q) \subseteq ToSet(q \o r)
      BY <1>2, <1>5
    <1>8. ToSet(r) \subseteq ToSet(q \o r)
      BY <1>3, <1>5
    <1>. QED
      BY <1>1, <1>6, <1>7, <1>8

-----------------------------------------------------------------------------

LEMMA InitArtifact == ArtifactInit => ArtifactInv
    <1>. SUFFICES ASSUME ArtifactInit PROVE ArtifactInv
      OBVIOUS
    <1>1. StoreOK
      <2>. SUFFICES ASSUME NEW d \in Dars
                    PROVE /\ store[d].mapped \in BOOLEAN
                          /\ store[d].holds \subseteq Packages /\ store[d].imports \subseteq Packages
                          /\ Shown(d) \subseteq Packages
                          /\ store[d].names \in Packages \cup {NoPackage}
                          /\ store[d].mapped => store[d].print \in Prints
        BY DEF StoreOK
      <2>1. store[d] \in Contents[d]
        BY DEF ArtifactInit
      <2>2. PICK held \in SUBSET Packages :
              \/ store[d] = Unmapped(held)
              \/ \E decoded \in SUBSET held : store[d] \in Mapped(d, held, decoded)
        BY <2>1 DEF Contents
      <2>3. CASE store[d] = Unmapped(held)
        BY <2>3 DEF Unmapped, Shown
      <2>4. CASE \E decoded \in SUBSET held : store[d] \in Mapped(d, held, decoded)
        <3>1. PICK decoded \in SUBSET held : store[d] \in Mapped(d, held, decoded)
          BY <2>4
        <3>. QED
          BY <3>1 DEF Mapped, Shown
      <2>. QED
        BY <2>2, <2>3, <2>4
    <1>2. required \in Seq(Packages) /\ worklist = required
      <2>1. PICK n \in 1..MaxRequired : required \in [1..n -> Packages]
        BY DEF ArtifactInit
      <2>2. n \in Nat
        BY ArtifactAssumption
      <2>. QED
        BY <2>1, <2>2 DEF ArtifactInit
    <1>3. ArtifactTypeOK
      <2>1. listing \in Seq(Dars) /\ listing = <<>>
        BY DEF ArtifactInit
      <2>2. /\ prints \in [Packages -> Prints \cup {NoPackage}]
            /\ candidates \in [Dars -> (SUBSET Packages) \cup {NoPackage}]
            /\ darOf \in [Packages -> Dars \cup {NoPackage}]
        BY DEF ArtifactInit
      <2>. QED
        BY <1>1, <1>2, <2>1, <2>2 DEF ArtifactInit, ArtifactTypeOK
    <1>4. NeedsInv
      BY <1>2 DEF ArtifactInit, NeedsInv, Noticed, Sought
    <1>5. KnownInv /\ PrintInv
      BY DEF ArtifactInit, KnownInv, PrintInv
    <1>. QED
      BY <1>3, <1>4, <1>5 DEF ArtifactInv

\* A step that leaves the results of the analysis alone.
LEMMA PrintsKept ==
    ASSUME PrintInv, UNCHANGED <<store, prints, candidates, lookedUp>>,
           Running, pc # "listing" \/ listing = <<>>, pc' # "listing"
    PROVE PrintInv'
    <1>1. \A d \in Dars : Compared(d)' = Compared(d)
      BY DEF Compared
    <1>2. \A p \in lookedUp : \A d \in Holders(p) : Compared(d)
      BY DEF PrintInv, ToSet
    <1>3. \A p : Holders(p)' = Holders(p)
      BY DEF Holders
    <1>4. \A p : Holders(p) \subseteq Dars
      BY DEF Holders
    <1>. QED
      BY <1>1, <1>2, <1>3, <1>4 DEF PrintInv

\* What the participant holds stays what it is, and what was passed over stays
\* passed over.
LEMMA StoreKept ==
    ASSUME UNCHANGED store
    PROVE /\ StoreOK => StoreOK'
          /\ \A d : Shown(d)' = Shown(d)
          /\ \A p : Holders(p)' = Holders(p)
    BY DEF StoreOK, Shown, Holders

LEMMA PassedOverKept ==
    ASSUME resolved \subseteq resolved', lookedUp \subseteq lookedUp', UNCHANGED store
    PROVE \A p : PassedOver(p) => PassedOver(p)'
    BY DEF PassedOver, Holders, Shown

\* The turn settles on a DAR: one that contains the package, or one that is
\* listed for it and passes it over.
LEMMA AdoptKeeps ==
    ASSUME ArtifactInv, NEW d \in Dars, candidates[d] # NoPackage, Adopt(d),
           UNCHANGED <<packageId, listing, selected>>, Running,
           NEW p \in Packages, seen' = seen \cup {p},
           p \in candidates[d] \/ (p \in lookedUp /\ d \in Holders(p) /\ p \notin Shown(d)),
           \/ pc = "turn" /\ worklist # <<>> /\ p = Head(worklist)
           \/ pc = "listing" /\ listing = <<>> /\ p = packageId /\ p \in seen
    PROVE ArtifactInv'
    <1>. DEFINE rest == IF pc = "turn" THEN Tail(worklist) ELSE worklist
    <1>0. /\ resolved' = resolved \cup {d} /\ packageIds' = packageIds \cup candidates[d]
          /\ darOf' = [q \in Packages |-> IF q \in candidates[d] THEN d ELSE darOf[q]]
          /\ pc' = "turn"
          /\ UNCHANGED <<store, required, prints, candidates, lookedUp>>
      BY DEF Adopt, input
    <1>1. candidates[d] \subseteq Packages /\ store[d].imports \subseteq Packages /\ worklist \in Seq(Packages)
      BY DEF ArtifactInv, ArtifactTypeOK, StoreOK
    <1>2. rest \in Seq(Packages) /\ Noticed \subseteq seen' \cup ToSet(rest)
      <2>1. CASE pc = "turn"
        BY <1>1, <2>1, SetOfTail DEF Noticed
      <2>2. CASE pc = "listing"
        BY <1>1, <2>2 DEF Noticed
      <2>. QED
        BY <2>1, <2>2
    <1>3. PICK imports \in SetToSeqs(store[d].imports \ seen') : worklist' = rest \o imports
      BY DEF Adopt, Unseen
    <1>4. imports \in Seq(Packages) /\ ToSet(imports) = store[d].imports \ seen'
      <2>1. IsFiniteSet(store[d].imports \ seen')
        BY <1>1, ArtifactAssumption, FS_Subset
      <2>. HIDE DEF rest
      <2>2. imports \in Seq(store[d].imports \ seen') /\ ToSet(imports) = store[d].imports \ seen'
        BY <2>1, SeqsHaveTheirSet
      <2>. QED
        BY <1>1, <2>2
    <1>. HIDE DEF rest
    <1>5. worklist' \in Seq(Packages) /\ ToSet(worklist') = ToSet(rest) \cup (store[d].imports \ seen')
      BY <1>2, <1>3, <1>4, SetOfConcat
    <1>6. ArtifactTypeOK'
      <2>1. darOf' \in [Packages -> Dars \cup {NoPackage}]
        BY <1>0 DEF ArtifactInv, ArtifactTypeOK
      <2>2. StoreOK'
        BY <1>0, StoreKept DEF ArtifactInv, ArtifactTypeOK
      <2>. QED
        BY <1>0, <1>1, <1>5, <2>1, <2>2 DEF ArtifactInv, ArtifactTypeOK
    <1>7. NeedsInv'
      <2>1. Noticed \cup store[d].imports \subseteq Noticed'
        BY <1>2, <1>5 DEF Noticed
      <2>2. ToSet(required) \subseteq Noticed /\ (\A e \in resolved : store[e].imports \subseteq Noticed)
            /\ (\A q \in seen \ Sought : q \in packageIds \/ PassedOver(q))
        BY DEF ArtifactInv, NeedsInv
      <2>3. \A q \in seen' \ Sought' : q \in packageIds' \/ PassedOver(q)'
        <3>. SUFFICES ASSUME NEW q \in seen' PROVE q \in packageIds' \/ PassedOver(q)'
          OBVIOUS
        <3>1. CASE q = p
          <4>1. p \in candidates[d] \/ PassedOver(p)'
            BY <1>0 DEF PassedOver, Holders, Shown
          <4>. QED
            BY <1>0, <3>1, <4>1
        <3>2. CASE q # p
          <4>1. q \in packageIds \/ PassedOver(q)
            BY <2>2, <3>2 DEF Sought
          <4>. QED
            BY <1>0, <4>1, PassedOverKept
        <3>. QED
          BY <3>1, <3>2
      <2>4. ToSet(required') = ToSet(required)
        BY <1>0
      <2>. QED
        BY <1>0, <2>1, <2>2, <2>3, <2>4 DEF NeedsInv
    <1>8. KnownInv'
      BY <1>0, <1>1, StoreKept DEF ArtifactInv, KnownInv, ArtifactTypeOK
    <1>9. PrintInv'
      BY <1>0, PrintsKept DEF ArtifactInv
    <1>. QED
      BY <1>6, <1>7, <1>8, <1>9 DEF ArtifactInv

LEMMA NextArtifact == ArtifactInv /\ [ArtifactNext]_artifactVars => ArtifactInv'
    <1>. SUFFICES ASSUME ArtifactInv, [ArtifactNext]_artifactVars PROVE ArtifactInv'
      OBVIOUS
    <1>0. ArtifactTypeOK /\ NeedsInv /\ KnownInv /\ PrintInv
      BY DEF ArtifactInv
    <1>1. CASE Skips
      <2>1. /\ pc = "turn" /\ worklist # <<>> /\ Head(worklist) \in seen /\ worklist' = Tail(worklist)
            /\ UNCHANGED <<store, required, seen, resolved, packageIds, prints, candidates, darOf,
                           packageId, listing, selected, lookedUp, pc>>
        BY <1>1 DEF Skips, input, known
      <2>2. worklist' \in Seq(Packages) /\ Noticed' = Noticed
        BY <1>0, <2>1, SetOfTail DEF ArtifactTypeOK, Noticed
      <2>3. ArtifactTypeOK'
        BY <1>0, <2>1, <2>2, StoreKept DEF ArtifactTypeOK
      <2>4. NeedsInv'
        BY <1>0, <2>1, <2>2, PassedOverKept DEF NeedsInv, Sought, Running
      <2>5. KnownInv'
        BY <1>0, <2>1, StoreKept DEF KnownInv
      <2>6. PrintInv'
        BY <1>0, <2>1, PrintsKept DEF Running
      <2>. QED
        BY <2>3, <2>4, <2>5, <2>6 DEF ArtifactInv
    <1>2. CASE Reuses
      <2>. DEFINE p == Head(worklist)
      <2>1. /\ pc = "turn" /\ worklist # <<>> /\ darOf[p] # NoPackage /\ seen' = seen \cup {p}
            /\ Adopt(darOf[p]) /\ UNCHANGED <<packageId, listing, selected>>
        BY <1>2 DEF Reuses, Marked
      <2>2. p \in Packages
        BY <1>0, <2>1, SetOfTail DEF ArtifactTypeOK
      <2>3. darOf[p] \in Dars /\ candidates[darOf[p]] # NoPackage /\ p \in candidates[darOf[p]]
        BY <1>0, <2>1, <2>2 DEF ArtifactTypeOK, KnownInv
      <2>. HIDE DEF p
      <2>4. p = Head(worklist)
        BY DEF p
      <2>. QED
        BY <2>1, <2>2, <2>3, <2>4, AdoptKeeps DEF Running
    <1>3. CASE LooksUp
      <2>1. /\ pc = "turn" /\ worklist # <<>> /\ packageId' = Head(worklist) /\ worklist' = Tail(worklist)
            /\ seen' = seen \cup {Head(worklist)} /\ selected' = NoPackage /\ pc' = "references"
            /\ UNCHANGED <<store, required, resolved, packageIds, prints, candidates, darOf, listing, lookedUp>>
        BY <1>3 DEF LooksUp, Marked, input
      <2>2. Head(worklist) \in Packages /\ worklist' \in Seq(Packages) /\ Noticed' = Noticed
        BY <1>0, <2>1, SetOfTail DEF ArtifactTypeOK, Noticed
      <2>3. ArtifactTypeOK'
        BY <1>0, <2>1, <2>2, StoreKept DEF ArtifactTypeOK
      <2>4. NeedsInv'
        BY <1>0, <2>1, <2>2, PassedOverKept DEF NeedsInv, Sought, Running
      <2>5. KnownInv'
        BY <1>0, <2>1, <2>2, StoreKept DEF KnownInv
      <2>6. PrintInv'
        BY <1>0, <2>1, PrintsKept DEF Running
      <2>. QED
        BY <2>3, <2>4, <2>5, <2>6 DEF ArtifactInv
    <1>4. CASE Listed
      <2>1. /\ pc = "references" /\ listing' \in SetToSeqs(Holders(packageId))
            /\ lookedUp' = lookedUp \cup {packageId} /\ pc' = "listing"
            /\ UNCHANGED <<store, required, seen, resolved, packageIds, prints, candidates, darOf,
                           worklist, packageId, selected>>
        BY <1>4 DEF Listed, input, known
      <2>2. listing' \in Seq(Dars) /\ ToSet(listing') = Holders(packageId)
        <3>1. Holders(packageId) \subseteq Dars /\ IsFiniteSet(Holders(packageId))
          BY ArtifactAssumption, FS_Subset DEF Holders
        <3>2. listing' \in Seq(Holders(packageId)) /\ ToSet(listing') = Holders(packageId)
          BY <2>1, <3>1, SeqsHaveTheirSet
        <3>. QED
          BY <3>1, <3>2
      <2>3. packageId \in Packages /\ selected = NoPackage
        BY <1>0, <2>1 DEF KnownInv
      <2>4. ArtifactTypeOK'
        BY <1>0, <2>1, <2>2, <2>3, StoreKept DEF ArtifactTypeOK
      <2>5. NeedsInv'
        BY <1>0, <2>1, PassedOverKept DEF NeedsInv, Sought, Running, Noticed
      <2>6. \A q : Holders(q)' = Holders(q) /\ Holders(q) \subseteq Dars
        BY <2>1 DEF Holders
      <2>7. KnownInv'
        BY <1>0, <2>1, <2>2, <2>3, <2>6, StoreKept DEF KnownInv
      <2>8. PrintInv'
        <3>1. \A d \in Dars : Compared(d)' = Compared(d)
          BY <2>1 DEF Compared
        <3>2. \A q \in lookedUp : \A d \in Holders(q) : Compared(d)
          BY <1>0, <2>1 DEF PrintInv, Running
        <3>. QED
          BY <1>0, <2>1, <2>2, <2>6, <3>1, <3>2 DEF PrintInv
      <2>. QED
        BY <2>4, <2>5, <2>7, <2>8 DEF ArtifactInv
    <1>5. CASE Cached
      <2>. DEFINE d == Head(listing)
      <2>1. /\ pc = "listing" /\ listing # <<>> /\ candidates[d] # NoPackage
            /\ selected' = First(d) /\ listing' = Tail(listing)
            /\ UNCHANGED <<store, required, seen, resolved, packageIds, prints, candidates, darOf,
                           worklist, packageId, lookedUp, pc>>
        BY <1>5 DEF Cached, input, known
      <2>2. d \in Dars /\ listing' \in Seq(Dars) /\ ToSet(listing) = {d} \cup ToSet(listing')
        BY <1>0, <2>1, SetOfTail DEF ArtifactTypeOK
      <2>. HIDE DEF d
      <2>3. ArtifactTypeOK'
        BY <1>0, <2>1, <2>2, StoreKept DEF ArtifactTypeOK, First
      <2>4. NeedsInv'
        BY <1>0, <2>1, PassedOverKept DEF NeedsInv, Sought, Running, Noticed
      <2>5. \A q : Holders(q)' = Holders(q) /\ Holders(q) \subseteq Dars
        BY <2>1 DEF Holders
      <2>6. KnownInv'
        BY <1>0, <2>1, <2>2, <2>5, StoreKept DEF KnownInv, First
      <2>7. PrintInv'
        <3>1. \A e \in Dars : Compared(e)' = Compared(e)
          BY <2>1 DEF Compared
        <3>2. Compared(d)
          BY <1>0, <2>1, <2>2 DEF PrintInv
        <3>. QED
          BY <1>0, <2>1, <2>2, <2>5, <3>1, <3>2 DEF PrintInv, Running
      <2>. QED
        BY <2>3, <2>4, <2>6, <2>7 DEF ArtifactInv
    <1>6. CASE Downloads
      <2>0. PICK d : d = Head(listing)
        OBVIOUS
      <2>1. /\ pc = "listing" /\ listing # <<>> /\ candidates[d] = NoPackage
            /\ UNCHANGED <<store, required, seen, resolved, packageIds, darOf, worklist, packageId, lookedUp>>
        BY <1>6, <2>0 DEF Downloads, input, known
      <2>2. d \in Dars /\ Tail(listing) \in Seq(Dars) /\ ToSet(listing) = {d} \cup ToSet(Tail(listing))
        BY <1>0, <2>0, <2>1, SetOfTail DEF ArtifactTypeOK
      <2>3. \A q : Holders(q)' = Holders(q) /\ Holders(q) \subseteq Dars
        BY <2>1 DEF Holders
      <2>4. packageId \in Packages /\ packageId \in seen /\ d \in Holders(packageId)
        BY <1>0, <2>1, <2>2 DEF KnownInv
      <2>5. CASE ~store[d].mapped /\ listing' = Tail(listing) /\ UNCHANGED <<known, selected, pc>>
        <3>1. UNCHANGED <<prints, candidates>>
          BY <2>5 DEF known
        <3>2. ArtifactTypeOK'
          BY <1>0, <2>1, <2>2, <2>5, <3>1, StoreKept DEF ArtifactTypeOK
        <3>3. NeedsInv'
          BY <1>0, <2>1, <2>5, PassedOverKept DEF NeedsInv, Sought, Running, Noticed
        <3>4. KnownInv'
          BY <1>0, <2>1, <2>2, <2>3, <2>5, <3>1, StoreKept DEF KnownInv
        <3>5. PrintInv'
          <4>1. \A e \in Dars : Compared(e)' = Compared(e)
            BY <2>1, <3>1 DEF Compared
          <4>2. Compared(d)
            BY <2>5 DEF Compared
          <4>. QED
            BY <1>0, <2>1, <2>2, <2>3, <2>5, <3>1, <4>1, <4>2 DEF PrintInv, Running
        <3>. QED
          BY <3>2, <3>3, <3>4, <3>5 DEF ArtifactInv
      <2>6. CASE pc' = "conflict" /\ UNCHANGED <<known, listing, selected>>
        <3>1. UNCHANGED <<prints, candidates>>
          BY <2>6 DEF known
        <3>2. ArtifactTypeOK'
          BY <1>0, <2>1, <2>6, <3>1, StoreKept DEF ArtifactTypeOK
        <3>3. NeedsInv' /\ KnownInv'
          BY <1>0, <2>1, <2>6, <3>1, PassedOverKept, StoreKept DEF NeedsInv, KnownInv, Running
        <3>4. PrintInv'
          BY <1>0, <2>1, <2>6, <3>1 DEF PrintInv, Running, Compared
        <3>. QED
          BY <3>2, <3>3, <3>4 DEF ArtifactInv
      <2>7. CASE /\ store[d].mapped /\ ~Conflicts(d) /\ listing' = Tail(listing)
                 /\ prints' = [prints EXCEPT ![MetadataPackage(d)] = store[d].print]
                 /\ candidates' = IF selected # NoPackage THEN candidates
                                  ELSE [candidates EXCEPT ![d] = Contained(d)]
                 /\ selected' = First(d) /\ UNCHANGED pc
        <3>1. MetadataPackage(d) \in Packages /\ store[d].holds \subseteq Packages /\ store[d].print \in Prints
          BY <1>0, <2>2, <2>4, <2>7 DEF MetadataPackage, ArtifactTypeOK, StoreOK
        <3>2. \A q \in Packages : prints[q] # NoPackage => prints'[q] = prints[q]
          BY <1>0, <2>7, <3>1 DEF Conflicts, ArtifactTypeOK
        <3>3. \A e \in Dars : Compared(e) => Compared(e)'
          <4>. SUFFICES ASSUME NEW e \in Dars, Compared(e) PROVE Compared(e)'
            OBVIOUS
          <4>1. store[e].mapped => store[e].print # NoPackage
            BY <1>0, ArtifactAssumption DEF ArtifactTypeOK, StoreOK
          <4>2. store[e].names # NoPackage => store[e].names \in Packages
            BY <1>0 DEF ArtifactTypeOK, StoreOK
          <4>. QED
            BY <2>1, <3>2, <4>1, <4>2 DEF Compared
        <3>4. Compared(d)'
          BY <1>0, <2>1, <2>7, <3>1 DEF Compared, MetadataPackage, ArtifactTypeOK
        <3>5. /\ candidates' \in [Dars -> (SUBSET Packages) \cup {NoPackage}]
              /\ \A e \in Dars : candidates'[e] = candidates[e] \/ e = d
              /\ candidates'[d] # NoPackage => Shown(d) \subseteq candidates'[d]
              /\ candidates[d] = NoPackage
              /\ selected = NoPackage => candidates'[d] # NoPackage
              /\ selected # NoPackage => candidates' = candidates
          <4>1. Contained(d) \in SUBSET Packages /\ Shown(d) \subseteq Contained(d)
            BY <1>0, <2>2, <3>1 DEF Contained, ArtifactTypeOK, StoreOK
          <4>2. Contained(d) # NoPackage
            BY <4>1, ArtifactAssumption
          <4>3. CASE selected # NoPackage
            BY <1>0, <2>1, <2>2, <2>7, <4>3 DEF ArtifactTypeOK
          <4>4. CASE selected = NoPackage
            <5>1. candidates' = [candidates EXCEPT ![d] = Contained(d)]
              BY <2>7, <4>4
            <5>2. candidates' \in [Dars -> (SUBSET Packages) \cup {NoPackage}]
              BY <1>0, <4>1, <5>1 DEF ArtifactTypeOK
            <5>3. /\ candidates'[d] = Contained(d)
                  /\ \A e \in Dars : candidates'[e] = candidates[e] \/ e = d
              BY <1>0, <2>2, <5>1 DEF ArtifactTypeOK
            <5>. QED
              BY <2>1, <4>1, <4>2, <4>4, <5>2, <5>3
          <4>. QED
            BY <4>3, <4>4
        <3>6. selected' \in Dars \cup {NoPackage}
          BY <1>0, <2>2, <2>7 DEF First, ArtifactTypeOK
        <3>7. ArtifactTypeOK'
          <4>1. prints' \in [Packages -> Prints \cup {NoPackage}]
            BY <1>0, <2>7, <3>1 DEF ArtifactTypeOK
          <4>. QED
            BY <1>0, <2>1, <2>2, <2>7, <3>5, <3>6, <4>1, StoreKept DEF ArtifactTypeOK
        <3>8. NeedsInv'
          BY <1>0, <2>1, <2>7, PassedOverKept DEF NeedsInv, Sought, Running, Noticed
        <3>9. KnownInv'
          <4>1. \A e \in Dars : candidates'[e] # NoPackage => Shown(e) \subseteq candidates'[e]
            BY <1>0, <3>5 DEF KnownInv
          <4>2. \A q \in Packages : darOf[q] # NoPackage =>
                  q \in candidates'[darOf[q]] /\ candidates'[darOf[q]] # NoPackage
            BY <1>0, <2>1, <2>2, <3>5 DEF KnownInv, ArtifactTypeOK
          <4>3. selected' # NoPackage => selected' \in Holders(packageId) /\ candidates'[selected'] # NoPackage
            BY <1>0, <2>1, <2>4, <2>7, <3>5 DEF KnownInv, First
          <4>4. ToSet(listing') \subseteq Holders(packageId)
            BY <1>0, <2>1, <2>2, <2>7 DEF KnownInv
          <4>. QED
            BY <1>0, <2>1, <2>3, <2>4, <2>7, <4>1, <4>2, <4>3, <4>4, StoreKept DEF KnownInv
        <3>10. PrintInv'
          <4>1. \A e \in Dars : candidates'[e] # NoPackage => store[e].mapped /\ Compared(e)'
            BY <1>0, <2>7, <3>3, <3>4, <3>5 DEF PrintInv
          <4>2. \A q \in lookedUp : \A e \in Holders(q) :
                  Compared(e)' \/ (q = packageId /\ e \in ToSet(listing'))
            BY <1>0, <2>1, <2>2, <2>3, <2>7, <3>3, <3>4 DEF PrintInv, Running
          <4>. QED
            BY <2>1, <2>3, <2>7, <4>1, <4>2 DEF PrintInv
        <3>. QED
          BY <3>7, <3>8, <3>9, <3>10 DEF ArtifactInv
      <2>. QED
        BY <1>6, <2>0, <2>5, <2>6, <2>7 DEF Downloads
    <1>7. CASE Chooses
      <2>1. /\ pc = "listing" /\ listing = <<>> /\ selected # NoPackage /\ seen' = seen
            /\ Adopt(selected) /\ UNCHANGED <<packageId, listing, selected>>
        BY <1>7 DEF Chooses
      <2>2. selected \in Holders(packageId) /\ candidates[selected] # NoPackage
            /\ packageId \in Packages /\ packageId \in seen /\ packageId \in lookedUp
        BY <1>0, <2>1 DEF KnownInv
      <2>3. selected \in Dars
        BY <2>2 DEF Holders
      <2>4. \/ packageId \in candidates[selected]
            \/ packageId \in lookedUp /\ selected \in Holders(packageId) /\ packageId \notin Shown(selected)
        BY <1>0, <2>2, <2>3 DEF KnownInv
      <2>5. seen' = seen \cup {packageId}
        BY <2>1, <2>2
      <2>6. Running
        BY <2>1 DEF Running
      <2>. QED
        BY <2>1, <2>2, <2>3, <2>4, <2>5, <2>6, AdoptKeeps
    <1>8. CASE Returns
      <2>1. /\ pc = "turn" /\ worklist = <<>> /\ pc' = "done"
            /\ UNCHANGED <<store, required, seen, resolved, packageIds, prints, candidates, darOf,
                           worklist, packageId, listing, selected, lookedUp>>
        BY <1>8 DEF Returns, input, known
      <2>2. ArtifactTypeOK'
        BY <1>0, <2>1, StoreKept DEF ArtifactTypeOK
      <2>3. NeedsInv' /\ KnownInv'
        BY <1>0, <2>1, PassedOverKept, StoreKept DEF NeedsInv, KnownInv, Sought, Running, Noticed
      <2>4. PrintInv'
        BY <1>0, <2>1, PrintsKept DEF Running
      <2>. QED
        BY <2>2, <2>3, <2>4 DEF ArtifactInv
    <1>9. CASE Missing \/ Fails
      <2>1. /\ pc' \in {"missing", "failed"}
            /\ UNCHANGED <<store, required, seen, resolved, packageIds, prints, candidates, darOf,
                           worklist, packageId, listing, selected, lookedUp>>
        BY <1>9 DEF Missing, Fails, input, known
      <2>2. ArtifactTypeOK'
        BY <1>0, <2>1, StoreKept DEF ArtifactTypeOK
      <2>3. NeedsInv' /\ KnownInv'
        BY <1>0, <2>1, PassedOverKept, StoreKept DEF NeedsInv, KnownInv, Running
      <2>4. PrintInv'
        BY <1>0, <2>1 DEF PrintInv, Running, Compared
      <2>. QED
        BY <2>2, <2>3, <2>4 DEF ArtifactInv
    <1>10. CASE Rests \/ UNCHANGED artifactVars
      <2>1. UNCHANGED <<store, required, seen, resolved, packageIds, prints, candidates, darOf,
                        worklist, packageId, listing, selected, lookedUp, pc>>
        BY <1>10 DEF Rests, artifactVars, input, known
      <2>2. ArtifactTypeOK'
        BY <1>0, <2>1, StoreKept DEF ArtifactTypeOK
      <2>3. NeedsInv' /\ KnownInv'
        BY <1>0, <2>1, PassedOverKept, StoreKept DEF NeedsInv, KnownInv, Sought, Running, Noticed
      <2>4. PrintInv'
        BY <1>0, <2>1 DEF PrintInv, Running, Compared, Holders
      <2>. QED
        BY <2>2, <2>3, <2>4 DEF ArtifactInv
    <1>. QED
      BY <1>1, <1>2, <1>3, <1>4, <1>5, <1>6, <1>7, <1>8, <1>9, <1>10 DEF ArtifactNext

LEMMA ArtifactInvariant == ArtifactSpec => []ArtifactInv
    BY InitArtifact, NextArtifact, PTL DEF ArtifactSpec

(* Whatever the participant holds, in whatever order it lists its DARs and *)
(* whichever of their packages can be decoded: what a result of            *)
(* resolveAsync lacks, of the required packages and the imports of the     *)
(* DARs it chose, was looked up and passed over inside a DAR it has.       *)
THEOREM ResultsAreClosed == ArtifactSpec => []ClosureComplete
    <1>1. ArtifactInv => ClosureComplete
      <2>. SUFFICES ASSUME ArtifactInv, pc = "done",
                           NEW p \in ToSet(required) \cup UNION {store[d].imports : d \in resolved}
                    PROVE p \in packageIds \/ PassedOver(p)
        BY DEF ClosureComplete
      <2>1. worklist = <<>> /\ \A q \in seen : q \in packageIds \/ PassedOver(q)
        BY DEF ArtifactInv, NeedsInv, Sought
      <2>2. Noticed = seen
        BY <2>1 DEF Noticed, ToSet
      <2>3. p \in seen
        BY <2>2 DEF ArtifactInv, NeedsInv
      <2>. QED
        BY <2>1, <2>3
    <1>. QED
      BY <1>1, ArtifactInvariant, PTL

(* All source-mapped DARs that hold a looked-up package and describe the   *)
(* same package carry one fingerprint when resolveAsync returns, chosen or *)
(* not, for any number of DARs.                                            *)
THEOREM ResultsAgree == ArtifactSpec => []SourcesAgree
    <1>1. ArtifactInv => SourcesAgree
      BY DEF ArtifactInv, PrintInv, SourcesAgree, Compared
    <1>. QED
      BY <1>1, ArtifactInvariant, PTL

-----------------------------------------------------------------------------
(***************************************************************************)
(* A debugger session shows the stack the evaluation had, and steps over   *)
(* or out of exactly the callee, for traces of any length and depth.       *)
(***************************************************************************)

\* What is recorded of an expression, of an activation and of its identity.
Expression == [kind : {"open", "caught", "done"}, id : Nat]
Activity == [kind : Activations, frame : Frames, id : Nat, exprs : Seq(Expression)]
Identity == [frame : Frames, id : Nat]

Kinds == {"effect", "enter", "exit", "call", "return"}

SessionTypeOK ==
  /\ open \in Seq(Activity) /\ frames \in Frames /\ captured \subseteq Frames
  /\ emitted \in Nat /\ ordinal \in Nat
  /\ frameExpressionDepth \in [Frames -> Nat] /\ frameCallDepth \in [Frames -> Nat]
  /\ steps \in Seq([phase : Kinds, stackFrames : Seq(Frames), control : Seq(Identity),
                    eventOrdinal : Nat])

\* No frame is under way twice, and what the loader counts is what is open.
DepthInv ==
  /\ \A i, j \in DOMAIN open : open[i].frame = open[j].frame => i = j
  /\ \A i \in DOMAIN open : open[i].frame <= frames /\ open[i].id <= emitted + 1
  /\ \A f \in captured : f <= frames
  /\ \A i \in DOMAIN open :
       /\ frameExpressionDepth[open[i].frame] = Len(open[i].exprs)
       /\ frameCallDepth[open[i].frame] = IF open[i].kind = "call" THEN 1 ELSE 0
  /\ \A f \in Frames \ OpenFrames : frameExpressionDepth[f] = 0 /\ frameCallDepth[f] = 0

\* The loader's stack lacks at most an activation that has emitted nothing.
ShownInv ==
  \/ activeFrames = FramesOf(open)
  \/ /\ open # <<>> /\ Top.exprs = <<>> /\ Top.kind # "call"
     /\ activeFrames = Front(FramesOf(open))

\* An activation keeps its place for as long as it is under way.
PlacedInv ==
  /\ \A s \in DOMAIN steps : \A p \in DOMAIN steps[s].control :
       /\ steps[s].control[p].id <= emitted
       /\ \A q \in DOMAIN open :
            steps[s].control[p] = [frame |-> open[q].frame, id |-> open[q].id] => p = q
       /\ \A t \in DOMAIN steps : \A q \in DOMAIN steps[t].control :
            steps[s].control[p] = steps[t].control[q] => p = q

RecordsInv ==
  \A s \in DOMAIN steps :
    steps[s].control # <<>> /\ steps[s].stackFrames = FramesOf(steps[s].control)

\* Where the session stands.
CursorInv ==
  /\ ordinal > 0 => steps # <<>>
  /\ phase = "evaluating" => currentStepIndex = 1
  /\ phase = "loaded" => currentStepIndex \in DOMAIN steps

SessionInv ==
  plain => SessionTypeOK /\ DepthInv /\ ShownInv /\ PlacedInv /\ RecordsInv /\ CursorInv

\* The entrypoint alone is open, and nothing is recorded.
LEMMA InitSession == SessionInit => SessionInv
  <1>. SUFFICES ASSUME SessionInit PROVE SessionInv
    OBVIOUS
  <1>. DEFINE entry == [kind |-> "entry", frame |-> 1, id |-> 0, exprs |-> <<>>]
  <1>1. MaxFrames \in Nat \ {0} /\ 1 \in Frames
    BY SessionAssumption DEF Frames
  <1>2. entry \in Activity
    BY <1>1 DEF Activity, Activations
  <1>3. open = <<entry>> /\ open \in Seq(Activity) /\ DOMAIN open = {1} /\ Len(open) = 1 /\ open[1] = entry
    BY <1>2 DEF SessionInit
  <1>4. SessionTypeOK
    BY <1>1, <1>3 DEF SessionInit, SessionTypeOK
  <1>5. DepthInv
    BY <1>3, <1>1 DEF SessionInit, DepthInv, OpenFrames
  <1>6. ShownInv
    <2>1. Top = entry
      BY <1>3 DEF Top, Last
    <2>2. Front(FramesOf(open)) = <<>>
      <3>1. FramesOf(open) = <<1>>
        BY <1>3 DEF FramesOf
      <3>. QED
        BY <3>1 DEF Front
    <2>. QED
      BY <2>1, <2>2, <1>3 DEF ShownInv, SessionInit
  <1>7. PlacedInv /\ RecordsInv /\ CursorInv
    BY DEF SessionInit, PlacedInv, RecordsInv, CursorInv
  <1>. QED
    BY <1>4, <1>5, <1>6, <1>7 DEF SessionInv

-----------------------------------------------------------------------------
(* The loader's stack.                                                     *)

\* The types of an activation's fields.
LEMMA ActivityFields ==
  ASSUME NEW a \in Activity
  PROVE /\ a.kind \in Activations /\ a.frame \in Frames /\ a.id \in Nat /\ a.exprs \in Seq(Expression)
        /\ Frames \subseteq Nat /\ Len(a.exprs) \in Nat
  <1>1. a.exprs \in Seq(Expression)
    BY DEF Activity
  <1>2. Len(a.exprs) \in Nat
    BY <1>1
  <1>. QED
    BY <1>1, <1>2 DEF Activity, Frames

\* The frames of a recursion, place by place.
LEMMA FramesAreSequences ==
  ASSUME NEW r \in Seq(Activity)
  PROVE FramesOf(r) \in Seq(Frames) /\ Len(FramesOf(r)) = Len(r) /\ DOMAIN FramesOf(r) = DOMAIN r
        /\ \A i \in DOMAIN r : FramesOf(r)[i] = r[i].frame
  <1>1. DOMAIN r = 1..Len(r) /\ Len(r) \in Nat /\ \A i \in DOMAIN r : r[i].frame \in Frames
    BY ActivityFields
  <1>2. FramesOf(r) \in [1..Len(r) -> Frames]
    BY <1>1 DEF FramesOf
  <1>3. FramesOf(r) \in Seq(Frames)
    BY <1>1, <1>2
  <1>4. Len(FramesOf(r)) = Len(r)
    BY <1>1, <1>2, <1>3
  <1>. QED
    BY <1>1, <1>3, <1>4 DEF FramesOf

\* Its identities, place by place; they have the same frames.
LEMMA FramesAreIdentities ==
  ASSUME NEW r \in Seq(Activity)
  PROVE /\ ActivationsOf(r) \in Seq(Identity) /\ Len(ActivationsOf(r)) = Len(r) /\ DOMAIN ActivationsOf(r) = DOMAIN r
        /\ \A i \in DOMAIN r : ActivationsOf(r)[i] = [frame |-> r[i].frame, id |-> r[i].id]
        /\ FramesOf(ActivationsOf(r)) = FramesOf(r)
  <1>1. DOMAIN r = 1..Len(r) /\ Len(r) \in Nat /\ \A i \in DOMAIN r : r[i].frame \in Frames /\ r[i].id \in Nat
    BY ActivityFields
  <1>2. ActivationsOf(r) \in [1..Len(r) -> Identity]
    BY <1>1 DEF ActivationsOf, Identity
  <1>3. ActivationsOf(r) \in Seq(Identity)
    BY <1>1, <1>2
  <1>4. Len(ActivationsOf(r)) = Len(r)
    BY <1>1, <1>2, <1>3
  <1>5. DOMAIN ActivationsOf(r) = DOMAIN r /\ \A i \in DOMAIN r : ActivationsOf(r)[i] = [frame |-> r[i].frame, id |-> r[i].id]
    BY DEF ActivationsOf
  <1>. QED
    BY <1>3, <1>4, <1>5 DEF FramesOf

\* A frame that is on top already, or was not shown yet, ends up on top.
LEMMA PushTop ==
  ASSUME NEW F \in Seq(Frames), F # <<>>, \A i, j \in DOMAIN F : F[i] = F[j] => i = j,
         NEW stack, stack = F \/ stack = Front(F)
  PROVE pushFrameIfMissing(stack, Last(F)) = F
  <1>. DEFINE n == Len(F)
  <1>1. n \in Nat \ {0} /\ DOMAIN F = 1..n /\ Last(F) = F[n]
    BY DEF Last
  <1>2. CASE stack = F
    <2>1. Contains(stack, Last(F))
      BY <1>1, <1>2 DEF Contains
    <2>2. (CHOOSE i \in DOMAIN stack : stack[i] = Last(F)) = n
      BY <1>1, <1>2
    <2>3. SubSeq(F, 1, n) = F
      BY <1>1, SubSeqFull
    <2>. QED
      BY <1>2, <2>1, <2>2, <2>3 DEF pushFrameIfMissing
  <1>3. CASE stack = Front(F)
    <2>1. Front(F) \in Seq(Frames) /\ Len(Front(F)) = n - 1 /\ \A i \in 1..(n - 1) : Front(F)[i] = F[i]
      BY <1>1 DEF Front
    <2>2. ~Contains(stack, Last(F))
      BY <1>1, <1>3, <2>1 DEF Contains
    <2>3. Append(Front(F), F[n]) = F
      <3>1. Append(Front(F), F[n]) \in Seq(Frames) /\ Len(Append(Front(F), F[n])) = n
        <4>1. F[n] \in Frames
          BY <1>1
        <4>2. (n - 1) + 1 = n
          BY <1>1
        <4>. QED
          BY <2>1, <4>1, <4>2, AppendProperties
      <3>2. \A i \in 1..n : Append(Front(F), F[n])[i] = F[i]
        BY <1>1, <2>1
      <3>. QED
        BY <3>1, <3>2, <1>1, SeqEqual
    <2>. QED
      BY <1>1, <1>3, <2>2, <2>3 DEF pushFrameIfMissing
  <1>. QED
    BY <1>2, <1>3

\* A frame on top is taken off.
LEMMA PopTop ==
  ASSUME NEW F \in Seq(Frames), F # <<>>
  PROVE popFrameIfTop(F, Last(F)) = Front(F)
  BY DEF popFrameIfTop

-----------------------------------------------------------------------------
(* The recursion.                                                          *)

\* Inside changes the expressions of the innermost activation and nothing else.
LEMMA InsideFacts ==
  ASSUME SessionTypeOK, open # <<>>, NEW e \in Seq(Expression)
  PROVE /\ Len(open) \in Nat /\ Len(open) # 0 /\ DOMAIN open = 1..Len(open) /\ Top \in Activity /\ Top = open[Len(open)]
        /\ Inside(e) \in Seq(Activity) /\ Len(Inside(e)) = Len(open) /\ DOMAIN Inside(e) = DOMAIN open
        /\ Inside(e)[Len(open)].exprs = e
        /\ \A i \in DOMAIN open : /\ Inside(e)[i].frame = open[i].frame /\ Inside(e)[i].id = open[i].id
                                  /\ Inside(e)[i].kind = open[i].kind
                                  /\ i # Len(open) => Inside(e)[i].exprs = open[i].exprs
  <1>. DEFINE a == [Top EXCEPT !.exprs = e]
  <1>1. open \in Seq(Activity) /\ Len(open) \in Nat /\ Len(open) # 0 /\ DOMAIN open = 1..Len(open)
    BY DEF SessionTypeOK
  <1>2. Top \in Activity /\ Top = open[Len(open)]
    BY <1>1 DEF Top, Last
  <1>3. a \in Activity /\ a.exprs = e /\ a.frame = Top.frame /\ a.id = Top.id /\ a.kind = Top.kind
    BY <1>2 DEF Activity
  <1>4. Inside(e) = [open EXCEPT ![Len(open)] = a]
    BY <1>2 DEF Inside
  <1>. HIDE DEF a
  <1>5. /\ Inside(e) \in Seq(Activity) /\ Len(Inside(e)) = Len(open)
        /\ \A j \in 1..Len(open) : Inside(e)[j] = IF j = Len(open) THEN a ELSE open[j]
    BY <1>1, <1>3, <1>4, ExceptSeq
  <1>. DEFINE o == Inside(e)
  <1>. HIDE DEF o
  <1>6. o \in Seq(Activity) /\ Len(o) = Len(open) /\ \A j \in 1..Len(open) : o[j] = IF j = Len(open) THEN a ELSE open[j]
    BY <1>5 DEF o
  <1>7. DOMAIN o = 1..Len(o)
    BY <1>6
  <1>8. /\ o[Len(open)].exprs = e
        /\ \A i \in DOMAIN open : /\ o[i].frame = open[i].frame /\ o[i].id = open[i].id
                                  /\ o[i].kind = open[i].kind
                                  /\ i # Len(open) => o[i].exprs = open[i].exprs
    <2>1. Len(open) \in 1..Len(open)
      BY <1>1
    <2>2. o[Len(open)] = a
      BY <2>1, <1>6
    <2>3. ASSUME NEW i \in DOMAIN open PROVE o[i] = IF i = Len(open) THEN a ELSE open[i]
      BY <1>1, <1>6
    <2>. QED
      BY <2>1, <2>2, <2>3, <1>2, <1>3
  <1>. QED
    BY <1>1, <1>2, <1>6, <1>7, <1>8 DEF o

\* Marking an expression adds and removes none.
LEMMA InnerAsFacts ==
  ASSUME SessionTypeOK, open # <<>>, Top.exprs # <<>>, NEW kind \in {"open", "caught", "done"}
  PROVE InnerAs(kind) \in Seq(Expression) /\ Len(InnerAs(kind)) = Len(Top.exprs)
  <1>. DEFINE es == Top.exprs
              x == [es[Len(es)] EXCEPT !.kind = kind]
  <1>1. es \in Seq(Expression)
    BY InsideFacts, ActivityFields, EmptySeq
  <1>2. Len(es) \in 1..Len(es) /\ es[Len(es)] \in Expression
    BY <1>1
  <1>3. x \in Expression
    BY <1>2 DEF Expression
  <1>4. InnerAs(kind) = [es EXCEPT ![Len(es)] = x]
    BY DEF InnerAs
  <1>. HIDE DEF es, x
  <1>5. InnerAs(kind) \in Seq(Expression) /\ Len(InnerAs(kind)) = Len(es)
    BY <1>1, <1>2, <1>3, <1>4, ExceptSeq
  <1>. QED
    BY <1>5 DEF es

\* All but the last element of a sequence.
LEMMA FrontFacts ==
  ASSUME NEW S, NEW q \in Seq(S), q # <<>>
  PROVE /\ Len(q) \in Nat /\ Len(q) # 0 /\ Front(q) \in Seq(S) /\ Len(Front(q)) = Len(q) - 1 /\ DOMAIN Front(q) = 1..(Len(q) - 1)
        /\ \A i \in 1..(Len(q) - 1) : Front(q)[i] = q[i]
  <1>1. Len(q) \in Nat /\ Len(q) # 0
    OBVIOUS
  <1>2. PICK m \in Nat : m = Len(q) - 1
    BY <1>1
  <1>3. (IF 1 <= m THEN m - 1 + 1 ELSE 0) = m
    BY <1>2
  <1>4. Front(q) = SubSeq(q, 1, m)
    BY <1>2 DEF Front
  <1>5. \A i \in 1..m : q[i] \in S
    BY <1>1, <1>2
  <1>6. Front(q) \in Seq(S) /\ Len(Front(q)) = m
    BY <1>2, <1>3, <1>4, <1>5, SubSeqProperties
  <1>7. \A i \in 1..m : Front(q)[i] = q[i]
    BY <1>1, <1>2 DEF Front
  <1>. QED
    BY <1>1, <1>2, <1>6, <1>7

\* The same activations are open, the innermost with other expressions.
LEMMA SameActivations ==
  ASSUME SessionTypeOK, DepthInv, open # <<>>, NEW e \in Seq(Expression), open' = Inside(e),
         frames' = frames, emitted' = emitted \/ emitted' = emitted + 1, captured' \subseteq captured \cup {Top.frame},
         frameCallDepth' = frameCallDepth,
         frameExpressionDepth' = [frameExpressionDepth EXCEPT ![Top.frame] = Len(e)]
  PROVE DepthInv'
  <1>1. emitted \in Nat /\ frameExpressionDepth \in [Frames -> Nat] /\ Len(e) \in Nat
    BY DEF SessionTypeOK
  <1>2. Top.frame \in Frames /\ Top.frame <= frames
    BY InsideFacts, ActivityFields DEF DepthInv
  <1>3. OpenFrames' = OpenFrames
    BY InsideFacts DEF OpenFrames
  <1>4. \A i \in DOMAIN open' :
          /\ frameExpressionDepth'[open'[i].frame] = Len(open'[i].exprs)
          /\ frameCallDepth'[open'[i].frame] = IF open'[i].kind = "call" THEN 1 ELSE 0
    <2>. SUFFICES ASSUME NEW i \in DOMAIN open
                  PROVE /\ frameExpressionDepth'[open[i].frame] = Len(open'[i].exprs)
                        /\ frameCallDepth'[open[i].frame] = IF open[i].kind = "call" THEN 1 ELSE 0
      BY InsideFacts
    <2>1. open[i].frame \in Frames
      BY ActivityFields DEF SessionTypeOK
    <2>2. CASE i = Len(open)
      BY <1>1, <2>1, <2>2, InsideFacts DEF DepthInv
    <2>3. CASE i # Len(open)
      <3>1. open[i].frame # Top.frame
        BY <2>3, InsideFacts DEF DepthInv
      <3>. QED
        BY <1>1, <2>1, <2>3, <3>1, InsideFacts DEF DepthInv
    <2>. QED
      BY <2>2, <2>3
  <1>5. \A f \in Frames \ OpenFrames : frameExpressionDepth'[f] = 0 /\ frameCallDepth'[f] = 0
    <2>1. Top.frame \in OpenFrames
      BY InsideFacts DEF OpenFrames
    <2>. QED
      BY <1>1, <2>1 DEF DepthInv
  <1>6. \A i \in DOMAIN open' : open'[i].frame <= frames' /\ open'[i].id <= emitted' + 1
    <2>. SUFFICES ASSUME NEW i \in DOMAIN open PROVE open[i].frame <= frames /\ open[i].id <= emitted' + 1
      BY InsideFacts
    <2>1. open[i].id \in Nat
      BY ActivityFields DEF SessionTypeOK
    <2>. QED
      BY <1>1, <2>1 DEF DepthInv
  <1>7. \A i, j \in DOMAIN open' : open'[i].frame = open'[j].frame => i = j
    BY InsideFacts DEF DepthInv
  <1>8. \A f \in captured' : f <= frames'
    BY <1>2 DEF DepthInv
  <1>. QED
    BY <1>3, <1>4, <1>5, <1>6, <1>7, <1>8 DEF DepthInv

\* The innermost activation has ended.
LEMMA OneLess ==
  ASSUME SessionTypeOK, DepthInv, open # <<>>, open' = Front(open),
         frames' = frames, emitted' = emitted \/ emitted' = emitted + 1, captured' \subseteq captured \cup {Top.frame},
         frameCallDepth' = [frameCallDepth EXCEPT ![Top.frame] = 0],
         frameExpressionDepth' = [frameExpressionDepth EXCEPT ![Top.frame] = 0]
  PROVE DepthInv'
  <1>0. PICK n \in Nat : n = Len(open) /\ n # 0
    BY InsideFacts, EmptySeq
  <1>1. /\ DOMAIN open = 1..n /\ Top.frame = open[n].frame /\ Top.frame \in Frames
        /\ DOMAIN open' = 1..(n - 1) /\ \A i \in 1..(n - 1) : open'[i] = open[i]
    <2>1. open \in Seq(Activity)
      BY DEF SessionTypeOK
    <2>2. Top.frame \in Frames
      BY InsideFacts, ActivityFields, EmptySeq
    <2>. QED
      BY <1>0, <2>1, <2>2, FrontFacts DEF Top, Last
  <1>2. emitted \in Nat /\ frameExpressionDepth \in [Frames -> Nat] /\ frameCallDepth \in [Frames -> Nat]
    BY DEF SessionTypeOK
  <1>3. \A i \in 1..(n - 1) : i \in DOMAIN open /\ open[i].frame # Top.frame /\ open[i].frame \in Frames /\ open[i].id \in Nat
    <2>. SUFFICES ASSUME NEW i \in 1..(n - 1)
                  PROVE i \in DOMAIN open /\ open[i].frame # Top.frame /\ open[i].frame \in Frames /\ open[i].id \in Nat
      OBVIOUS
    <2>1. i \in DOMAIN open /\ n \in DOMAIN open /\ i # n
      BY <1>0, <1>1
    <2>2. open[i] \in Activity
      BY <2>1 DEF SessionTypeOK
    <2>. QED
      BY <1>1, <2>1, <2>2, ActivityFields DEF DepthInv
  <1>4. OpenFrames' = OpenFrames \ {Top.frame}
    <2>1. \A f : f \in OpenFrames' <=> \E i \in 1..(n - 1) : open[i].frame = f
      BY <1>1 DEF OpenFrames
    <2>2. \A i \in 1..n : i \in 1..(n - 1) \/ i = n
      BY <1>0
    <2>. QED
      BY <1>1, <1>3, <2>1, <2>2 DEF OpenFrames
  <1>5. \A i \in DOMAIN open' :
          /\ frameExpressionDepth'[open'[i].frame] = Len(open'[i].exprs)
          /\ frameCallDepth'[open'[i].frame] = IF open'[i].kind = "call" THEN 1 ELSE 0
    BY <1>1, <1>2, <1>3 DEF DepthInv
  <1>6. \A f \in Frames \ OpenFrames' : frameExpressionDepth'[f] = 0 /\ frameCallDepth'[f] = 0
    BY <1>1, <1>2, <1>4 DEF DepthInv
  <1>7. \A i \in DOMAIN open' : open'[i].frame <= frames' /\ open'[i].id <= emitted' + 1
    BY <1>1, <1>2, <1>3 DEF DepthInv
  <1>8. \A i, j \in DOMAIN open' : open'[i].frame = open'[j].frame => i = j
    BY <1>1, <1>3 DEF DepthInv
  <1>9. \A f \in captured' : f <= frames'
    <2>1. Top.frame <= frames
      BY <1>1 DEF DepthInv
    <2>. QED
      BY <2>1 DEF DepthInv
  <1>. QED
    BY <1>5, <1>6, <1>7, <1>8, <1>9 DEF DepthInv

\* Another activation has begun, of a frame that is not under way.
LEMMA OneMore ==
  ASSUME SessionTypeOK, DepthInv, open # <<>>,
         NEW e \in Seq(Expression), Len(e) = Len(Top.exprs),
         NEW a \in Activity, a.frame \notin OpenFrames, a.frame <= frames', a.exprs = <<>>, a.id = emitted + 1,
         open' = Append(Inside(e), a),
         frames' = frames \/ frames' = frames + 1, emitted' = emitted \/ emitted' = emitted + 1, captured' = captured,
         frameExpressionDepth' = frameExpressionDepth,
         frameCallDepth' = [frameCallDepth EXCEPT ![a.frame] = IF a.kind = "call" THEN 1 ELSE 0]
  PROVE DepthInv'
  <1>. DEFINE o == Inside(e)
  <1>0. PICK n \in Nat : n = Len(open)
    BY InsideFacts
  <1>1. /\ DOMAIN open = 1..n
        /\ o \in Seq(Activity) /\ Len(o) = n
        /\ \A i \in DOMAIN open : /\ o[i].frame = open[i].frame /\ o[i].id = open[i].id /\ o[i].kind = open[i].kind
                                  /\ Len(o[i].exprs) = Len(open[i].exprs)
    BY <1>0, InsideFacts
  <1>. HIDE DEF o
  <1>2. DOMAIN open' = 1..(n + 1) /\ open'[n + 1] = a /\ \A i \in 1..n : open'[i] = o[i]
    BY <1>0, <1>1 DEF o
  <1>3. emitted \in Nat /\ frames \in Nat /\ frameExpressionDepth \in [Frames -> Nat] /\ frameCallDepth \in [Frames -> Nat]
    BY DEF SessionTypeOK, Frames
  <1>4. a.frame \in Frames /\ a.id \in Nat
    BY ActivityFields
  <1>5. \A i \in 1..(n + 1) : i \in 1..n \/ i = n + 1
    BY <1>0
  <1>6. \A i \in 1..n : /\ open'[i].frame = open[i].frame /\ open'[i].id = open[i].id /\ open'[i].kind = open[i].kind
                        /\ Len(open'[i].exprs) = Len(open[i].exprs)
                        /\ open[i].frame # a.frame /\ open[i].frame \in Frames /\ open[i].id \in Nat
                        /\ i \in DOMAIN open /\ i \in DOMAIN open' /\ open[i].frame \in Nat
    <2>. SUFFICES ASSUME NEW i \in 1..n
                  PROVE  /\ open'[i].frame = open[i].frame /\ open'[i].id = open[i].id /\ open'[i].kind = open[i].kind
                         /\ Len(open'[i].exprs) = Len(open[i].exprs)
                         /\ open[i].frame # a.frame /\ open[i].frame \in Frames /\ open[i].id \in Nat
                         /\ i \in DOMAIN open /\ i \in DOMAIN open' /\ open[i].frame \in Nat
      OBVIOUS
    <2>1. i \in DOMAIN open /\ i \in DOMAIN open' /\ open'[i] = o[i]
      BY <1>1, <1>2
    <2>2. open[i] \in Activity
      BY <2>1 DEF SessionTypeOK
    <2>3. open[i].frame # a.frame
      BY <2>1 DEF OpenFrames
    <2>4. open[i].frame \in Frames /\ open[i].id \in Nat /\ open[i].frame \in Nat
      BY <2>2, ActivityFields
    <2>. QED
      BY <1>1, <2>1, <2>3, <2>4
  <1>7. \A i \in DOMAIN open' :
          /\ frameExpressionDepth'[open'[i].frame] = Len(open'[i].exprs)
          /\ frameCallDepth'[open'[i].frame] = IF open'[i].kind = "call" THEN 1 ELSE 0
    <2>1. ASSUME NEW i \in 1..n
          PROVE /\ frameExpressionDepth'[open'[i].frame] = Len(open'[i].exprs)
                /\ frameCallDepth'[open'[i].frame] = IF open'[i].kind = "call" THEN 1 ELSE 0
      <3>1. /\ frameExpressionDepth[open[i].frame] = Len(open[i].exprs)
            /\ frameCallDepth[open[i].frame] = IF open[i].kind = "call" THEN 1 ELSE 0
        BY <1>6 DEF DepthInv
      <3>2. frameCallDepth'[open[i].frame] = frameCallDepth[open[i].frame]
        BY <1>3, <1>4, <1>6
      <3>. QED
        BY <1>6, <3>1, <3>2
    <2>2. /\ frameExpressionDepth'[a.frame] = Len(a.exprs)
          /\ frameCallDepth'[a.frame] = IF a.kind = "call" THEN 1 ELSE 0
      BY <1>3, <1>4 DEF DepthInv
    <2>. QED
      BY <1>2, <1>5, <2>1, <2>2
  <1>8. \A f \in Frames \ OpenFrames' : frameExpressionDepth'[f] = 0 /\ frameCallDepth'[f] = 0
    <2>1. OpenFrames \cup {a.frame} \subseteq OpenFrames'
      <3>1. \A i \in 1..n : open[i].frame \in OpenFrames'
        BY <1>6 DEF OpenFrames
      <3>2. a.frame \in OpenFrames'
        <4>1. n + 1 \in DOMAIN open'
          BY <1>2
        <4>. QED
          BY <1>2, <4>1 DEF OpenFrames
      <3>3. OpenFrames = {open[i].frame : i \in 1..n}
        BY <1>1 DEF OpenFrames
      <3>. QED
        BY <3>1, <3>2, <3>3
    <2>. QED
      BY <1>3, <1>4, <2>1 DEF DepthInv
  <1>9. \A i \in DOMAIN open' : open'[i].frame <= frames' /\ open'[i].id <= emitted' + 1
    <2>1. ASSUME NEW i \in 1..n PROVE open'[i].frame <= frames' /\ open'[i].id <= emitted' + 1
      <3>1. open[i].frame <= frames /\ open[i].id <= emitted + 1
        BY <1>6 DEF DepthInv
      <3>. QED
        BY <3>1, <1>3, <1>6
    <2>. QED
      BY <1>2, <1>3, <1>5, <2>1
  <1>10. \A i, j \in DOMAIN open' : open'[i].frame = open'[j].frame => i = j
    BY <1>1, <1>2, <1>5, <1>6 DEF DepthInv
  <1>11. \A f \in captured' : f <= frames'
    <2>. SUFFICES ASSUME NEW f \in captured PROVE f <= frames'
      OBVIOUS
    <2>1. f \in Nat /\ f <= frames
      BY DEF SessionTypeOK, Frames, DepthInv
    <2>. QED
      BY <2>1, <1>3
  <1>. QED
    BY <1>7, <1>8, <1>9, <1>10, <1>11 DEF DepthInv

-----------------------------------------------------------------------------
(* What a step records.                                                    *)

\* A recursion of the activations under way, at their places, and at most one
\* new one in a frame that was not there yet.
Extends(o) ==
  /\ o \in Seq(Activity)
  /\ \A i \in DOMAIN o :
       \/ i \in DOMAIN open /\ o[i].frame = open[i].frame /\ o[i].id = open[i].id
       \/ i = Len(open) + 1 /\ o[i].id = emitted + 1 /\ o[i].frame > frames

\* No two activations in one frame.
Apart(o) == \A i, j \in DOMAIN o : o[i].frame = o[j].frame => i = j

\* Every recorded stack is a sequence of identities.
LEMMA RecordedIdentities ==
  ASSUME SessionTypeOK, NEW s \in DOMAIN steps
  PROVE /\ steps[s].control \in Seq(Identity) /\ steps[s].stackFrames \in Seq(Frames)
        /\ \A p \in DOMAIN steps[s].control : steps[s].control[p] \in Identity /\ steps[s].control[p].id \in Nat
  <1>. DEFINE Record == [phase : Kinds, stackFrames : Seq(Frames), control : Seq(Identity), eventOrdinal : Nat]
  <1>1. \A r \in Record : r.control \in Seq(Identity) /\ r.stackFrames \in Seq(Frames)
    OBVIOUS
  <1>2. steps \in Seq(Record)
    BY DEF SessionTypeOK
  <1>. HIDE DEF Record
  <1>3. steps[s] \in Record
    BY <1>2
  <1>4. steps[s].control \in Seq(Identity) /\ steps[s].stackFrames \in Seq(Frames)
    BY <1>1, <1>3
  <1>5. \A p \in DOMAIN steps[s].control : steps[s].control[p] \in Identity
    BY <1>4
  <1>6. \A a \in Identity : a.id \in Nat
    BY DEF Identity
  <1>. QED
    BY <1>4, <1>5, <1>6

\* Two such recursions agree on places.
LEMMA ExtensionsAgree ==
  ASSUME SessionTypeOK, DepthInv, NEW o, NEW r, Extends(o), Extends(r),
         NEW i \in DOMAIN o, NEW j \in DOMAIN r, o[i].frame = r[j].frame
  PROVE i = j
  <1>1. \A k \in DOMAIN open : open[k].frame <= frames
    BY DEF DepthInv
  <1>2. open \in Seq(Activity) /\ frames \in Nat
    BY DEF SessionTypeOK, Frames
  <1>3. \A k \in DOMAIN open : open[k].frame \in Nat
    BY <1>2, ActivityFields
  <1>4. CASE i \in DOMAIN open /\ o[i].frame = open[i].frame
    <2>1. ~(r[j].frame > frames)
      BY <1>1, <1>2, <1>3, <1>4
    <2>2. j \in DOMAIN open /\ r[j].frame = open[j].frame
      BY <2>1 DEF Extends
    <2>. QED
      BY <1>4, <2>2 DEF DepthInv
  <1>5. CASE i = Len(open) + 1 /\ o[i].frame > frames
    <2>1. ~(j \in DOMAIN open /\ r[j].frame = open[j].frame)
      BY <1>1, <1>2, <1>3, <1>5
    <2>. QED
      BY <1>5, <2>1 DEF Extends
  <1>. QED
    BY <1>4, <1>5 DEF Extends

\* A recorded activation is at the place a recursion that goes on has it.
LEMMA RecordedAgree ==
  ASSUME SessionTypeOK, PlacedInv, NEW o, NEW i \in DOMAIN o,
         \/ i \in DOMAIN open /\ o[i].frame = open[i].frame /\ o[i].id = open[i].id
         \/ o[i].id = emitted + 1,
         NEW s \in DOMAIN steps, NEW p \in DOMAIN steps[s].control,
         steps[s].control[p] = [frame |-> o[i].frame, id |-> o[i].id]
  PROVE p = i
  <1>1. steps[s].control[p].id = o[i].id /\ steps[s].control[p].id <= emitted
    BY DEF PlacedInv
  <1>2. emitted \in Nat
    BY DEF SessionTypeOK
  <1>3. o[i].id # emitted + 1
    BY <1>1, <1>2
  <1>4. i \in DOMAIN open /\ o[i].frame = open[i].frame /\ o[i].id = open[i].id
    BY <1>3
  <1>. QED
    BY <1>4 DEF PlacedInv

\* No activation is newer than the next step.
LEMMA IdsBounded ==
  ASSUME SessionTypeOK, DepthInv, NEW o, Extends(o), NEW i \in DOMAIN o
  PROVE o[i].id <= emitted + 1 /\ o[i].id \in Nat
  <1>1. o[i] \in Activity
    BY DEF Extends
  <1>2. o[i].id \in Nat /\ emitted \in Nat
    BY <1>1, ActivityFields DEF SessionTypeOK
  <1>. QED
    BY <1>2 DEF Extends, DepthInv

\* A step without a record keeps the places if it only extends the recursion.
LEMMA PlacesKept ==
  ASSUME SessionTypeOK, PlacedInv, steps' = steps,
         \A i \in DOMAIN open' :
           \/ i \in DOMAIN open /\ open'[i].frame = open[i].frame /\ open'[i].id = open[i].id
           \/ open'[i].id = emitted + 1,
         emitted' = emitted \/ emitted' = emitted + 1
  PROVE PlacedInv'
  <1>1. emitted \in Nat
    BY DEF SessionTypeOK
  <1>2. ASSUME NEW s \in DOMAIN steps, NEW p \in DOMAIN steps[s].control
        PROVE steps[s].control[p].id <= emitted'
    <2>1. steps[s].control[p].id \in Nat /\ steps[s].control[p].id <= emitted
      BY RecordedIdentities DEF PlacedInv
    <2>. QED
      BY <1>1, <2>1
  <1>3. ASSUME NEW s \in DOMAIN steps, NEW p \in DOMAIN steps[s].control, NEW q \in DOMAIN open',
               steps[s].control[p] = [frame |-> open'[q].frame, id |-> open'[q].id]
        PROVE p = q
    BY <1>3, RecordedAgree
  <1>. QED
    BY <1>2, <1>3 DEF PlacedInv

\* What a step adds to the record.
LEMMA EmitRecords ==
  ASSUME SessionTypeOK, DepthInv, PlacedInv, RecordsInv, ordinal > 0 => steps # <<>>,
         NEW kind \in Kinds, NEW f \in Frames, NEW now, Emit(kind, f, now),
         Extends(now), Apart(now), now # <<>>, Extends(open'),
         pushFrameIfMissing(activeFrames, f) = FramesOf(now)
  PROVE /\ emitted' \in Nat /\ ordinal' \in Nat /\ (ordinal' > 0 => steps' # <<>>)
        /\ steps' \in Seq([phase : Kinds, stackFrames : Seq(Frames), control : Seq(Identity), eventOrdinal : Nat])
        /\ PlacedInv' /\ RecordsInv'
  <1>. DEFINE Record == [phase : Kinds, stackFrames : Seq(Frames), control : Seq(Identity), eventOrdinal : Nat]
              r == [phase |-> kind, stackFrames |-> FramesOf(now), control |-> ActivationsOf(now),
                    eventOrdinal |-> ordinal']
  <1>1. emitted \in Nat /\ ordinal \in Nat /\ steps \in Seq(Record)
    BY DEF SessionTypeOK
  <1>2. emitted' = emitted + 1 /\ ordinal' = IF kind = "effect" THEN ordinal + 1 ELSE ordinal
    BY DEF Emit
  <1>3. emitted' \in Nat /\ ordinal' \in Nat
    BY <1>1, <1>2
  <1>4. now \in Seq(Activity)
    BY DEF Extends
  <1>5. /\ ActivationsOf(now) \in Seq(Identity) /\ ActivationsOf(now) # <<>> /\ DOMAIN ActivationsOf(now) = DOMAIN now
        /\ \A i \in DOMAIN now : ActivationsOf(now)[i] = [frame |-> now[i].frame, id |-> now[i].id]
        /\ FramesOf(ActivationsOf(now)) = FramesOf(now) /\ FramesOf(now) \in Seq(Frames)
    BY <1>4, FramesAreIdentities, FramesAreSequences, EmptySeq
  <1>6. r \in Record
    BY <1>3, <1>5
  <1>7. steps' = steps \/ steps' = Append(steps, r)
    BY DEF Emit
  <1>8. kind = "effect" => steps' = Append(steps, r)
    BY DEF Emit, Retains
  <1>. HIDE DEF Record
  <1>9. steps' \in Seq(Record) /\ (steps' = Append(steps, r) => steps' # <<>>)
    BY <1>1, <1>6, <1>7, AppendProperties
  <1>10. ordinal' > 0 => steps' # <<>>
    BY <1>2, <1>7, <1>8, <1>9
  <1>11. CASE steps' = steps
    <2>1. PlacedInv'
      BY <1>2, <1>11, PlacesKept DEF Extends
    <2>. QED
      BY <1>3, <1>9, <1>10, <1>11, <2>1 DEF RecordsInv, Record
  <1>12. CASE steps' = Append(steps, r)
    <2>1. PICK n \in Nat : n = Len(steps)
      BY <1>1
    <2>2. /\ DOMAIN steps = 1..n /\ DOMAIN steps' = 1..(n + 1) /\ steps'[n + 1] = r
          /\ \A s \in 1..n : steps'[s] = steps[s]
      BY <1>1, <1>6, <1>12, <2>1, AppendProperties
    <2>3. \A s \in 1..(n + 1) : s \in 1..n \/ s = n + 1
      OBVIOUS
    <2>4. RecordsInv'
      BY <1>5, <2>2, <2>3 DEF RecordsInv
    <2>5. ASSUME NEW s \in DOMAIN steps', NEW p \in DOMAIN steps'[s].control
          PROVE steps'[s].control[p].id <= emitted'
      <3>1. CASE s \in 1..n
        <4>1. s \in DOMAIN steps /\ p \in DOMAIN steps[s].control
          BY <2>2, <3>1
        <4>2. steps[s].control[p].id <= emitted /\ steps[s].control[p].id \in Nat
          BY <4>1, RecordedIdentities DEF PlacedInv
        <4>. QED
          BY <1>1, <1>2, <2>2, <3>1, <4>2
      <3>2. CASE s = n + 1
        BY <1>2, <1>5, <2>2, <3>2, IdsBounded
      <3>. QED
        BY <2>2, <2>3, <3>1, <3>2
    <2>6. ASSUME NEW s \in DOMAIN steps', NEW p \in DOMAIN steps'[s].control, NEW q \in DOMAIN open',
                 steps'[s].control[p] = [frame |-> open'[q].frame, id |-> open'[q].id]
          PROVE p = q
      <3>1. CASE s \in 1..n
        BY <2>2, <2>6, <3>1, RecordedAgree DEF Extends
      <3>2. CASE s = n + 1
        <4>1. p \in DOMAIN now /\ now[p].frame = open'[q].frame
          BY <1>5, <2>2, <2>6, <3>2
        <4>. QED
          BY <4>1, ExtensionsAgree
      <3>. QED
        BY <2>2, <2>3, <3>1, <3>2
    <2>7. ASSUME NEW s \in 1..n, NEW p \in DOMAIN steps[s].control, NEW q \in DOMAIN now,
                 steps[s].control[p] = ActivationsOf(now)[q]
          PROVE p = q
      <3>1. s \in DOMAIN steps
        BY <2>2
      <3>2. steps[s].control[p] = [frame |-> now[q].frame, id |-> now[q].id]
        BY <1>5, <2>7
      <3>. QED
        BY <3>1, <3>2, RecordedAgree DEF Extends
    <2>8. ASSUME NEW s \in DOMAIN steps', NEW p \in DOMAIN steps'[s].control,
                 NEW t \in DOMAIN steps', NEW q \in DOMAIN steps'[t].control,
                 steps'[s].control[p] = steps'[t].control[q]
          PROVE p = q
      <3>1. CASE s \in 1..n /\ t \in 1..n
        BY <2>2, <2>8, <3>1 DEF PlacedInv
      <3>2. CASE s \in 1..n /\ t = n + 1
        BY <1>5, <2>2, <2>7, <2>8, <3>2
      <3>3. CASE s = n + 1 /\ t \in 1..n
        BY <1>5, <2>2, <2>7, <2>8, <3>3
      <3>4. CASE s = n + 1 /\ t = n + 1
        <4>1. p \in DOMAIN now /\ q \in DOMAIN now /\ now[p].frame = now[q].frame
          BY <1>5, <2>2, <2>8, <3>4
        <4>. QED
          BY <4>1 DEF Apart
      <3>. QED
        BY <2>2, <2>3, <3>1, <3>2, <3>3, <3>4
    <2>9. PlacedInv'
      BY <2>5, <2>6, <2>8 DEF PlacedInv
    <2>. QED
      BY <1>3, <1>9, <1>10, <2>4, <2>9 DEF Record
  <1>. QED
    BY <1>7, <1>11, <1>12

-----------------------------------------------------------------------------
(* One step.                                                               *)

\* The recursion as it stands; its last frame is the innermost one's.
LEMMA OpenExtends ==
  ASSUME SessionTypeOK, DepthInv, open # <<>>
  PROVE /\ Extends(open) /\ Apart(open) /\ FramesOf(open) \in Seq(Frames) /\ FramesOf(open) # <<>>
        /\ Last(FramesOf(open)) = Top.frame /\ Top.frame \in Frames
        /\ \A i, j \in DOMAIN FramesOf(open) : FramesOf(open)[i] = FramesOf(open)[j] => i = j
  <1>1. open \in Seq(Activity)
    BY DEF SessionTypeOK
  <1>2. /\ FramesOf(open) \in Seq(Frames) /\ Len(FramesOf(open)) = Len(open) /\ DOMAIN FramesOf(open) = DOMAIN open
        /\ \A i \in DOMAIN open : FramesOf(open)[i] = open[i].frame
    BY <1>1, FramesAreSequences
  <1>3. Len(open) \in DOMAIN open /\ Top = open[Len(open)] /\ Top.frame \in Frames
    <2>1. <<>> \in Seq(Expression)
      OBVIOUS
    <2>2. Len(open) \in Nat /\ Len(open) # 0 /\ DOMAIN open = 1..Len(open)
      BY <2>1, InsideFacts
    <2>3. Top = open[Len(open)] /\ Top \in Activity
      BY <2>1, InsideFacts
    <2>4. Top.frame \in Frames
      BY <2>3, ActivityFields
    <2>. QED
      BY <2>2, <2>3, <2>4
  <1>4. Last(FramesOf(open)) = Top.frame
    BY <1>2, <1>3 DEF Last
  <1>5. FramesOf(open) # <<>>
    BY <1>2, <1>3
  <1>6. \A i, j \in DOMAIN open : FramesOf(open)[i] = FramesOf(open)[j] => i = j
    BY <1>2 DEF DepthInv
  <1>7. Extends(open)
    BY <1>1 DEF Extends
  <1>8. Apart(open)
    BY DEF Apart, DepthInv
  <1>. QED
    BY <1>2, <1>3, <1>4, <1>5, <1>6, <1>7, <1>8

\* Once a step of the innermost activation is read, the loader shows it all.
LEMMA TopShown ==
  ASSUME SessionTypeOK, DepthInv, ShownInv, open # <<>>
  PROVE pushFrameIfMissing(activeFrames, Top.frame) = FramesOf(open)
  <1>1. activeFrames = FramesOf(open) \/ activeFrames = Front(FramesOf(open))
    BY DEF ShownInv
  <1>. QED
    BY <1>1, OpenExtends, PushTop

\* The recursion with other expressions in its innermost activation.
LEMMA InsideExtends ==
  ASSUME SessionTypeOK, DepthInv, open # <<>>, NEW e \in Seq(Expression)
  PROVE /\ Extends(Inside(e)) /\ Apart(Inside(e)) /\ Inside(e) # <<>> /\ Inside(e) \in Seq(Activity)
        /\ FramesOf(Inside(e)) = FramesOf(open)
  <1>1. /\ Len(open) \in DOMAIN open /\ Inside(e) \in Seq(Activity) /\ DOMAIN Inside(e) = DOMAIN open
        /\ \A i \in DOMAIN open : Inside(e)[i].frame = open[i].frame /\ Inside(e)[i].id = open[i].id
    BY InsideFacts
  <1>2. FramesOf(Inside(e)) = FramesOf(open)
    BY <1>1 DEF FramesOf
  <1>3. Extends(Inside(e))
    BY <1>1 DEF Extends
  <1>4. Apart(Inside(e))
    BY <1>1 DEF Apart, DepthInv
  <1>5. Inside(e) # <<>>
    BY <1>1
  <1>. QED
    BY <1>1, <1>2, <1>3, <1>4, <1>5

\* The recursion without its innermost activation.
LEMMA FrontExtends ==
  ASSUME SessionTypeOK, DepthInv, open # <<>>
  PROVE Extends(Front(open)) /\ Front(open) \in Seq(Activity) /\ FramesOf(Front(open)) = Front(FramesOf(open))
  <1>1. open \in Seq(Activity)
    BY DEF SessionTypeOK
  <1>2. PICK n \in Nat : n = Len(open) /\ n # 0
    BY <1>1, FrontFacts
  <1>3. /\ Front(open) \in Seq(Activity) /\ Len(Front(open)) = n - 1 /\ DOMAIN Front(open) = 1..(n - 1)
        /\ \A i \in 1..(n - 1) : Front(open)[i] = open[i]
    BY <1>1, <1>2, FrontFacts
  <1>4. DOMAIN open = 1..n /\ \A i \in 1..(n - 1) : i \in 1..n
    BY <1>1, <1>2
  <1>5. Extends(Front(open))
    BY <1>3, <1>4 DEF Extends
  <1>6. FramesOf(Front(open)) = Front(FramesOf(open))
    <2>1. /\ FramesOf(open) \in Seq(Frames) /\ Len(FramesOf(open)) = n /\ FramesOf(open) # <<>>
          /\ \A i \in 1..n : FramesOf(open)[i] = open[i].frame
      BY <1>1, <1>2, <1>4, FramesAreSequences, OpenExtends
    <2>2. /\ FramesOf(Front(open)) \in Seq(Frames) /\ Len(FramesOf(Front(open))) = n - 1
          /\ \A i \in 1..(n - 1) : FramesOf(Front(open))[i] = open[i].frame
      BY <1>3, FramesAreSequences
    <2>3. /\ Front(FramesOf(open)) \in Seq(Frames) /\ Len(Front(FramesOf(open))) = n - 1
          /\ \A i \in 1..(n - 1) : Front(FramesOf(open))[i] = FramesOf(open)[i]
      BY <2>1, FrontFacts
    <2>4. \A i \in 1..(n - 1) : FramesOf(Front(open))[i] = Front(FramesOf(open))[i]
      BY <1>4, <2>1, <2>2, <2>3
    <2>. QED
      BY <2>2, <2>3, <2>4, SeqEqual
  <1>. QED
    BY <1>3, <1>5, <1>6

\* The recursion with one more activation, of a frame not under way.
LEMMA AppendExtends ==
  ASSUME SessionTypeOK, DepthInv, open # <<>>, NEW e \in Seq(Expression),
         NEW a \in Activity, a.frame \notin OpenFrames, a.id = emitted + 1,
         open' = Append(Inside(e), a)
  PROVE /\ open' \in Seq(Activity) /\ open' # <<>> /\ Last(open') = a /\ Apart(open')
        /\ FramesOf(open') \in Seq(Frames) /\ FramesOf(open') # <<>> /\ Last(FramesOf(open')) = a.frame
        /\ Front(FramesOf(open')) = FramesOf(open)
        /\ \A i, j \in DOMAIN FramesOf(open') : FramesOf(open')[i] = FramesOf(open')[j] => i = j
        /\ \A i \in DOMAIN open' :
             \/ i \in DOMAIN open /\ open'[i].frame = open[i].frame /\ open'[i].id = open[i].id
             \/ open'[i].id = emitted + 1
        /\ a.frame > frames => Extends(open')
  <1>1. PICK n \in Nat : n = Len(open)
    BY InsideFacts
  <1>2. /\ DOMAIN open = 1..n /\ Inside(e) \in Seq(Activity) /\ Len(Inside(e)) = n
        /\ \A i \in 1..n : Inside(e)[i].frame = open[i].frame /\ Inside(e)[i].id = open[i].id
    BY <1>1, InsideFacts
  <1>3. /\ open' \in Seq(Activity) /\ Len(open') = n + 1 /\ open'[n + 1] = a
        /\ \A i \in 1..n : open'[i] = Inside(e)[i]
    BY <1>2, AppendProperties
  <1>4. DOMAIN open' = 1..(n + 1) /\ n + 1 \in DOMAIN open' /\ \A i \in 1..(n + 1) : i \in 1..n \/ i = n + 1
    BY <1>1, <1>3
  <1>5. \A i \in 1..n : open'[i].frame = open[i].frame /\ open'[i].id = open[i].id
    BY <1>2, <1>3
  <1>6. Last(open') = a /\ open' # <<>>
    BY <1>1, <1>3, <1>4 DEF Last
  <1>7. Apart(open')
    <2>1. \A i \in 1..n : open'[i].frame # a.frame
      BY <1>2, <1>5 DEF OpenFrames
    <2>2. \A i, j \in 1..n : open'[i].frame = open'[j].frame => i = j
      BY <1>2, <1>5 DEF DepthInv
    <2>. QED
      BY <1>3, <1>4, <2>1, <2>2 DEF Apart
  <1>8. /\ FramesOf(open') \in Seq(Frames) /\ Len(FramesOf(open')) = n + 1 /\ DOMAIN FramesOf(open') = DOMAIN open'
        /\ \A i \in DOMAIN open' : FramesOf(open')[i] = open'[i].frame
    BY <1>3, FramesAreSequences
  <1>9. FramesOf(open') # <<>> /\ Last(FramesOf(open')) = a.frame
    <2>1. FramesOf(open')[n + 1] = a.frame
      BY <1>3, <1>4, <1>8
    <2>. QED
      BY <1>1, <1>4, <1>8, <2>1 DEF Last
  <1>10. Front(FramesOf(open')) = FramesOf(open)
    <2>1. (n + 1) - 1 = n
      BY <1>1
    <2>2. /\ Front(FramesOf(open')) \in Seq(Frames) /\ Len(Front(FramesOf(open'))) = n
          /\ \A i \in 1..n : Front(FramesOf(open'))[i] = FramesOf(open')[i]
      BY <1>8, <1>9, <2>1, FrontFacts
    <2>3. open \in Seq(Activity)
      BY DEF SessionTypeOK
    <2>4. /\ FramesOf(open) \in Seq(Frames) /\ Len(FramesOf(open)) = n
          /\ \A i \in 1..n : FramesOf(open)[i] = open[i].frame
      BY <1>1, <1>2, <2>3, FramesAreSequences
    <2>5. ASSUME NEW i \in 1..n PROVE Front(FramesOf(open'))[i] = FramesOf(open)[i]
      <3>1. i \in DOMAIN open'
        BY <1>1, <1>4
      <3>2. FramesOf(open')[i] = open[i].frame
        BY <1>5, <1>8, <3>1
      <3>. QED
        BY <2>2, <2>4, <3>2
    <2>. QED
      BY <2>2, <2>4, <2>5, SeqEqual
  <1>11. \A i, j \in DOMAIN FramesOf(open') : FramesOf(open')[i] = FramesOf(open')[j] => i = j
    BY <1>7, <1>8 DEF Apart
  <1>12. \A i \in DOMAIN open' :
           \/ i \in DOMAIN open /\ open'[i].frame = open[i].frame /\ open'[i].id = open[i].id
           \/ i = n + 1 /\ open'[i] = a
    BY <1>2, <1>3, <1>4, <1>5
  <1>13. a.frame > frames => Extends(open')
    BY <1>1, <1>3, <1>12 DEF Extends
  <1>. QED
    BY <1>3, <1>6, <1>7, <1>8, <1>9, <1>10, <1>11, <1>12, <1>13

\* What is left of a step that emits, once the counts and the stack are known.
LEMMA AfterEmit ==
  ASSUME SessionTypeOK, DepthInv, PlacedInv, RecordsInv, CursorInv, Evaluating,
         NEW kind \in Kinds, NEW f \in Frames, NEW now, Emit(kind, f, now),
         Extends(now), Apart(now), now # <<>>, Extends(open'),
         pushFrameIfMissing(activeFrames, f) = FramesOf(now),
         phase' = phase, currentStepIndex' = currentStepIndex,
         frames' \in Frames, captured' \subseteq Frames,
         frameExpressionDepth' \in [Frames -> Nat], frameCallDepth' \in [Frames -> Nat],
         DepthInv', ShownInv'
  PROVE SessionInv'
  <1>1. ordinal > 0 => steps # <<>>
    BY DEF CursorInv
  <1>2. /\ emitted' \in Nat /\ ordinal' \in Nat /\ (ordinal' > 0 => steps' # <<>>)
        /\ steps' \in Seq([phase : Kinds, stackFrames : Seq(Frames), control : Seq(Identity), eventOrdinal : Nat])
        /\ PlacedInv' /\ RecordsInv'
    BY <1>1, EmitRecords
  <1>3. open' \in Seq(Activity)
    BY DEF Extends
  <1>4. SessionTypeOK'
    BY <1>2, <1>3 DEF SessionTypeOK
  <1>5. CursorInv'
    BY <1>2 DEF CursorInv, Evaluating
  <1>. QED
    BY <1>2, <1>4, <1>5 DEF SessionInv

\* The invariant, action by action.
LEMMA EntryEffectStep ==
  ASSUME SessionInv, plain, EntryEffect
  PROVE SessionInv'
  <1>1. SessionTypeOK /\ DepthInv /\ ShownInv /\ PlacedInv /\ RecordsInv /\ CursorInv
    BY DEF SessionInv
  <1>2. Evaluating /\ open # <<>> /\ Emit("effect", Top.frame, open) /\ UNCHANGED evalVars /\ phase' = phase /\ currentStepIndex' = currentStepIndex
    BY DEF EntryEffect, Evaluating
  <1>3. open' = open /\ frames' = frames /\ captured' = captured
    BY <1>2 DEF evalVars
  <1>4. pushFrameIfMissing(activeFrames, Top.frame) = FramesOf(open)
    BY <1>1, <1>2, TopShown
  <1>5. /\ activeFrames' = FramesOf(open) /\ frameExpressionDepth' = frameExpressionDepth
        /\ frameCallDepth' = frameCallDepth /\ emitted' = emitted + 1
    BY <1>2, <1>4 DEF Emit
  <1>6. DepthInv'
    <2>1. \A i \in DOMAIN open : open[i].id <= emitted' + 1
      <3>. SUFFICES ASSUME NEW i \in DOMAIN open PROVE open[i].id <= emitted' + 1
        OBVIOUS
      <3>1. open[i].id <= emitted + 1 /\ open[i].id \in Nat /\ emitted \in Nat
        BY <1>1, ActivityFields DEF DepthInv, SessionTypeOK
      <3>. QED
        BY <1>5, <3>1
    <2>. QED
      BY <1>1, <1>3, <1>5, <2>1 DEF DepthInv, OpenFrames
  <1>7. ShownInv'
    BY <1>3, <1>5 DEF ShownInv, FramesOf
  <1>8. Extends(open') /\ Extends(open) /\ Apart(open) /\ Top.frame \in Frames
    BY <1>1, <1>2, <1>3, OpenExtends
  <1>9. /\ frames' \in Frames /\ captured' \subseteq Frames
        /\ frameExpressionDepth' \in [Frames -> Nat] /\ frameCallDepth' \in [Frames -> Nat]
    BY <1>1, <1>3, <1>5 DEF SessionTypeOK
  <1>. QED
    BY <1>1, <1>2, <1>4, <1>6, <1>7, <1>8, <1>9, AfterEmit DEF Kinds

LEMMA EnterStep ==
  ASSUME SessionInv, plain, Enter
  PROVE SessionInv'
  <1>. DEFINE outer == IF Top.exprs # <<>> /\ Inner.kind = "caught" THEN InnerAs("done") ELSE Top.exprs
              e == Append(outer, [kind |-> "open", id |-> emitted + 1])
  <1>1. SessionTypeOK /\ DepthInv /\ ShownInv /\ PlacedInv /\ RecordsInv /\ CursorInv
    BY DEF SessionInv
  <1>2. /\ Evaluating /\ open # <<>> /\ open' = Inside(e) /\ Emit("enter", Top.frame, open')
        /\ frames' = frames /\ captured' = captured /\ phase' = phase /\ currentStepIndex' = currentStepIndex
    BY DEF Enter, Evaluating
  <1>3. Top \in Activity /\ Top.exprs \in Seq(Expression) /\ Len(Top.exprs) \in Nat /\ Top.frame \in Frames
    <2>1. <<>> \in Seq(Expression)
      OBVIOUS
    <2>. QED
      BY <1>1, <1>2, <2>1, InsideFacts, ActivityFields
  <1>4. outer \in Seq(Expression) /\ Len(outer) = Len(Top.exprs)
    BY <1>1, <1>2, <1>3, InnerAsFacts
  <1>. HIDE DEF outer
  <1>5. e \in Seq(Expression) /\ Len(e) = Len(Top.exprs) + 1
    <2>1. emitted + 1 \in Nat
      BY <1>1 DEF SessionTypeOK
    <2>2. [kind |-> "open", id |-> emitted + 1] \in Expression
      BY <2>1 DEF Expression
    <2>. QED
      BY <1>4, <2>2, AppendProperties
  <1>. HIDE DEF e
  <1>6. /\ Extends(open') /\ Apart(open') /\ open' # <<>> /\ FramesOf(open') = FramesOf(open)
    BY <1>1, <1>2, <1>5, InsideExtends
  <1>7. pushFrameIfMissing(activeFrames, Top.frame) = FramesOf(open')
    BY <1>1, <1>2, <1>6, TopShown
  <1>8. /\ activeFrames' = FramesOf(open') /\ frameCallDepth' = frameCallDepth /\ emitted' = emitted + 1
        /\ frameExpressionDepth' = [frameExpressionDepth EXCEPT ![Top.frame] = @ + 1]
    BY <1>2, <1>7 DEF Emit
  <1>9. frameExpressionDepth' = [frameExpressionDepth EXCEPT ![Top.frame] = Len(e)]
    <2>1. Len(open) \in DOMAIN open /\ Top = open[Len(open)]
      BY <1>1, <1>2, <1>5, InsideFacts
    <2>2. frameExpressionDepth[Top.frame] = Len(Top.exprs)
      BY <1>1, <2>1 DEF DepthInv
    <2>. QED
      BY <1>5, <1>8, <2>2
  <1>10. DepthInv'
    BY <1>1, <1>2, <1>5, <1>8, <1>9, SameActivations
  <1>11. ShownInv'
    BY <1>8 DEF ShownInv, FramesOf
  <1>12. /\ frames' \in Frames /\ captured' \subseteq Frames
         /\ frameExpressionDepth' \in [Frames -> Nat] /\ frameCallDepth' \in [Frames -> Nat]
    <2>1. Len(e) \in Nat
      BY <1>5
    <2>. QED
      BY <1>1, <1>2, <1>8, <1>9, <2>1 DEF SessionTypeOK
  <1>. QED
    BY <1>1, <1>2, <1>3, <1>6, <1>7, <1>10, <1>11, <1>12, AfterEmit DEF Kinds

LEMMA ExitStep ==
  ASSUME SessionInv, plain, Exit
  PROVE SessionInv'
  <1>. DEFINE es == Top.exprs
              ends == Len(es) = 1 /\ Top.kind # "call"
  <1>1. SessionTypeOK /\ DepthInv /\ ShownInv /\ PlacedInv /\ RecordsInv /\ CursorInv
    BY DEF SessionInv
  <1>2. /\ Evaluating /\ open # <<>> /\ es # <<>> /\ Emit("exit", Top.frame, open)
        /\ open' = IF ends THEN Front(open) ELSE Inside(Front(es))
        /\ captured' = captured \cup {Top.frame}
        /\ frames' = frames /\ phase' = phase /\ currentStepIndex' = currentStepIndex
    BY DEF Exit, InExpression, Evaluating
  <1>3. Top \in Activity /\ es \in Seq(Expression) /\ Top.frame \in Frames
    <2>1. <<>> \in Seq(Expression)
      OBVIOUS
    <2>. QED
      BY <1>1, <1>2, <2>1, InsideFacts, ActivityFields
  <1>. HIDE DEF es
  <1>4. Len(es) \in Nat /\ Len(es) # 0 /\ Front(es) \in Seq(Expression) /\ Len(Front(es)) = Len(es) - 1
    BY <1>2, <1>3, FrontFacts
  <1>5. /\ frameExpressionDepth[Top.frame] = Len(es)
        /\ frameCallDepth[Top.frame] = IF Top.kind = "call" THEN 1 ELSE 0
    <2>1. Len(open) \in DOMAIN open /\ Top = open[Len(open)]
      BY <1>1, <1>2, <1>4, InsideFacts
    <2>. QED
      BY <1>1, <2>1 DEF DepthInv, es
  <1>6. pushFrameIfMissing(activeFrames, Top.frame) = FramesOf(open)
    BY <1>1, <1>2, TopShown
  <1>7. /\ activeFrames' = ExitPops(FramesOf(open), Top.frame) /\ frameCallDepth' = frameCallDepth
        /\ emitted' = emitted + 1
        /\ frameExpressionDepth' = [frameExpressionDepth EXCEPT ![Top.frame] = IF @ = 0 THEN 0 ELSE @ - 1]
    BY <1>2, <1>6 DEF Emit
  <1>8. frameExpressionDepth' = [frameExpressionDepth EXCEPT ![Top.frame] = Len(es) - 1]
    BY <1>4, <1>5, <1>7
  <1>9. Extends(open) /\ Apart(open) /\ FramesOf(open) \in Seq(Frames) /\ FramesOf(open) # <<>> /\ Last(FramesOf(open)) = Top.frame
    BY <1>1, <1>2, OpenExtends
  <1>10. CASE ends
    <2>1. activeFrames' = Front(FramesOf(open))
      <3>1. frameExpressionDepth[Top.frame] <= 1 /\ frameCallDepth[Top.frame] = 0
        BY <1>5, <1>10
      <3>2. popFrameIfTop(FramesOf(open), Top.frame) = Front(FramesOf(open))
        BY <1>9, PopTop
      <3>. QED
        BY <1>7, <3>1, <3>2 DEF ExitPops
    <2>2. frameExpressionDepth' = [frameExpressionDepth EXCEPT ![Top.frame] = 0]
      BY <1>8, <1>10
    <2>3. frameCallDepth' = [frameCallDepth EXCEPT ![Top.frame] = 0]
      <3>1. frameCallDepth \in [Frames -> Nat] /\ frameCallDepth[Top.frame] = 0
        BY <1>1, <1>5, <1>10 DEF SessionTypeOK
      <3>. QED
        BY <1>7, <3>1
    <2>4. open' = Front(open)
      BY <1>2, <1>10
    <2>5. DepthInv'
      BY <1>1, <1>2, <1>7, <2>2, <2>3, <2>4, OneLess
    <2>6. Extends(open') /\ FramesOf(open') = Front(FramesOf(open))
      BY <1>1, <1>2, <2>4, FrontExtends
    <2>7. ShownInv'
      BY <2>1, <2>6 DEF ShownInv, FramesOf
    <2>8. /\ frames' \in Frames /\ captured' \subseteq Frames
          /\ frameExpressionDepth' \in [Frames -> Nat] /\ frameCallDepth' \in [Frames -> Nat]
      BY <1>1, <1>2, <1>3, <1>7, <2>2 DEF SessionTypeOK
    <2>. QED
      BY <1>1, <1>2, <1>3, <1>6, <1>9, <2>5, <2>6, <2>7, <2>8, AfterEmit DEF Kinds
  <1>11. CASE ~ends
    <2>1. activeFrames' = FramesOf(open)
      <3>1. ~(frameExpressionDepth[Top.frame] <= 1 /\ frameCallDepth[Top.frame] = 0)
        BY <1>4, <1>5, <1>11
      <3>. QED
        BY <1>7, <3>1 DEF ExitPops
    <2>2. open' = Inside(Front(es))
      BY <1>2, <1>11
    <2>3. frameExpressionDepth' = [frameExpressionDepth EXCEPT ![Top.frame] = Len(Front(es))]
      BY <1>4, <1>8
    <2>4. DepthInv'
      BY <1>1, <1>2, <1>4, <1>7, <2>2, <2>3, SameActivations
    <2>5. Extends(open') /\ FramesOf(open') = FramesOf(open)
      BY <1>1, <1>2, <1>4, <2>2, InsideExtends
    <2>6. ShownInv'
      BY <2>1, <2>5 DEF ShownInv, FramesOf
    <2>7. /\ frames' \in Frames /\ captured' \subseteq Frames
          /\ frameExpressionDepth' \in [Frames -> Nat] /\ frameCallDepth' \in [Frames -> Nat]
      <3>1. Len(Front(es)) \in Nat
        BY <1>4
      <3>. QED
        BY <1>1, <1>2, <1>3, <1>7, <2>3, <3>1 DEF SessionTypeOK
    <2>. QED
      BY <1>1, <1>2, <1>3, <1>6, <1>9, <2>4, <2>5, <2>6, <2>7, AfterEmit DEF Kinds
  <1>. QED
    BY <1>10, <1>11

\* The frame created next is under way nowhere.
LEMMA NextFrame ==
  ASSUME SessionTypeOK, DepthInv, frames < MaxFrames
  PROVE /\ frames + 1 \in Frames /\ frames + 1 > frames /\ frames + 1 \notin OpenFrames
        /\ frameExpressionDepth[frames + 1] = 0 /\ frameCallDepth[frames + 1] = 0
  <1>1. MaxFrames \in Nat /\ frames \in Nat
    BY SessionAssumption DEF SessionTypeOK, Frames
  <1>2. frames + 1 \in Frames
    BY <1>1 DEF SessionTypeOK, Frames
  <1>3. frames + 1 > frames /\ ~(frames + 1 <= frames)
    BY <1>1
  <1>4. frames + 1 \notin OpenFrames
    BY <1>3 DEF DepthInv, OpenFrames
  <1>. QED
    BY <1>2, <1>3, <1>4 DEF DepthInv

LEMMA CallStep ==
  ASSUME SessionInv, plain, Call
  PROVE SessionInv'
  <1>. DEFINE e == InnerAs("done")
              a == Activation("call", frames + 1)
  <1>1. SessionTypeOK /\ DepthInv /\ ShownInv /\ PlacedInv /\ RecordsInv /\ CursorInv
    BY DEF SessionInv
  <1>2. /\ Evaluating /\ open # <<>> /\ Top.exprs # <<>> /\ frames < MaxFrames /\ frames' = frames + 1
        /\ open' = Append(Inside(e), a) /\ Emit("call", frames + 1, open')
        /\ captured' = captured /\ phase' = phase /\ currentStepIndex' = currentStepIndex
    BY DEF Call, InExpression, Evaluating
  <1>3. e \in Seq(Expression) /\ Len(e) = Len(Top.exprs)
    BY <1>1, <1>2, InnerAsFacts
  <1>4. /\ frames + 1 \in Frames /\ frames + 1 > frames /\ frames + 1 \notin OpenFrames
        /\ frameExpressionDepth[frames + 1] = 0 /\ frameCallDepth[frames + 1] = 0
    BY <1>1, <1>2, NextFrame
  <1>5. /\ a \in Activity /\ a.frame = frames + 1 /\ a.id = emitted + 1 /\ a.exprs = <<>> /\ a.kind = "call"
    <2>1. emitted + 1 \in Nat /\ <<>> \in Seq(Expression)
      BY <1>1 DEF SessionTypeOK
    <2>. QED
      BY <1>4, <2>1 DEF Activity, Activation, Activations
  <1>. HIDE DEF e, a
  <1>6. /\ open' \in Seq(Activity) /\ open' # <<>> /\ Apart(open') /\ Extends(open')
        /\ FramesOf(open') \in Seq(Frames) /\ FramesOf(open') # <<>> /\ Last(FramesOf(open')) = frames + 1
        /\ Front(FramesOf(open')) = FramesOf(open)
        /\ \A i, j \in DOMAIN FramesOf(open') : FramesOf(open')[i] = FramesOf(open')[j] => i = j
    BY <1>1, <1>2, <1>3, <1>4, <1>5, AppendExtends
  <1>7. pushFrameIfMissing(activeFrames, frames + 1) = FramesOf(open')
    <2>1. activeFrames = Front(FramesOf(open'))
      BY <1>1, <1>2, <1>6 DEF ShownInv
    <2>. QED
      BY <1>6, <2>1, PushTop
  <1>8. /\ activeFrames' = FramesOf(open') /\ frameExpressionDepth' = frameExpressionDepth
        /\ emitted' = emitted + 1
        /\ frameCallDepth' = [frameCallDepth EXCEPT ![frames + 1] = @ + 1]
    BY <1>2, <1>7 DEF Emit
  <1>9. frameCallDepth' = [frameCallDepth EXCEPT ![a.frame] = IF a.kind = "call" THEN 1 ELSE 0]
    BY <1>4, <1>5, <1>8
  <1>10. a.frame <= frames'
    <2>1. frames + 1 \in Nat
      BY <1>4 DEF Frames
    <2>. QED
      BY <1>2, <1>5, <2>1
  <1>11. DepthInv'
    BY <1>1, <1>2, <1>3, <1>4, <1>5, <1>8, <1>9, <1>10, OneMore
  <1>12. ShownInv'
    BY <1>8 DEF ShownInv, FramesOf
  <1>13. /\ frames' \in Frames /\ captured' \subseteq Frames
         /\ frameExpressionDepth' \in [Frames -> Nat] /\ frameCallDepth' \in [Frames -> Nat]
    BY <1>1, <1>2, <1>4, <1>8 DEF SessionTypeOK
  <1>. QED
    BY <1>1, <1>2, <1>4, <1>6, <1>7, <1>11, <1>12, <1>13, AfterEmit DEF Kinds

LEMMA ReturnStep ==
  ASSUME SessionInv, plain, Return
  PROVE SessionInv'
  <1>1. SessionTypeOK /\ DepthInv /\ ShownInv /\ PlacedInv /\ RecordsInv /\ CursorInv
    BY DEF SessionInv
  <1>2. /\ Evaluating /\ open # <<>> /\ Top.exprs = <<>> /\ Top.kind = "call"
        /\ Emit("return", Top.frame, open) /\ open' = Front(open)
        /\ frames' = frames /\ captured' = captured /\ phase' = phase /\ currentStepIndex' = currentStepIndex
    BY DEF Return, Evaluating
  <1>3. pushFrameIfMissing(activeFrames, Top.frame) = FramesOf(open)
    BY <1>1, <1>2, TopShown
  <1>4. /\ Extends(open) /\ Apart(open) /\ FramesOf(open) \in Seq(Frames) /\ FramesOf(open) # <<>>
        /\ Last(FramesOf(open)) = Top.frame /\ Top.frame \in Frames
    BY <1>1, <1>2, OpenExtends
  <1>5. frameExpressionDepth[Top.frame] = 0 /\ frameCallDepth[Top.frame] = 1
    <2>1. <<>> \in Seq(Expression)
      OBVIOUS
    <2>2. Len(open) \in Nat /\ Len(open) # 0 /\ DOMAIN open = 1..Len(open) /\ Top = open[Len(open)]
      BY <1>1, <1>2, <2>1, InsideFacts
    <2>3. Len(open) \in DOMAIN open
      BY <2>2
    <2>. QED
      BY <1>1, <1>2, <2>2, <2>3 DEF DepthInv
  <1>6. /\ activeFrames' = popFrameIfTop(FramesOf(open), Top.frame)
        /\ frameExpressionDepth' = frameExpressionDepth /\ emitted' = emitted + 1
        /\ frameCallDepth' = [frameCallDepth EXCEPT ![Top.frame] = IF @ = 0 THEN 0 ELSE @ - 1]
    BY <1>2, <1>3 DEF Emit
  <1>7. activeFrames' = Front(FramesOf(open))
    BY <1>4, <1>6, PopTop
  <1>8. frameCallDepth' = [frameCallDepth EXCEPT ![Top.frame] = 0]
    BY <1>5, <1>6
  <1>9. frameExpressionDepth' = [frameExpressionDepth EXCEPT ![Top.frame] = 0]
    BY <1>1, <1>4, <1>5, <1>6 DEF SessionTypeOK
  <1>10. DepthInv'
    BY <1>1, <1>2, <1>6, <1>8, <1>9, OneLess
  <1>11. Extends(open') /\ FramesOf(open') = Front(FramesOf(open))
    BY <1>1, <1>2, FrontExtends
  <1>12. ShownInv'
    BY <1>7, <1>11 DEF ShownInv, FramesOf
  <1>13. /\ frames' \in Frames /\ captured' \subseteq Frames
         /\ frameExpressionDepth' \in [Frames -> Nat] /\ frameCallDepth' \in [Frames -> Nat]
    <2>1. frameCallDepth \in [Frames -> Nat]
      BY <1>1 DEF SessionTypeOK
    <2>2. frameCallDepth' \in [Frames -> Nat]
      BY <1>8, <2>1
    <2>. QED
      BY <1>1, <1>2, <1>6, <2>2 DEF SessionTypeOK
  <1>. QED
    BY <1>1, <1>2, <1>3, <1>4, <1>10, <1>11, <1>12, <1>13, AfterEmit DEF Kinds

LEMMA EffectStep ==
  ASSUME SessionInv, plain, Effect
  PROVE SessionInv'
  <1>. DEFINE e == InnerAs("done")
              a == Activation("choice", frames + 1)
  <1>1. SessionTypeOK /\ DepthInv /\ ShownInv /\ PlacedInv /\ RecordsInv /\ CursorInv
    BY DEF SessionInv
  <1>2. /\ Evaluating /\ open # <<>> /\ Top.exprs # <<>> /\ Emit("effect", Top.frame, open)
        /\ \/ open' = Inside(e) /\ frames' = frames
           \/ frames < MaxFrames /\ frames' = frames + 1 /\ open' = Append(Inside(e), a)
        /\ captured' = captured /\ phase' = phase /\ currentStepIndex' = currentStepIndex
    BY DEF Effect, InExpression, Evaluating
  <1>3. e \in Seq(Expression) /\ Len(e) = Len(Top.exprs)
    BY <1>1, <1>2, InnerAsFacts
  <1>4. pushFrameIfMissing(activeFrames, Top.frame) = FramesOf(open)
    BY <1>1, <1>2, TopShown
  <1>5. Extends(open) /\ Apart(open) /\ Top.frame \in Frames
    BY <1>1, <1>2, OpenExtends
  <1>6. /\ activeFrames' = FramesOf(open) /\ frameExpressionDepth' = frameExpressionDepth
        /\ frameCallDepth' = frameCallDepth /\ emitted' = emitted + 1
    BY <1>2, <1>4 DEF Emit
  <1>7. /\ captured' \subseteq Frames
        /\ frameExpressionDepth' \in [Frames -> Nat] /\ frameCallDepth' \in [Frames -> Nat]
    BY <1>1, <1>2, <1>6 DEF SessionTypeOK
  <1>8. CASE open' = Inside(e) /\ frames' = frames
    <2>. HIDE DEF e
    <2>1. frameExpressionDepth' = [frameExpressionDepth EXCEPT ![Top.frame] = Len(e)]
      <3>1. Len(open) \in DOMAIN open /\ Top = open[Len(open)]
        BY <1>1, <1>2, <1>3, InsideFacts
      <3>2. frameExpressionDepth[Top.frame] = Len(e)
        BY <1>1, <1>3, <3>1 DEF DepthInv
      <3>3. frameExpressionDepth \in [Frames -> Nat]
        BY <1>1 DEF SessionTypeOK
      <3>. QED
        BY <1>5, <1>6, <3>2, <3>3
    <2>2. DepthInv'
      BY <1>1, <1>2, <1>3, <1>6, <1>8, <2>1, SameActivations
    <2>3. Extends(open') /\ FramesOf(open') = FramesOf(open)
      BY <1>1, <1>2, <1>3, <1>8, InsideExtends
    <2>4. ShownInv'
      BY <1>6, <2>3 DEF ShownInv, FramesOf
    <2>5. frames' \in Frames
      BY <1>1, <1>8 DEF SessionTypeOK
    <2>. QED
      BY <1>1, <1>2, <1>4, <1>5, <1>7, <2>2, <2>3, <2>4, <2>5, AfterEmit DEF Kinds
  <1>9. CASE frames < MaxFrames /\ frames' = frames + 1 /\ open' = Append(Inside(e), a)
    <2>1. /\ frames + 1 \in Frames /\ frames + 1 > frames /\ frames + 1 \notin OpenFrames
          /\ frameCallDepth[frames + 1] = 0
      BY <1>1, <1>9, NextFrame
    <2>2. /\ a \in Activity /\ a.frame = frames + 1 /\ a.id = emitted + 1 /\ a.exprs = <<>> /\ a.kind = "choice"
      <3>1. emitted + 1 \in Nat /\ <<>> \in Seq(Expression)
        BY <1>1 DEF SessionTypeOK
      <3>. QED
        BY <2>1, <3>1 DEF Activity, Activation, Activations
    <2>. HIDE DEF e, a
    <2>3. /\ open' # <<>> /\ Extends(open') /\ Last(open') = a /\ Front(FramesOf(open')) = FramesOf(open)
      BY <1>1, <1>2, <1>3, <1>9, <2>1, <2>2, AppendExtends
    <2>4. frameCallDepth' = [frameCallDepth EXCEPT ![a.frame] = IF a.kind = "call" THEN 1 ELSE 0]
      <3>1. frameCallDepth \in [Frames -> Nat]
        BY <1>1 DEF SessionTypeOK
      <3>. QED
        BY <1>6, <2>1, <2>2, <3>1
    <2>5. a.frame <= frames'
      <3>1. frames + 1 \in Nat
        BY <2>1 DEF Frames
      <3>. QED
        BY <1>9, <2>2, <3>1
    <2>6. DepthInv'
      BY <1>1, <1>2, <1>3, <1>6, <1>9, <2>1, <2>2, <2>4, <2>5, OneMore
    <2>7. ShownInv'
      BY <1>6, <2>2, <2>3 DEF ShownInv, FramesOf, Top
    <2>8. frames' \in Frames
      BY <1>9, <2>1
    <2>. QED
      BY <1>1, <1>2, <1>4, <1>5, <1>7, <2>3, <2>6, <2>7, <2>8, AfterEmit DEF Kinds
  <1>. QED
    BY <1>2, <1>8, <1>9

LEMMA ApplyStep ==
  ASSUME SessionInv, plain', NEW f \in Frames, Apply(f)
  PROVE SessionInv'
  <1>. DEFINE a == Activation("apply", f)
  <1>1. plain /\ SessionTypeOK /\ DepthInv /\ ShownInv /\ PlacedInv /\ RecordsInv /\ CursorInv
    BY DEF SessionInv, Apply
  <1>2. /\ Evaluating /\ open # <<>> /\ Top.exprs # <<>> /\ f \in captured /\ f \notin OpenFrames
        /\ open' = Append(open, a) /\ frames' = frames /\ captured' = captured
        /\ UNCHANGED foldVars /\ phase' = phase /\ currentStepIndex' = currentStepIndex
    BY <1>1 DEF Apply, InExpression, Evaluating
  <1>3. /\ emitted' = emitted /\ ordinal' = ordinal /\ activeFrames' = activeFrames /\ steps' = steps
        /\ frameExpressionDepth' = frameExpressionDepth /\ frameCallDepth' = frameCallDepth
    BY <1>2 DEF foldVars
  <1>4. /\ a \in Activity /\ a.frame = f /\ a.id = emitted + 1 /\ a.exprs = <<>> /\ a.kind = "apply"
    <2>1. emitted + 1 \in Nat /\ <<>> \in Seq(Expression)
      BY <1>1 DEF SessionTypeOK
    <2>. QED
      BY <2>1 DEF Activity, Activation, Activations
  <1>. HIDE DEF a
  <1>5. Top.exprs \in Seq(Expression) /\ Inside(Top.exprs) = open
    <2>1. <<>> \in Seq(Expression)
      OBVIOUS
    <2>2. Top \in Activity /\ Top = open[Len(open)] /\ Len(open) \in Nat /\ Len(open) # 0 /\ DOMAIN open = 1..Len(open)
      BY <1>1, <1>2, <2>1, InsideFacts
    <2>3. Top.exprs \in Seq(Expression)
      BY <2>2, ActivityFields
    <2>4. [Top EXCEPT !.exprs = Top.exprs] = Top
      BY <2>2 DEF Activity
    <2>5. Inside(Top.exprs) = [open EXCEPT ![Len(open)] = Top]
      BY <2>2, <2>4 DEF Inside
    <2>6. open \in Seq(Activity)
      BY <1>1 DEF SessionTypeOK
    <2>7. [open EXCEPT ![Len(open)] = Top] = open
      BY <2>2, <2>6
    <2>. QED
      BY <2>3, <2>5, <2>7
  <1>6. /\ open' \in Seq(Activity) /\ open' # <<>> /\ Last(open') = a /\ Front(FramesOf(open')) = FramesOf(open)
        /\ \A i \in DOMAIN open' :
             \/ i \in DOMAIN open /\ open'[i].frame = open[i].frame /\ open'[i].id = open[i].id
             \/ open'[i].id = emitted + 1
    BY <1>1, <1>2, <1>4, <1>5, AppendExtends
  <1>7. frameCallDepth' = [frameCallDepth EXCEPT ![a.frame] = IF a.kind = "call" THEN 1 ELSE 0]
    <2>1. frameCallDepth \in [Frames -> Nat] /\ frameCallDepth[f] = 0
      BY <1>1, <1>2 DEF SessionTypeOK, DepthInv
    <2>. QED
      BY <1>3, <1>4, <2>1
  <1>8. DepthInv'
    <2>1. a.frame <= frames'
      BY <1>1, <1>2, <1>4 DEF DepthInv
    <2>. QED
      BY <1>1, <1>2, <1>3, <1>4, <1>5, <1>7, <2>1, OneMore
  <1>9. ShownInv'
    <2>1. activeFrames = FramesOf(open)
      BY <1>1, <1>2 DEF ShownInv
    <2>. QED
      BY <1>3, <1>4, <1>6, <2>1 DEF ShownInv, FramesOf, Top
  <1>10. PlacedInv'
    BY <1>1, <1>3, <1>6, PlacesKept
  <1>11. SessionTypeOK'
    BY <1>1, <1>2, <1>3, <1>6 DEF SessionTypeOK
  <1>12. RecordsInv' /\ CursorInv'
    BY <1>1, <1>2, <1>3 DEF RecordsInv, CursorInv, FramesOf
  <1>. QED
    BY <1>8, <1>9, <1>10, <1>11, <1>12 DEF SessionInv

-----------------------------------------------------------------------------
(* The session store.                                                      *)

\* A set of indices that is not empty has a least one.
LEMMA LeastIndex ==
  ASSUME NEW T, T \subseteq Nat, T # {}
  PROVE \E x \in T : \A y \in T : x <= y
  <1>. DEFINE R == OpToRel(<, Nat)
  <1>1. IsWellFoundedOn(R, Nat)
    BY NatLessThanWellFounded
  <1>2. \A x, y \in Nat : x < y => <<x, y>> \in R
    BY DEF OpToRel
  <1>. HIDE DEF R
  <1>3. PICK x \in T : \A y \in T : ~(<<y, x>> \in R)
    BY <1>1, WFMin
  <1>4. ASSUME NEW y \in T PROVE x <= y
    <2>1. x \in Nat /\ y \in Nat /\ ~(y < x)
      BY <1>2, <1>3
    <2>. QED
      BY <2>1
  <1>. QED
    BY <1>4

\* The search stops at the first shallower step, or at the end.
LEMMA NextIndex ==
  ASSUME SessionTypeOK, currentStepIndex \in DOMAIN steps, NEW j, j = findNextIndexOrCurrent
  PROVE /\ j \in DOMAIN steps /\ (Shallower(j) \/ j = Len(steps))
        /\ \A k \in (currentStepIndex + 1)..(j - 1) : ~Shallower(k)
  <1>. DEFINE found == {i \in (currentStepIndex + 1)..Len(steps) : Shallower(i)}
  <1>1. PICK n \in Nat : n = Len(steps) /\ DOMAIN steps = 1..n
    BY DEF SessionTypeOK
  <1>2. currentStepIndex \in Nat /\ 1 <= currentStepIndex /\ currentStepIndex <= n
    BY <1>1
  <1>3. j = IF found = {} THEN n ELSE CHOOSE i \in found : \A k \in found : i <= k
    BY <1>1 DEF findNextIndexOrCurrent
  <1>4. \A i : i \in found <=> i \in (currentStepIndex + 1)..n /\ Shallower(i)
    BY <1>1
  <1>. HIDE DEF found
  <1>5. CASE found = {}
    <2>1. j = n /\ n \in 1..n
      BY <1>2, <1>3, <1>5
    <2>2. ASSUME NEW k \in (currentStepIndex + 1)..(n - 1) PROVE ~Shallower(k)
      <3>1. k \in (currentStepIndex + 1)..n
        BY <1>2
      <3>. QED
        BY <1>4, <1>5, <3>1
    <2>. QED
      BY <1>1, <2>1, <2>2
  <1>6. CASE found # {}
    <2>1. found \subseteq Nat
      <3>1. \A i \in (currentStepIndex + 1)..n : i \in Nat
        BY <1>2
      <3>. QED
        BY <1>4, <3>1
    <2>2. \E i \in found : \A k \in found : i <= k
      BY <1>6, <2>1, LeastIndex
    <2>3. j \in found /\ \A k \in found : j <= k
      BY <1>3, <1>6, <2>2
    <2>4. Shallower(j) /\ j \in (currentStepIndex + 1)..n
      BY <1>4, <2>3
    <2>5. j \in 1..n
      BY <1>2, <2>4
    <2>6. ASSUME NEW k \in (currentStepIndex + 1)..(j - 1) PROVE ~Shallower(k)
      <3>1. k \in (currentStepIndex + 1)..n /\ ~(j <= k)
        BY <1>2, <2>4
      <3>. QED
        BY <1>4, <2>3, <3>1
    <2>. QED
      BY <1>1, <2>4, <2>5, <2>6
  <1>. QED
    BY <1>5, <1>6

\* Only the cursor, or where the session stands, has changed.
LEMMA StoreStep ==
  ASSUME SessionInv, plain, UNCHANGED <<evalVars, foldVars>>, CursorInv'
  PROVE SessionInv'
  <1>1. SessionTypeOK /\ DepthInv /\ ShownInv /\ PlacedInv /\ RecordsInv
    BY DEF SessionInv
  <1>2. /\ open' = open /\ frames' = frames /\ captured' = captured /\ emitted' = emitted /\ ordinal' = ordinal
        /\ activeFrames' = activeFrames /\ frameExpressionDepth' = frameExpressionDepth
        /\ frameCallDepth' = frameCallDepth /\ steps' = steps
    BY DEF evalVars, foldVars
  <1>3. SessionTypeOK' /\ PlacedInv' /\ RecordsInv'
    <2>1. SessionTypeOK'
      BY <1>1, <1>2 DEF SessionTypeOK
    <2>2. PlacedInv'
      BY <1>1, <1>2 DEF PlacedInv
    <2>3. RecordsInv'
      BY <1>1, <1>2 DEF RecordsInv, FramesOf
    <2>. QED
      BY <2>1, <2>2, <2>3
  <1>4. DepthInv'
    BY <1>1, <1>2 DEF DepthInv, OpenFrames
  <1>5. ShownInv'
    BY <1>1, <1>2 DEF ShownInv, Top, FramesOf
  <1>. QED
    BY <1>3, <1>4, <1>5 DEF SessionInv

LEMMA MoveStep ==
  ASSUME SessionInv, plain, NEW i, i \in DOMAIN steps, MoveTo(i)
  PROVE SessionInv'
  <1>1. UNCHANGED <<evalVars, foldVars>> /\ phase' = phase /\ phase = "loaded" /\ currentStepIndex' = i
    BY DEF MoveTo
  <1>2. CursorInv'
    BY <1>1 DEF SessionInv, CursorInv, foldVars
  <1>. QED
    BY <1>1, <1>2, StoreStep

\* Every step of a session keeps the invariant.
LEMMA SessionStep == SessionInv /\ [SessionNext]_sessionVars => SessionInv'
  <1>. SUFFICES ASSUME SessionInv, [SessionNext]_sessionVars, plain' PROVE SessionInv'
    BY DEF SessionInv
  <1>0. CASE ~plain
    BY <1>0 DEF SessionNext, EntryEffect, Enter, Exit, Call, Return, Effect, Apply, Throw, Fail, Load, StepInto,
                StepBack, StepOver, StepOut, Continue, JumpToStep, MoveTo, Dispose, evalVars, sessionVars
  <1>. SUFFICES ASSUME plain PROVE SessionInv'
    BY <1>0
  <1>1. SessionTypeOK /\ CursorInv
    BY DEF SessionInv
  <1>2. PICK n \in Nat : n = Len(steps) /\ DOMAIN steps = 1..n
    BY <1>1 DEF SessionTypeOK
  <1>3. CASE EntryEffect
    BY <1>3, EntryEffectStep
  <1>4. CASE Enter
    BY <1>4, EnterStep
  <1>5. CASE Exit
    BY <1>5, ExitStep
  <1>6. CASE Call
    BY <1>6, CallStep
  <1>7. CASE Return
    BY <1>7, ReturnStep
  <1>8. CASE Effect
    BY <1>8, EffectStep
  <1>9. ASSUME NEW f \in Frames, Apply(f) PROVE SessionInv'
    BY <1>9, ApplyStep
  <1>10. CASE Throw
    BY <1>10 DEF Throw
  <1>11. CASE Fail
    <2>1. CursorInv'
      BY <1>1, <1>11 DEF Fail, CursorInv, foldVars
    <2>. QED
      BY <1>11, <2>1, StoreStep DEF Fail
  <1>12. CASE Load
    <2>1. /\ phase = "evaluating" /\ UNCHANGED <<evalVars, foldVars>> /\ steps' = steps /\ ordinal' = ordinal
          /\ currentStepIndex' = currentStepIndex
          /\ (phase' = "failed" \/ (phase' = "loaded" /\ ordinal # 0))
      BY <1>12 DEF Load, foldVars
    <2>2. phase' = "loaded" => 1 \in DOMAIN steps
      <3>. SUFFICES ASSUME ordinal # 0 PROVE 1 \in DOMAIN steps
        BY <2>1
      <3>1. ordinal > 0
        BY <1>1 DEF SessionTypeOK
      <3>2. steps # <<>>
        BY <1>1, <3>1 DEF CursorInv
      <3>3. n # 0
        BY <1>1, <1>2, <3>2 DEF SessionTypeOK
      <3>. QED
        BY <1>2, <3>3
    <2>3. CursorInv'
      BY <1>1, <2>1, <2>2 DEF CursorInv
    <2>. QED
      BY <2>1, <2>3, StoreStep
  <1>. DEFINE Moves == \E i \in DOMAIN steps : MoveTo(i)
  <1>13. ASSUME phase = "loaded"
         PROVE currentStepIndex \in 1..n
    BY <1>1, <1>2, <1>13 DEF CursorInv
  <1>14. ASSUME phase = "loaded"
         PROVE IntoIndex \in DOMAIN steps /\ findNextIndexOrCurrent \in DOMAIN steps /\ Len(steps) \in DOMAIN steps
               /\ (IF currentStepIndex > 1 THEN currentStepIndex - 1 ELSE 1) \in DOMAIN steps
    <2>1. currentStepIndex \in 1..n
      BY <1>13, <1>14
    <2>2. findNextIndexOrCurrent \in DOMAIN steps
      BY <1>1, <1>2, <2>1, NextIndex
    <2>3. n \in 1..n /\ (IF currentStepIndex < n THEN currentStepIndex + 1 ELSE n) \in 1..n
      BY <2>1
    <2>4. (IF currentStepIndex > 1 THEN currentStepIndex - 1 ELSE 1) \in 1..n
      BY <2>1
    <2>. QED
      BY <1>2, <2>2, <2>3, <2>4 DEF IntoIndex
  <1>15. CASE StepInto
    BY <1>14, <1>15, MoveStep DEF StepInto, MoveTo
  <1>16. CASE StepBack
    BY <1>14, <1>16, MoveStep DEF StepBack, MoveTo
  <1>17. CASE StepOver
    BY <1>14, <1>17, MoveStep DEF StepOver, MoveTo
  <1>18. CASE StepOut
    BY <1>14, <1>18, MoveStep DEF StepOut, MoveTo
  <1>19. CASE Continue
    BY <1>14, <1>19, MoveStep DEF Continue, MoveTo
  <1>20. CASE JumpToStep
    BY <1>20, MoveStep DEF JumpToStep
  <1>21. CASE Dispose
    <2>1. CursorInv'
      BY <1>1, <1>21 DEF Dispose, CursorInv, foldVars
    <2>. QED
      BY <1>21, <2>1, StoreStep DEF Dispose
  <1>22. CASE UNCHANGED sessionVars
    <2>1. UNCHANGED <<evalVars, foldVars>> /\ phase' = phase /\ currentStepIndex' = currentStepIndex
      BY <1>22 DEF sessionVars
    <2>2. CursorInv'
      BY <1>1, <2>1 DEF CursorInv, foldVars
    <2>. QED
      BY <2>1, <2>2, StoreStep
  <1>. QED
    BY <1>3, <1>4, <1>5, <1>6, <1>7, <1>8, <1>9, <1>10, <1>11, <1>12, <1>15, <1>16, <1>17, <1>18, <1>19, <1>20,
       <1>21, <1>22 DEF SessionNext

\* The stack the loader rebuilds from the steps alone is, at every retained
\* step, the evaluator's own, as long as no frame was re-entered above itself
\* and no exception was caught.
THEOREM StacksAreControl == SessionSpec => []StackIsControl
  <1>1. SessionInv => StackIsControl
    BY DEF SessionInv, RecordsInv, StackIsControl
  <1>. QED
    BY <1>1, InitSession, SessionStep, PTL DEF SessionSpec

\* A retained step shows as many frames as it has activations.
LEMMA ControlLengths ==
  ASSUME SessionTypeOK, RecordsInv, NEW s \in DOMAIN steps
  PROVE /\ Len(steps[s].stackFrames) = Len(steps[s].control) /\ Len(steps[s].control) \in Nat
        /\ Len(steps[s].control) # 0 /\ DOMAIN steps[s].control = 1..Len(steps[s].control)
  <1>1. steps[s].control \in Seq(Identity) /\ steps[s].stackFrames \in Seq(Frames)
    BY RecordedIdentities
  <1>2. steps[s].control # <<>> /\ steps[s].stackFrames = FramesOf(steps[s].control)
    BY DEF RecordsInv
  <1>3. DOMAIN steps[s].stackFrames = DOMAIN steps[s].control
    BY <1>2 DEF FramesOf
  <1>4. /\ Len(steps[s].control) \in Nat /\ Len(steps[s].stackFrames) \in Nat
        /\ DOMAIN steps[s].control = 1..Len(steps[s].control)
        /\ DOMAIN steps[s].stackFrames = 1..Len(steps[s].stackFrames)
    BY <1>1
  <1>5. Len(steps[s].control) # 0
    BY <1>1, <1>2
  <1>6. PICK m \in Nat, n \in Nat : m = Len(steps[s].control) /\ n = Len(steps[s].stackFrames)
    BY <1>4
  <1>7. m = n
    <2>1. 1..m = 1..n
      BY <1>3, <1>4, <1>6
    <2>. QED
      BY <2>1
  <1>. QED
    BY <1>4, <1>5, <1>6, <1>7

\* Stepping out, or over a call, leaves the callee, or stops at the last step,
\* and passes over no retained step of a caller.
THEOREM StepsSkipTheCallee == SessionSpec => SkipsExactlyTheCallee
  <1>1. ASSUME SessionInv, plain, StepOut \/ (StepOver /\ Current.phase = "call")
        PROVE ReturnsToCaller(currentStepIndex, currentStepIndex')
    <2>. DEFINE c == currentStepIndex
                j == currentStepIndex'
    <2>1. SessionTypeOK /\ RecordsInv /\ PlacedInv /\ CursorInv
      BY <1>1 DEF SessionInv
    <2>2. c \in DOMAIN steps /\ j = findNextIndexOrCurrent /\ steps' = steps
      BY <1>1, <2>1 DEF StepOut, StepOver, MoveTo, CursorInv, foldVars
    <2>3. /\ j \in DOMAIN steps /\ (Shallower(j) \/ j = Len(steps))
          /\ \A k \in (c + 1)..(j - 1) : ~Shallower(k)
      BY <2>1, <2>2, NextIndex
    <2>4. PICK d \in Nat : d = Len(steps[c].control) /\ d # 0
      BY <2>1, <2>2, ControlLengths
    <2>5. /\ DOMAIN steps[c].control = 1..d /\ ActivationAt(c) = steps[c].control[d]
          /\ Len(Current.stackFrames) = d /\ d \in 1..d
      BY <2>1, <2>2, <2>4, ControlLengths DEF ActivationAt, Last, Current
    <2>6. ASSUME NEW k \in DOMAIN steps, Shallower(k)
          PROVE ~UnderWay(ActivationAt(c), k)
      <3>. SUFFICES ASSUME NEW q \in 1..Len(steps[k].control), steps[k].control[q] = ActivationAt(c) PROVE FALSE
        BY <2>6, <2>1, ControlLengths DEF UnderWay, Contains
      <3>1. /\ Len(steps[k].control) \in Nat /\ DOMAIN steps[k].control = 1..Len(steps[k].control)
            /\ Len(steps[k].stackFrames) = Len(steps[k].control)
        BY <2>1, <2>6, ControlLengths
      <3>2. steps[k].control[q] = steps[c].control[d] /\ q \in DOMAIN steps[k].control /\ d \in DOMAIN steps[c].control
        BY <2>5, <3>1
      <3>3. q = d
        BY <2>1, <2>2, <3>2 DEF PlacedInv
      <3>4. Len(steps[k].control) < d
        BY <2>5, <2>6, <3>1 DEF Shallower
      <3>. QED
        BY <3>1, <3>3, <3>4
    <2>7. ASSUME NEW k \in DOMAIN steps, ~Shallower(k)
          PROVE ~Contains(Callers(c), ActivationAt(k))
      <3>1. PICK m \in Nat : m = Len(steps[k].control) /\ m # 0
        BY <2>1, <2>7, ControlLengths
      <3>2. /\ DOMAIN steps[k].control = 1..m /\ ActivationAt(k) = steps[k].control[m]
            /\ Len(steps[k].stackFrames) = m /\ m \in 1..m
        BY <2>1, <3>1, ControlLengths DEF ActivationAt, Last
      <3>3. ~(m < d)
        BY <2>5, <2>7, <3>2 DEF Shallower
      <3>4. Len(Callers(c)) = d - 1 /\ \A q \in 1..(d - 1) : Callers(c)[q] = steps[c].control[q]
        <4>1. steps[c].control \in Seq(Identity) /\ steps[c].control # <<>>
          BY <2>1, <2>2, RecordedIdentities DEF RecordsInv
        <4>. QED
          BY <2>4, <4>1, FrontFacts DEF Callers
      <3>. SUFFICES ASSUME NEW q \in 1..(d - 1), steps[c].control[q] = steps[k].control[m] PROVE FALSE
        BY <3>2, <3>4 DEF Contains
      <3>5. q \in DOMAIN steps[c].control /\ m \in DOMAIN steps[k].control /\ q < d
        BY <2>5, <3>2
      <3>6. q = m
        BY <2>1, <2>2, <3>5 DEF PlacedInv
      <3>. QED
        BY <3>3, <3>5, <3>6
    <2>8. \A k \in (c + 1)..(j - 1) : k \in DOMAIN steps
      <3>1. PICK n \in Nat : DOMAIN steps = 1..n
        <4>1. Len(steps) \in Nat /\ DOMAIN steps = 1..Len(steps)
          BY <2>1 DEF SessionTypeOK
        <4>. QED
          BY <4>1
      <3>2. PICK x \in 1..n, y \in 1..n : x = c /\ y = j
        BY <2>2, <2>3, <3>1
      <3>3. ASSUME NEW k \in (x + 1)..(y - 1) PROVE k \in 1..n
        <4>1. x \in Nat /\ y \in Nat /\ 1 <= x /\ y <= n
          OBVIOUS
        <4>. QED
          BY <4>1
      <3>. QED
        BY <3>1, <3>2, <3>3
    <2>. QED
      BY <2>3, <2>6, <2>7, <2>8 DEF ReturnsToCaller
  <1>2. SessionInv => [plain /\ (StepOut \/ (StepOver /\ Current.phase = "call"))
                         => ReturnsToCaller(currentStepIndex, currentStepIndex')]_sessionVars
    BY <1>1
  <1>. QED
    BY <1>2, InitSession, SessionStep, PTL DEF SessionSpec, SkipsExactlyTheCallee
=============================================================================
