----------------------------- MODULE DeltaFold -----------------------------
(***************************************************************************)
(* The loop of tryDeltaRefreshAsync over the entries of a delta window:    *)
(* one step per iteration, on every base and every bounded sequence of     *)
(* entries, those no ledger would send included.                           *)
(***************************************************************************)
EXTENDS DeltaPatch, Integers, Sequences

CONSTANTS
  Ids,       (* contract ids                                               *)
  MaxLength  (* bound: entries in a window                                 *)

ASSUME FoldAssumption == MaxLength \in Nat

VARIABLES
  baseIds,  (* contract ids of the base rows                               *)
  entries,  (* the window's entries, in stream order                       *)
  i,        (* entries folded so far                                       *)
  adds,     (* ids created in the window and not archived since            *)
  removes,  (* ids of the base archived in the window                      *)
  verdict,  (* "folding", "patched" or "refused" (return undefined)        *)
  live      (* history: the rows after a plain replay of the entries       *)

foldVars == <<baseIds, entries, i, adds, removes, verdict, live>>

Entry == [kind : {"created", "archived"}, id : Ids]

Windows == UNION {[1..n -> Entry] : n \in 0..MaxLength}

FoldInit ==
  /\ baseIds \in SUBSET Ids
  /\ entries \in Windows
  /\ i = 0
  /\ adds = {}
  /\ removes = {}
  /\ verdict = "folding"
  /\ live = baseIds

\* The entry the loop looks at.
Current == entries[i + 1]

More == verdict = "folding" /\ i < Len(entries)

\* The entry is folded in and the replay follows it.
Advance ==
  /\ i' = i + 1
  /\ live' = IF Current.kind = "created" THEN live \cup {Current.id} ELSE live \ {Current.id}
  /\ UNCHANGED <<baseIds, entries, verdict>>

\* Slip: a created row the base already has is folded in.
FoldCreatedTwice ==
  /\ More
  /\ Current.kind = "created"
  /\ Current.id \notin adds
  /\ adds' = adds \cup {Current.id}
  /\ Advance
  /\ UNCHANGED removes

FoldCreated ==
  /\ More
  /\ Current.kind = "created"
  /\ Current.id \notin baseIds \cup adds
  /\ adds' = adds \cup {Current.id}
  /\ Advance
  /\ UNCHANGED removes

\* Slip: the archived addition is only recorded, not deleted from adds.
FoldArchivedAddKept ==
  /\ More
  /\ Current.kind = "archived"
  /\ Current.id \in adds
  /\ removes' = removes \cup {Current.id}
  /\ Advance
  /\ UNCHANGED adds

FoldArchivedAdd ==
  /\ More
  /\ Current.kind = "archived"
  /\ Current.id \in adds
  /\ adds' = adds \ {Current.id}
  /\ Advance
  /\ UNCHANGED removes

FoldArchivedBase ==
  /\ More
  /\ Current.kind = "archived"
  /\ Current.id \in baseIds \ adds
  /\ removes' = removes \cup {Current.id}
  /\ Advance
  /\ UNCHANGED adds

Refuse ==
  /\ More
  /\ IF Current.kind = "created"
       THEN Current.id \in baseIds \cup adds
       ELSE Current.id \notin baseIds \cup adds
  /\ verdict' = "refused"
  /\ UNCHANGED <<baseIds, entries, i, adds, removes, live>>

FinishFold ==
  /\ verdict = "folding"
  /\ i = Len(entries)
  /\ verdict' = "patched"
  /\ UNCHANGED <<baseIds, entries, i, adds, removes, live>>

\* Ids of the rows written: the filtered base rows and the surviving adds.
Rows == (baseIds \ removes) \cup adds

FoldNext ==
  FoldCreated \/ FoldArchivedAdd \/ FoldArchivedBase \/ Refuse \/ FinishFold

FoldSpec == FoldInit /\ [][FoldNext]_foldVars

-----------------------------------------------------------------------------

(* Every variable of the loop has the type the code gives it.              *)
FoldTypeOK ==
  /\ baseIds \subseteq Ids
  /\ entries \in Seq(Entry)
  /\ i \in 0..Len(entries)
  /\ adds \subseteq Ids
  /\ removes \subseteq Ids
  /\ verdict \in {"folding", "patched", "refused"}
  /\ live \subseteq Ids

(* Whatever the participant sent, rows the fold accepts are those a plain  *)
(* replay of the entries over the base gives, at every point of the loop:  *)
(* an inconsistent window is refused, never patched into wrong rows.       *)
PatchIsReplay == verdict # "refused" => Rows = live

\* Positions at which the window has the entry (kind, id).
At(kind, id) == {n \in DOMAIN entries : entries[n] = [kind |-> kind, id |-> id]}

\* A window a ledger can produce: contract ids are never reused, and a
\* contract is archived once, after its creation.
LedgerLike ==
  \A id \in Ids :
    /\ \A m, n \in At("created", id) : m = n
    /\ \A m, n \in At("archived", id) : m = n
    /\ \A m \in At("created", id), n \in At("archived", id) : m < n

Named(kind) == {id \in Ids : At(kind, id) # {}}

(* On the windows a ledger can produce, the loop refuses exactly when the  *)
(* set formulation says so and otherwise writes the set formulation's rows *)
(* (what GrpcContractCache's model of the refresh relies on).              *)
FoldMatchesSets ==
  LedgerLike /\ verdict # "folding" =>
    IF Inconsistent(baseIds, Named("created"), Named("archived"))
      THEN verdict = "refused"
      ELSE /\ verdict = "patched"
           /\ Rows = Patched(baseIds, Named("created"), Named("archived"))
=============================================================================
