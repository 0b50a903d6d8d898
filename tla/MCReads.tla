------------------------------ MODULE MCReads ------------------------------
(***************************************************************************)
(* Instance of what is made of the participant's streams: the history      *)
(* reader, the fold of a delta window, and the traversal of the active     *)
(* contracts.  They share no variable, so each is explored while the       *)
(* others rest in a fixed state.                                           *)
(***************************************************************************)
EXTENDS HistoryReader, DeltaFold, ActiveContractsTraversal, TLC

VARIABLE consumer  (* the one that runs *)

\* Contract a lives on, b is archived, d created; the second set exceeds a
\* limit of three contracts on its last page, the third a limit of three
\* pages; the fourth leaves room for a page to be read twice.
FourSnapshots ==
  << <<{"a"}, {"b"}, {"c"}>>,
     <<{"a", "d"}, {"b", "c"}>>,
     <<{"a"}, {}, {"d"}, {"c"}>>,
     <<{"a"}, {"d"}>> >>

\* Contracts of the history are interchangeable, and so are concurrent reads.
ReadSymmetry ==
  Permutations(Contracts) \cup Permutations(Readers) \cup Permutations(Traversals)

FoldRests == baseIds = {} /\ entries = <<>> /\ FoldInit
TraversalRests == asked = [t \in Traversals |-> NoOffset] /\ TraversalInit

ReadsInit ==
  /\ ReaderInit
  /\ \/ consumer = "history" /\ FoldRests /\ TraversalRests
     \/ consumer = "fold" /\ FoldInit /\ TraversalRests
     \/ consumer = "traversal" /\ FoldRests /\ TraversalInit

readsVars == <<consumer, historyVars, foldVars, traversalVars>>

ReadsNext ==
  /\ UNCHANGED consumer
  /\ \/ consumer = "history" /\ ReaderNext /\ UNCHANGED <<foldVars, traversalVars>>
     \/ consumer = "fold" /\ FoldNext /\ UNCHANGED <<historyVars, traversalVars>>
     \/ consumer = "traversal" /\ TraversalNext /\ UNCHANGED <<historyVars, foldVars>>

ReadsSpec == ReadsInit /\ [][ReadsNext]_readsVars
=============================================================================
