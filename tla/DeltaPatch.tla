----------------------------- MODULE DeltaPatch -----------------------------
(***************************************************************************)
(* What folding a window of created and archived entries into a base       *)
(* snapshot comes to, as sets: new and gone are the contract ids the       *)
(* window creates and archives, ids those of the base rows.  The loop      *)
(* itself is in DeltaFold, where it is shown to agree with these sets on   *)
(* every window a ledger can produce.                                      *)
(***************************************************************************)

\* The fold hits a created row the base already has, or an archived one
\* that neither the base nor the window knows.
Inconsistent(ids, new, gone) ==
  \/ new \cap ids # {}
  \/ ~(gone \subseteq ids \cup new)

\* Slip: the archived base rows are not filtered out.
PatchedKeepsArchived(ids, new, gone) == ids \cup (new \ gone)

\* Slip: a row created and archived in the window survives.
PatchedAddsLast(ids, new, gone) == (ids \ gone) \cup new

\* Rows of the base that were not archived, and the surviving additions.
Patched(ids, new, gone) == (ids \cup new) \ gone
=============================================================================
