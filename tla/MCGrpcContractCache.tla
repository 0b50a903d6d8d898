------------------------ MODULE MCGrpcContractCache ------------------------
(***************************************************************************)
(* Instances of GrpcContractCache for TLC.                                 *)
(***************************************************************************)
EXTENDS GrpcContractCache, TLC

CONSTANT k1

\* All callers use one GrpcContractCache.
OneCache == [p \in Procs |-> k1]

\* Every caller uses a GrpcContractCache of its own, named after it.
CacheEach == [p \in Procs |-> p]

\* Contracts are interchangeable, and so are callers.
ContractSymmetry == Permutations(Contracts)
ProcSymmetry == Permutations(Procs)
CallerSymmetry == ContractSymmetry \cup ProcSymmetry
=============================================================================
