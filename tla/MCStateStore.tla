---------------------------- MODULE MCStateStore ----------------------------
(***************************************************************************)
(* Instances of StateStore for TLC.                                        *)
(***************************************************************************)
EXTENDS StateStore, TLC

CONSTANTS c1

\* Every history session of an instance was derived from credential c1.
MCHistoryCred == [s \in HistorySessions |-> c1]

\* Processes and owner tokens are interchangeable.
Symmetric == Permutations(Procs) \cup Permutations(Tokens)
=============================================================================
