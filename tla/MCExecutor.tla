----------------------------- MODULE MCExecutor -----------------------------
(***************************************************************************)
(* Small instances of Executor for TLC.  The requests that submit results  *)
(* are interchangeable; the liveness runs use no symmetry.                 *)
(***************************************************************************)
EXTENDS Executor, TLC

CONSTANTS c1  \* the one credential

MCHistoryCred == [s \in HistorySessions |-> c1]

Symmetric == Permutations(Requests \ Starters)
=============================================================================
