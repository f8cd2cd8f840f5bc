--------------------------- MODULE MCBacktestQueue ---------------------------
(* Small instances of BacktestQueue for TLC. *)
EXTENDS BacktestQueue, TLC

CONSTANTS u1, u2, r1, r2, w1, w2

\* A single run.
OneRun == r1 :> u1
\* Two runs of one owner.
OneOwner == r1 :> u1 @@ r2 :> u1
\* One run of each of two owners.
TwoOwners == r1 :> u1 @@ r2 :> u2

WorkerSymmetry == Permutations(Workers)
=============================================================================
