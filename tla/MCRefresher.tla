----------------------------- MODULE MCRefresher -----------------------------
(***************************************************************************)
(* Refresher with the symmetries TLC may use in the runs that check no     *)
(* liveness: requests and providers are interchangeable.                   *)
(***************************************************************************)
EXTENDS Refresher, TLC

Symmetry == Permutations(Requests) \cup Permutations(Providers)
==============================================================================
