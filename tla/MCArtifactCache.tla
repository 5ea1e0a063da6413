--------------------------- MODULE MCArtifactCache ---------------------------
(***************************************************************************)
(* ArtifactCache with the symmetries TLC may use: calls, versions and      *)
(* package contents are interchangeable, and every property checked is a   *)
(* safety property that quantifies over them alike.                        *)
(***************************************************************************)
EXTENDS ArtifactCache, TLC

Symmetry == Permutations(Requests) \cup Permutations(Versions) \cup Permutations(Builds)
==============================================================================
