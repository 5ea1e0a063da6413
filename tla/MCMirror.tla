------------------------------- MODULE MCMirror -------------------------------
(***************************************************************************)
(* Mirror with two platforms of one version and one of another; clients,   *)
(* row ids and keys are interchangeable.                                   *)
(***************************************************************************)
EXTENDS Mirror, TLC

MCWords == {"linux", "arm", "64", "_"}

MCTuples == {[version |-> "1", os |-> <<"linux">>, arch |-> <<"arm">>],
             [version |-> "1", os |-> <<"linux">>, arch |-> <<"arm", "_", "64">>],
             [version |-> "2", os |-> <<"linux">>, arch |-> <<"arm">>]}

Symmetry == Permutations(Clients) \cup Permutations(Ids) \cup Permutations(Keys)
==============================================================================
