------------------------------- MODULE Catalog -------------------------------
(***************************************************************************)
(* What storing a registry's response promises: it is merged into the      *)
(* catalogue as a whole and at once.  A provider version is identified by  *)
(* the id of its row; the id of a row never changes or passes to another   *)
(* row, and no row is ever deleted.                                        *)
(*                                                                         *)
(* CatalogStore implements this module; Refresher and Mirror take it as a  *)
(* step.                                                                   *)
(***************************************************************************)
CONSTANTS Providers,    \* hostname, namespace and type
          Tuples,       \* version, os and arch
          Responses,    \* the sets of tuples a registry may list
          Ids,
          NULL

VARIABLES known,        \* providers that are in the catalogue
          rowId         \* the id of each provider's tuple, or NULL

catalogVars == <<known, rowId>>

Rows == {x \in Providers \X Tuples : rowId[x[1]][x[2]] # NULL}

Id(x) == rowId[x[1]][x[2]]

Init == /\ known = {}
        /\ rowId = [p \in Providers |-> [t \in Tuples |-> NULL]]

\* Every listed tuple of p that has no row gets one, with an id of its own.
Merge(p, listed) ==
  LET new  == {t \in listed : rowId[p][t] = NULL}
      free == Ids \ {Id(x) : x \in Rows}
  IN
  /\ known' = known \cup {p}
  /\ \E ids \in [new -> free] :
       /\ \A t, u \in new : ids[t] = ids[u] => t = u
       /\ rowId' = [rowId EXCEPT ![p] = [t \in Tuples |-> IF t \in new THEN ids[t] ELSE @[t]]]

Next == \E p \in Providers, listed \in Responses : Merge(p, listed)

Spec == Init /\ [][Next]_catalogVars
==============================================================================
