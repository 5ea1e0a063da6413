--------------------------- MODULE MCCatalogStore ----------------------------
(***************************************************************************)
(* CatalogStore with the responses that matter to two writers: none, both  *)
(* tuples in either order, and one of them twice.                          *)
(***************************************************************************)
EXTENDS CatalogStore

CONSTANTS a, b

MCResponses == {<<>>, <<a, b>>, <<b, a>>, <<a, a>>}
==============================================================================
