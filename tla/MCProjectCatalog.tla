-------------------------- MODULE MCProjectCatalog --------------------------
(***************************************************************************)
(* ProjectCatalog for TLC. Request ids, names and staging names are        *)
(* interchangeable: the specification treats all of a kind alike.          *)
(***************************************************************************)
EXTENDS ProjectCatalog, TLC

Symmetry ==
  Permutations(Request) \cup Permutations(Name) \cup Permutations(Staging)
=============================================================================
