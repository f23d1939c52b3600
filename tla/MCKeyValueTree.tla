--------------------------- MODULE MCKeyValueTree ---------------------------
(***************************************************************************)
(* KeyValueTree with keys that TLC may permute: nothing in the code depends *)
(* on what a key is.                                                        *)
(***************************************************************************)
EXTENDS KeyValueTree

Symmetry == Permutations(Keys)
=============================================================================
