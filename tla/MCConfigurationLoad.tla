------------------------ MODULE MCConfigurationLoad ------------------------
(***************************************************************************)
(* ConfigurationLoad with keys that TLC may permute.                       *)
(***************************************************************************)
EXTENDS ConfigurationLoad

Symmetry == Permutations(Keys)
=============================================================================
