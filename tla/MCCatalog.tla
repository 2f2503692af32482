------------------------------ MODULE MCCatalog -------------------------------
(* Instances of Catalog: generations by model value, one of them refused.  *)
EXTENDS Catalog
CONSTANTS g1, g2, g3
MCGenerations == {g1, g2, g3}
MCBroken      == {}
MCUnloadable  == {g3}
=============================================================================
