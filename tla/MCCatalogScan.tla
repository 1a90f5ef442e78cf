--------------------------- MODULE MCCatalogScan ---------------------------
(* Instances of CatalogScan: one root, one file that changes twice. *)
EXTENDS CatalogScan
=============================================================================
