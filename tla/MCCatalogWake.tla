---------------------------- MODULE MCCatalogWake ----------------------------
(***************************************************************************)
(* A small instance of CatalogWake for TLC; CatalogWake.cfg gives the      *)
(* constants.                                                              *)
(***************************************************************************)
EXTENDS CatalogWake
=============================================================================
