------------------------------- MODULE MCFleet -------------------------------
(***************************************************************************)
(* Small instances of Fleet for TLC; the .cfg files give the constants.    *)
(***************************************************************************)
EXTENDS Fleet
=============================================================================
