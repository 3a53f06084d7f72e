------------------------------- MODULE MCDrift -------------------------------
(***************************************************************************)
(* A small instance of Drift for TLC; Drift.cfg gives the constants.       *)
(***************************************************************************)
EXTENDS Drift
=============================================================================
