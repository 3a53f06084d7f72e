----------------------------- MODULE MCNodeClass -----------------------------
(***************************************************************************)
(* Small instances of NodeClass for TLC.                                   *)
(***************************************************************************)
EXTENDS NodeClass

TwoKinds == <<"ImageReady", "NetworkReady">>
=============================================================================
