------------------------------ MODULE MCDoHBridge ------------------------------
(***************************************************************************)
(* Model-checking instances of DoHBridge.                                  *)
(***************************************************************************)
EXTENDS DoHBridge
=============================================================================
