------------------------------ MODULE MCDialCache ------------------------------
(***************************************************************************)
(* Model-checking instances of DialCache.                                  *)
(***************************************************************************)
EXTENDS DialCache
=============================================================================
