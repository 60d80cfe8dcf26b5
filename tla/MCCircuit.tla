------------------------------ MODULE MCCircuit ------------------------------
(***************************************************************************)
(* Model-checking instances of Circuit: their constants are in the         *)
(* configurations.                                                         *)
(***************************************************************************)
EXTENDS Circuit
=============================================================================
