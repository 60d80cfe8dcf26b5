---------------------------- MODULE MCRequestLog -----------------------------
(***************************************************************************)
(* Model-checking instance of RequestLog: its constants are in the         *)
(* configuration.                                                          *)
(***************************************************************************)
EXTENDS RequestLog
=============================================================================
