---------------------------- MODULE MCRequestPath ----------------------------
(***************************************************************************)
(* Model-checking instance of RequestPath: one request asks anything, the  *)
(* other one only what leads to Mihomo, where the two meet.                *)
(***************************************************************************)
EXTENDS RequestPath

CONSTANTS anyone, viaProxy

MCQuery == {anyone, viaProxy}

MCAsks == (* The unit of time is 400 ms. *)
    [q \in MCQuery |-> IF q = anyone THEN Question
                       ELSE [listener : {"main"}, qtype : {"A"}, name : {"proxy", "unknown"}]]

MCDelays == [l \in 1 .. 2 |-> {2 * l}]
=============================================================================
