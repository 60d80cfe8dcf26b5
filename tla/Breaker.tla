------------------------------- MODULE Breaker -------------------------------
(***************************************************************************)
(* What a circuit breaker with exponential backoff promises its callers,   *)
(* whatever the requests running through it do: the abstract specification *)
(* that the AUTO_FORWARD circuit (module Circuit) and every DoH provider   *)
(* of the bridge (module DoHBridge) implement.                             *)
(*                                                                         *)
(* The breaker is closed, open with a remaining wait, or half-open.  It    *)
(* opens at level 1, becomes half-open only after the whole wait, and a    *)
(* failed probe opens it again one level higher with a new wait drawn from *)
(* the delays of that level.  Any success closes it.                       *)
(***************************************************************************)
EXTENDS Integers

CONSTANTS
    LevelCap,   \* levels from this one on have the same delays
    Delays      \* Delays[l] is the set of waits of level l

VARIABLES
    state,      \* "closed", "open" or "halfopen"
    level,      \* 0 while closed, else the current backoff level
    wait        \* time units until a probe may start

vars == <<state, level, wait>>

Init == state = "closed" /\ level = 0 /\ wait = 0

(* Enough requests failed: stop sending. *)
Trip == /\ state = "closed"
        /\ state' = "open"
        /\ level' = 1
        /\ wait' \in Delays[1]

(* The wait is over: one request goes through. *)
Probe == /\ state = "open"
         /\ wait = 0
         /\ state' = "halfopen"
         /\ UNCHANGED <<level, wait>>

(* The probe failed: wait longer. *)
Reopen == /\ state = "halfopen"
          /\ state' = "open"
          /\ level' = IF level < LevelCap THEN level + 1 ELSE level
          /\ wait' \in Delays[level']

(* A request succeeded. *)
Reset == /\ state # "closed"
         /\ state' = "closed"
         /\ level' = 0
         /\ wait' = 0

Elapse == /\ wait > 0
          /\ wait' = wait - 1
          /\ UNCHANGED <<state, level>>

Next == Trip \/ Probe \/ Reopen \/ Reset \/ Elapse

Spec == Init /\ [][Next]_vars
=============================================================================
