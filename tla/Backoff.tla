------------------------------- MODULE Backoff -------------------------------
(***************************************************************************)
(* The retry delays of the two circuit breakers of VelaDNS, as pure        *)
(* operators.  Durations are natural numbers of some time unit.            *)
(*                                                                         *)
(*   internal/circuitplugin/circuit.go  exponentialDelay, jitterDelay      *)
(*   cmd/veladns/dohbridge.go           jitterDoHBackoff                   *)
(*                                                                         *)
(* A random number is a nondeterministic choice, so a jittered delay is    *)
(* the set of the delays the code can return.  Nothing here is RECURSIVE:  *)
(* the doubling loop is a function, so that modules with theorems can      *)
(* extend this one.                                                        *)
(***************************************************************************)
EXTENDS Integers

Smaller(a, b) == IF a <= b THEN a ELSE b

(* Mutant: the doubled delay is returned without the cap. *)
exponentialDelayUncapped(initial, maximum, step) ==
    LET delay[i \in Nat] ==
            IF i <= 1 THEN initial
            ELSE IF delay[i - 1] < maximum THEN 2 * delay[i - 1] ELSE delay[i - 1]
    IN  delay[step]

(* The doubling loop stops as soon as the delay reaches the maximum; the   *)
(* value after "step" failures is the loop's value at iteration step.      *)
exponentialDelay(initial, maximum, step) ==
    LET delay[i \in Nat] ==
            IF i <= 1 THEN initial
            ELSE IF delay[i - 1] < maximum
                 THEN Smaller(2 * delay[i - 1], maximum)
                 ELSE delay[i - 1]
    IN  delay[step]

(* Mutant: the spread is only added, as if "nominal - spread" were forgotten. *)
jitterDelayOneSided(nominal, maximum) ==
    LET spread == nominal \div 5
    IN  IF nominal <= 0 THEN {0}
        ELSE {d \in 0 .. maximum :
                \E j \in 0 .. 2 * spread : d = Smaller(nominal + j, maximum)}

(* Spread the nominal delay by a fifth in both directions, cap it at the   *)
(* maximum.  The nominal delays the callers pass are at most the maximum,  *)
(* so a delay too small to be spread stays within it as well.              *)
jitterDelay(nominal, maximum) ==
    LET spread == nominal \div 5
    IN  IF nominal <= 0 THEN {0}
        ELSE {d \in 0 .. maximum :
                \E j \in 0 .. 2 * spread : d = Smaller(nominal - spread + j, maximum)}

(* Mutant: the loop counts from zero and doubles once too often. *)
jitterDoHBackoffOffByOne(initial, maximum, step) ==
    jitterDelay(exponentialDelay(initial, maximum, step + 1), maximum)

(* The delays jitterDoHBackoff(step) may return; dohbridge.go has its own  *)
(* copy of the doubling loop and of the spread.                            *)
jitterDoHBackoff(initial, maximum, step) ==
    LET delay[i \in Nat] ==
            IF i <= 1 THEN initial
            ELSE IF 2 * delay[i - 1] >= maximum THEN maximum ELSE 2 * delay[i - 1]
        spread == delay[step] \div 5
    IN  {d \in 0 .. maximum :
            \E j \in 0 .. 2 * spread : d = Smaller(delay[step] - spread + j, maximum)}
=============================================================================
