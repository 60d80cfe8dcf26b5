------------------------------ MODULE MCBackoff ------------------------------
(***************************************************************************)
(* Checks the delay operators of Backoff against closed forms, for every   *)
(* initial delay, maximum and step within the bounds.  initPlugin of       *)
(* circuit.go guarantees maximum >= initial > 0; jitterDoHBackoff fixes    *)
(* the two to one second and five minutes.                                 *)
(***************************************************************************)
EXTENDS Backoff

CONSTANTS
    InitialBound,   \* the largest initial delay tried
    MaximumBound,   \* the largest maximum tried
    StepBound       \* the largest backoff step tried

VARIABLES initial, maximum, step

vars == <<initial, maximum, step>>

Init == /\ initial \in 1 .. InitialBound
        /\ maximum \in initial .. MaximumBound
        /\ step = 1

(* One more failed probe. *)
NextStep == /\ step < StepBound
            /\ step' = step + 1
            /\ UNCHANGED <<initial, maximum>>

Next == NextStep

Spec == Init /\ [][Next]_vars

nominal == exponentialDelay(initial, maximum, step)

(* The loop of exponentialDelay computes initial * 2^(step-1) cut off at   *)
(* the maximum: it neither doubles once too often nor stops early.         *)
DelayIsCappedPower == nominal = Smaller(initial * 2 ^ (step - 1), maximum)

(* jitterDelay always returns something, never exceeds the maximum, never  *)
(* retries earlier than four fifths of the nominal delay nor later than    *)
(* six fifths of it, and can fall on either side of it unless capped.      *)
JitterWithinFifth ==
    LET delays == jitterDelay(nominal, maximum)
    IN  /\ delays # {}
        /\ \A d \in delays : /\ d <= maximum
                             /\ 5 * d >= 4 * nominal
                             /\ 5 * d <= 6 * nominal
        /\ nominal >= 5 => \E d \in delays : d < nominal

(* The DoH bridge's own copy of loop and spread, jitterDoHBackoff, agrees  *)
(* with the circuit plugin's pair of functions.                            *)
BothCopiesAgree ==
    jitterDoHBackoff(initial, maximum, step) = jitterDelay(nominal, maximum)
=============================================================================
