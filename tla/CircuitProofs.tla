---------------------------- MODULE CircuitProofs ----------------------------
(***************************************************************************)
(* Theorems about Circuit, for any set of queries, any threshold, number   *)
(* of attempts and delays.  The inductive invariant is the conjunction of  *)
(* the properties the runs check: the typing of consecutiveFailures needs  *)
(* CircuitCoherent (a closed circuit is below the threshold), the typing   *)
(* of orphans needs WorkersAccounted.                                      *)
(***************************************************************************)
EXTENDS Circuit, TLAPS

-----------------------------------------------------------------------------
(* Whatever the nominal delay, jitterDelay returns one between zero and    *)
(* the maximum.                                                            *)
LEMMA JitterBounded ==
    ASSUME NEW nominal, NEW maximum \in Nat
    PROVE  jitterDelay(nominal, maximum) \subseteq 0 .. maximum
BY DEF jitterDelay

(* The part of the invariant about the circuit's own fields. *)
CircuitTyped ==
    /\ consecutiveFailures \in 0 .. FailureThreshold
    /\ backoffStep \in 0 .. StepCap
    /\ retryIn \in 0 .. MaxBackoff
    /\ probing \in BOOLEAN
    /\ stateGauge \in {Closed, Open, HalfOpen}
    /\ backoffGauge \in 0 .. MaxBackoff

CircuitIInv == CircuitTyped /\ CircuitCoherent

(* The part about the queries: who they are ... *)
Verdict == {"none", "answered", "circuitOpen", "failed", "contextEnded"}

QueryTyped ==
    /\ phase \in [Query -> {"idle", "exec", "returned"}]
    /\ slot \in [Query -> Outcome \cup {"pending"}]
    /\ verdict \in [Query -> Verdict]

(* ... how many attempts and workers they have ... *)
AttemptsTyped ==
    /\ attempt \in [Query -> 1 .. Attempts]
    /\ orphans \in [Query -> 0 .. Attempts]
    /\ faults \in 0 .. MaxFaults

(* ... and their flags.  Only the context of an expiring query ends. *)
FlagsTyped ==
    /\ probe \in [Query -> BOOLEAN]
    /\ ctxDone \in [Query -> BOOLEAN]
    /\ response \in [Query -> BOOLEAN]
    /\ \A q \in Query : ctxDone[q] => q \in Expiring

QueryIInv ==
    QueryTyped /\ AttemptsTyped /\ FlagsTyped /\ WorkersAccounted /\ ResponseMatchesVerdict

(* The inductive invariant. *)
IInv == CircuitIInv /\ QueryIInv

(* acquire keeps the fields coherent. *)
LEMMA GrantCoherent ==
    ASSUME CircuitIInv, grant
    PROVE  CircuitIInv'
<1>1. CASE closed
  BY <1>1 DEF CircuitIInv, CircuitTyped, CircuitCoherent, grant, closed, circuitVars
<1>2. CASE ~closed
  <2>1. retryIn = 0
    BY <1>2, SettingsAssumption DEF CircuitIInv, CircuitTyped, grant, denied
  <2>2. /\ probing' = TRUE /\ stateGauge' = HalfOpen /\ backoffGauge' = 0
        /\ UNCHANGED <<consecutiveFailures, backoffStep, retryIn>>
    BY <1>2 DEF grant
  <2> QED
    BY <1>2, <2>1, <2>2, SettingsAssumption
       DEF CircuitIInv, CircuitTyped, CircuitCoherent, closed, Closed, Open, HalfOpen
<1> QED BY <1>1, <1>2

(* succeed brings the fields to the closed state. *)
LEMMA SucceedCoherent ==
    ASSUME CircuitIInv, succeed
    PROVE  CircuitIInv' /\ ~probing'
<1>1. /\ consecutiveFailures' = 0 /\ backoffStep' = 0 /\ retryIn' = 0
      /\ stateGauge' = 0 /\ backoffGauge' = 0
  BY DEF succeed, Closed
<1>2. ~probing' /\ probing' \in BOOLEAN
  BY DEF succeed
<1>3. CircuitCoherent'
  BY <1>1, <1>2, SettingsAssumption DEF CircuitCoherent, closed, Closed
<1>4. CircuitTyped'
  BY <1>1, <1>2, SettingsAssumption DEF CircuitTyped, Closed
<1> QED
  BY <1>2, <1>3, <1>4 DEF CircuitIInv

(* The end of fail leaves an open circuit that waits and does not probe. *)
LEMMA OpenCoherent ==
    ASSUME CircuitIInv, NEW step \in 1 .. StepCap, open(step),
           consecutiveFailures' = FailureThreshold
    PROVE  CircuitIInv' /\ ~probing'
<1> DEFINE nominal == exponentialDelay(InitialBackoff, MaxBackoff, step)
<1>1. PICK delay \in jitterDelay(nominal, MaxBackoff) :
            retryIn' = delay /\ backoffGauge' = delay
  BY DEF open
<1> HIDE DEF nominal
<1>2. delay \in 0 .. MaxBackoff
  BY JitterBounded, SettingsAssumption
<1>3. backoffStep' = step /\ stateGauge' = Open
  BY DEF open
<1>4. ~probing' /\ probing' \in BOOLEAN
  BY DEF open
<1>5. CircuitCoherent'
  BY <1>1, <1>2, <1>3, <1>4, SettingsAssumption DEF CircuitCoherent, closed
<1>6. CircuitTyped'
  BY <1>1, <1>2, <1>3, <1>4, SettingsAssumption DEF CircuitTyped, Open
<1> QED
  BY <1>4, <1>5, <1>6 DEF CircuitIInv

(* fail keeps the fields coherent, and a probe's failure ends the probing. *)
LEMMA FailCoherent ==
    ASSUME CircuitIInv, NEW p \in BOOLEAN, fail(p)
    PROVE  CircuitIInv' /\ (p => ~probing') /\ (probing' => probing)
<1>1. CASE UNCHANGED circuitVars
  <2>1. CircuitIInv'
    BY <1>1 DEF CircuitIInv, CircuitTyped, CircuitCoherent, closed, circuitVars
  <2>2. p => ~probing
    BY <1>1, SettingsAssumption DEF fail, closed, CircuitIInv, CircuitTyped, CircuitCoherent, open, circuitVars
  <2> QED BY <1>1, <2>1, <2>2 DEF circuitVars
<1>2. CASE /\ closed /\ ~p
           /\ consecutiveFailures' = consecutiveFailures + 1
           /\ consecutiveFailures + 1 < FailureThreshold
           /\ UNCHANGED <<backoffStep, retryIn, probing, stateGauge, backoffGauge>>
  BY <1>2, SettingsAssumption DEF CircuitIInv, CircuitTyped, CircuitCoherent, closed
<1>3. CASE /\ closed /\ ~p
           /\ consecutiveFailures' = consecutiveFailures + 1
           /\ ~(consecutiveFailures + 1 < FailureThreshold)
           /\ open(1)
  <2>1. consecutiveFailures' = FailureThreshold
    BY <1>3, SettingsAssumption DEF CircuitIInv, CircuitTyped, CircuitCoherent
  <2>2. 1 \in 1 .. StepCap
    BY SettingsAssumption
  <2> QED BY <1>3, <2>1, <2>2, OpenCoherent
<1>4. CASE /\ ~closed /\ p /\ probing
           /\ open(Smaller(backoffStep + 1, StepCap))
           /\ UNCHANGED consecutiveFailures
  <2>1. Smaller(backoffStep + 1, StepCap) \in 1 .. StepCap
    BY SettingsAssumption DEF CircuitIInv, CircuitTyped, Smaller
  <2>2. consecutiveFailures' = FailureThreshold
    BY <1>4 DEF CircuitIInv, CircuitTyped, CircuitCoherent
  <2> QED BY <1>4, <2>1, <2>2, OpenCoherent
<1> QED
  BY <1>1, <1>2, <1>3, <1>4 DEF fail

-----------------------------------------------------------------------------
(* The inductive invariant implies the properties. *)
LEMMA IInvImplies ==
    IInv => TypeOK /\ CircuitCoherent /\ WorkersAccounted /\ ResponseMatchesVerdict
BY DEF IInv, CircuitIInv, CircuitTyped, QueryIInv, QueryTyped, Verdict, AttemptsTyped,
       FlagsTyped, TypeOK

(* The initial state satisfies the inductive invariant. *)
LEMMA InitIInv == Init => IInv
<1> SUFFICES ASSUME Init PROVE IInv
  OBVIOUS
<1>1. probing \in BOOLEAN /\ ~probing
  BY DEF Init
<1>2. CircuitTyped
  BY <1>1, SettingsAssumption DEF Init, CircuitTyped, Closed
<1>3. CircuitCoherent
  BY <1>1, SettingsAssumption DEF Init, CircuitCoherent, closed, Closed
<1>4. QueryTyped
  BY DEF Init, QueryTyped, Verdict
<1>5. AttemptsTyped
  BY SettingsAssumption DEF Init, AttemptsTyped
<1>6. FlagsTyped
  BY DEF Init, FlagsTyped
<1>7. WorkersAccounted
  BY DEF Init, WorkersAccounted
<1>8. ResponseMatchesVerdict
  BY DEF Init, ResponseMatchesVerdict
<1> QED
  BY <1>2, <1>3, <1>4, <1>5, <1>6, <1>7, <1>8 DEF IInv, CircuitIInv, QueryIInv

(* Steps that leave the circuit's fields alone keep its part. *)
LEMMA CircuitUnchanged ==
    ASSUME CircuitIInv, UNCHANGED circuitVars
    PROVE  CircuitIInv'
BY DEF CircuitIInv, CircuitTyped, CircuitCoherent, closed, circuitVars

(* Exec returns: response and verdict change together. *)
LEMMA ReturnMatches ==
    ASSUME QueryIInv, NEW q \in Query, NEW how \in Verdict \ {"none"}, return(q, how)
    PROVE  /\ QueryTyped /\ UNCHANGED slot => QueryTyped'
           /\ response' \in [Query -> BOOLEAN]
           /\ ResponseMatchesVerdict'
           /\ phase'[q] = "returned"
           /\ \A r \in Query : r # q => phase'[r] = phase[r]
<1>1. QueryTyped /\ UNCHANGED slot => QueryTyped'
  BY DEF return, QueryIInv, QueryTyped, Verdict
<1>2. response' \in [Query -> BOOLEAN]
  BY DEF return, QueryIInv, FlagsTyped
<1>3. ResponseMatchesVerdict'
  BY DEF return, QueryIInv, FlagsTyped, QueryTyped, ResponseMatchesVerdict
<1>4. phase'[q] = "returned" /\ \A r \in Query : r # q => phase'[r] = phase[r]
  BY DEF return, QueryIInv, QueryTyped
<1> QED BY <1>1, <1>2, <1>3, <1>4

(* An attempt that is given up while the query still waits leaves at most  *)
(* one more worker behind.                                                 *)
LEMMA GiveUpAccounted ==
    ASSUME IInv, NEW q \in Query, waiting(q), giveUpAttempt(q),
           orphan(q) \/ UNCHANGED orphans,
           faults' \in 0 .. MaxFaults, UNCHANGED <<probe, ctxDone>>
    PROVE  IInv'
<1> USE DEF IInv, QueryIInv
<1>1. phase[q] = "exec" /\ attempt[q] \in 1 .. Attempts /\ orphans[q] \in 0 .. attempt[q] - 1
  BY SettingsAssumption DEF waiting, AttemptsTyped, WorkersAccounted
<1>2. /\ orphans' \in [Query -> 0 .. Attempts]
      /\ orphans'[q] <= orphans[q] + 1
      /\ \A r \in Query : r # q => orphans'[r] = orphans[r]
  BY <1>1, SettingsAssumption DEF orphan, AttemptsTyped
<1>3. CASE attempt[q] < Attempts
  <2>1. /\ attempt' = [attempt EXCEPT ![q] = @ + 1]
        /\ slot' = [slot EXCEPT ![q] = "pending"]
        /\ UNCHANGED <<circuitVars, phase, response, verdict>>
    BY <1>3 DEF giveUpAttempt
  <2>2. CircuitIInv'
    BY <2>1, CircuitUnchanged
  <2>3. QueryTyped' /\ FlagsTyped' /\ ResponseMatchesVerdict'
    BY <2>1 DEF QueryTyped, FlagsTyped, ResponseMatchesVerdict, Verdict
  <2>4. AttemptsTyped'
    BY <1>1, <1>2, <1>3, <2>1, SettingsAssumption DEF AttemptsTyped
  <2>5. WorkersAccounted'
    BY <1>1, <1>2, <2>1, SettingsAssumption DEF WorkersAccounted, AttemptsTyped, QueryTyped
  <2> QED BY <2>2, <2>3, <2>4, <2>5
<1>4. CASE ~(attempt[q] < Attempts)
  <2>1. fail(probe[q]) /\ return(q, "failed") /\ UNCHANGED <<attempt, slot>>
    BY <1>4 DEF giveUpAttempt
  <2>2. CircuitIInv'
    BY <2>1, FailCoherent DEF FlagsTyped
  <2>3. /\ QueryTyped' /\ ResponseMatchesVerdict'
        /\ response' \in [Query -> BOOLEAN]
        /\ phase'[q] = "returned"
        /\ \A r \in Query : r # q => phase'[r] = phase[r]
    BY <2>1, ReturnMatches DEF Verdict
  <2>4. FlagsTyped'
    BY <2>3 DEF FlagsTyped
  <2>5. AttemptsTyped'
    BY <1>2, <2>1 DEF AttemptsTyped
  <2>6. WorkersAccounted'
    BY <1>2, <2>1, <2>3 DEF WorkersAccounted
  <2> QED BY <2>2, <2>3, <2>4, <2>5, <2>6
<1> QED BY <1>3, <1>4

(* Every step keeps the inductive invariant. *)
LEMMA NextIInv == IInv /\ [Next]_vars => IInv'
<1> SUFFICES ASSUME IInv, [Next]_vars PROVE IInv'
  OBVIOUS
<1> USE DEF IInv, QueryIInv
<1>1. CASE UNCHANGED vars
  <2>1. CircuitIInv'
    BY <1>1, CircuitUnchanged DEF vars
  <2>2. QueryTyped' /\ AttemptsTyped' /\ FlagsTyped' /\ WorkersAccounted' /\ ResponseMatchesVerdict'
    BY <1>1 DEF vars, queryVars, QueryTyped, AttemptsTyped, FlagsTyped, WorkersAccounted,
                ResponseMatchesVerdict
  <2> QED BY <2>1, <2>2
<1>2. CASE Tick
  <2>1. CircuitTyped'
    BY <1>2, SettingsAssumption DEF Tick, CircuitIInv, CircuitTyped
  <2>2. CircuitCoherent'
    BY <1>2, SettingsAssumption DEF Tick, CircuitIInv, CircuitTyped, CircuitCoherent, closed
  <2>3. QueryTyped' /\ AttemptsTyped' /\ FlagsTyped' /\ WorkersAccounted' /\ ResponseMatchesVerdict'
    BY <1>2 DEF Tick, queryVars, QueryTyped, AttemptsTyped, FlagsTyped, WorkersAccounted,
                ResponseMatchesVerdict
  <2> QED BY <2>1, <2>2, <2>3 DEF CircuitIInv
<1>3. ASSUME NEW q \in Query, Admit(q)
      PROVE  IInv'
  <2>1. CircuitIInv'
    BY <1>3, GrantCoherent DEF Admit
  <2>2. QueryTyped' /\ ResponseMatchesVerdict'
    BY <1>3 DEF Admit, QueryTyped, ResponseMatchesVerdict, Verdict
  <2>3. AttemptsTyped'
    BY <1>3 DEF Admit, AttemptsTyped
  <2>4. FlagsTyped'
    BY <1>3 DEF Admit, FlagsTyped, closed
  <2>5. WorkersAccounted'
    BY <1>3 DEF Admit, WorkersAccounted, QueryTyped
  <2> QED BY <2>1, <2>2, <2>3, <2>4, <2>5
<1>4. ASSUME NEW q \in Query, Bypass(q)
      PROVE  IInv'
  <2>1. CircuitIInv'
    BY <1>4, CircuitUnchanged DEF Bypass
  <2>2. /\ QueryTyped' /\ ResponseMatchesVerdict'
        /\ response' \in [Query -> BOOLEAN]
        /\ phase'[q] = "returned"
        /\ \A r \in Query : r # q => phase'[r] = phase[r]
    BY <1>4, ReturnMatches DEF Bypass, Verdict
  <2>3. AttemptsTyped' /\ FlagsTyped' /\ WorkersAccounted'
    BY <1>4, <2>2 DEF Bypass, AttemptsTyped, FlagsTyped, WorkersAccounted
  <2> QED BY <2>1, <2>2, <2>3
<1>5. ASSUME NEW q \in Query, NEW outcome \in Outcome, WorkerReturns(q, outcome)
      PROVE  IInv'
  <2>1. CircuitIInv'
    BY <1>5, CircuitUnchanged DEF WorkerReturns
  <2>2. QueryTyped' /\ FlagsTyped' /\ ResponseMatchesVerdict'
    BY <1>5 DEF WorkerReturns, QueryTyped, FlagsTyped, ResponseMatchesVerdict
  <2>3. AttemptsTyped'
    BY <1>5, SettingsAssumption DEF WorkerReturns, AttemptsTyped
  <2>4. WorkersAccounted'
    BY <1>5 DEF WorkerReturns, waiting, WorkersAccounted, QueryTyped
  <2> QED BY <2>1, <2>2, <2>3, <2>4
<1>6. ASSUME NEW q \in Query, OrphanReturns(q)
      PROVE  IInv'
  <2>1. CircuitIInv'
    BY <1>6, CircuitUnchanged DEF OrphanReturns
  <2>2. QueryTyped' /\ FlagsTyped' /\ ResponseMatchesVerdict'
    BY <1>6 DEF OrphanReturns, QueryTyped, FlagsTyped, ResponseMatchesVerdict
  <2>3. AttemptsTyped'
    BY <1>6, SettingsAssumption DEF OrphanReturns, AttemptsTyped
  <2>4. WorkersAccounted'
    BY <1>6, SettingsAssumption DEF OrphanReturns, WorkersAccounted, AttemptsTyped
  <2> QED BY <2>1, <2>2, <2>3, <2>4
<1>7. ASSUME NEW q \in Query, Answered(q)
      PROVE  IInv'
  <2>1. CircuitIInv'
    BY <1>7, SucceedCoherent DEF Answered
  <2>2. /\ QueryTyped' /\ ResponseMatchesVerdict'
        /\ response' \in [Query -> BOOLEAN]
        /\ phase'[q] = "returned"
        /\ \A r \in Query : r # q => phase'[r] = phase[r]
    BY <1>7, ReturnMatches DEF Answered, Verdict
  <2>3. AttemptsTyped' /\ FlagsTyped' /\ WorkersAccounted'
    BY <1>7, <2>2 DEF Answered, AttemptsTyped, FlagsTyped, WorkersAccounted
  <2> QED BY <2>1, <2>2, <2>3
<1>8. ASSUME NEW q \in Query, Refused(q)
      PROVE  IInv'
  <2>1. CircuitIInv'
    BY <1>8, FailCoherent DEF Refused, FlagsTyped
  <2>2. /\ QueryTyped' /\ ResponseMatchesVerdict'
        /\ response' \in [Query -> BOOLEAN]
        /\ phase'[q] = "returned"
        /\ \A r \in Query : r # q => phase'[r] = phase[r]
    BY <1>8, ReturnMatches DEF Refused, Verdict
  <2>3. AttemptsTyped' /\ FlagsTyped' /\ WorkersAccounted'
    BY <1>8, <2>2 DEF Refused, AttemptsTyped, FlagsTyped, WorkersAccounted
  <2> QED BY <2>1, <2>2, <2>3
<1>9. ASSUME NEW q \in Query, AttemptFailed(q)
      PROVE  IInv'
  <2>1. faults' \in 0 .. MaxFaults
    BY <1>9 DEF AttemptFailed, AttemptsTyped
  <2> QED BY <1>9, <2>1, GiveUpAccounted DEF AttemptFailed
<1>10. ASSUME NEW q \in Query, AttemptTimesOut(q)
      PROVE  IInv'
  <2>1. faults' \in 0 .. MaxFaults
    BY <1>10, SettingsAssumption DEF AttemptTimesOut, AttemptsTyped
  <2> QED BY <1>10, <2>1, GiveUpAccounted DEF AttemptTimesOut
<1>11. ASSUME NEW q \in Query, ContextEnded(q)
      PROVE  IInv'
  <2>1. CircuitIInv'
    BY <1>11, CircuitUnchanged DEF ContextEnded
  <2>2. /\ QueryTyped' /\ ResponseMatchesVerdict'
        /\ response' \in [Query -> BOOLEAN]
        /\ phase'[q] = "returned"
        /\ \A r \in Query : r # q => phase'[r] = phase[r]
    BY <1>11, ReturnMatches DEF ContextEnded, Verdict
  <2>3. orphans[q] \in 0 .. Attempts - 1
    BY <1>11, SettingsAssumption DEF ContextEnded, waiting, WorkersAccounted, AttemptsTyped
  <2>4. AttemptsTyped'
    BY <1>11, <2>3, SettingsAssumption DEF ContextEnded, orphan, AttemptsTyped
  <2>5. FlagsTyped'
    BY <1>11, <2>2 DEF ContextEnded, FlagsTyped
  <2>6. WorkersAccounted'
    BY <1>11, <2>2 DEF ContextEnded, orphan, WorkersAccounted, AttemptsTyped
  <2> QED BY <2>1, <2>2, <2>4, <2>5, <2>6
<1>12. ASSUME NEW q \in Query, ContextEnds(q)
      PROVE  IInv'
  <2>1. CircuitIInv'
    BY <1>12, CircuitUnchanged DEF ContextEnds
  <2>2. QueryTyped' /\ AttemptsTyped' /\ WorkersAccounted' /\ ResponseMatchesVerdict'
    BY <1>12 DEF ContextEnds, QueryTyped, AttemptsTyped, WorkersAccounted, ResponseMatchesVerdict
  <2>3. FlagsTyped'
    BY <1>12 DEF ContextEnds, FlagsTyped
  <2> QED BY <2>1, <2>2, <2>3
<1>13. ASSUME NEW q \in Query, Forget(q)
      PROVE  IInv'
  <2>1. CircuitIInv'
    BY <1>13, CircuitUnchanged DEF Forget
  <2>2. QueryTyped'
    BY <1>13 DEF Forget, QueryTyped, Verdict
  <2>3. AttemptsTyped'
    BY <1>13, SettingsAssumption DEF Forget, AttemptsTyped
  <2>4. FlagsTyped'
    BY <1>13 DEF Forget, FlagsTyped
  <2>5. WorkersAccounted'
    BY <1>13 DEF Forget, WorkersAccounted, AttemptsTyped, QueryTyped
  <2>6. ResponseMatchesVerdict'
    BY <1>13 DEF Forget, ResponseMatchesVerdict, FlagsTyped, QueryTyped
  <2> QED BY <2>1, <2>2, <2>3, <2>4, <2>5, <2>6
<1> QED
  BY <1>1, <1>2, <1>3, <1>4, <1>5, <1>6, <1>7, <1>8, <1>9, <1>10, <1>11, <1>12, <1>13
     DEF Next, Arrive, Progress

(* The inductive invariant is an invariant. *)
LEMMA Invariance == Spec => []IInv
BY InitIInv, NextIInv, PTL DEF Spec

-----------------------------------------------------------------------------
(* The state variables of the AUTO_FORWARD circuit and of the queries in   *)
(* it keep their types: the failure count stops at the threshold, and a    *)
(* query starts no more attempts, and leaves no more workers behind, than  *)
(* configured.                                                             *)
THEOREM TypeCorrect == Spec => []TypeOK
BY Invariance, IInvImplies, PTL

(* The fields written under the mutex of circuit.go stay in step with each *)
(* other and with the gauges, for every threshold, delay and interleaving. *)
THEOREM AlwaysCoherent == Spec => []CircuitCoherent
BY Invariance, IInvImplies, PTL

(* Exec of circuit.go hands the caller a response exactly when it reports  *)
(* success, whatever its abandoned workers do later.                       *)
THEOREM NoLateMutation == Spec => []ResponseMatchesVerdict
BY Invariance, IInvImplies, PTL

(* attemptOnce of circuit.go never leaves more workers behind than it has  *)
(* attempts, and a query outside Exec has none.                            *)
THEOREM WorkersBounded == Spec => []WorkersAccounted
BY Invariance, IInvImplies, PTL

(* What one step can do to the probe permit. *)
LEMMA ProbeStep ==
    IInv /\ [Next]_vars
        => (ProbeHeld => \/ ProbeHeld'
                         \/ \E q \in inFlightProbes : ctxDone[q] /\ ~waiting(q)')
<1> SUFFICES ASSUME IInv, [Next]_vars, ProbeHeld,
                    ~ \E q \in inFlightProbes : ctxDone[q] /\ ~waiting(q)'
             PROVE  ProbeHeld'
  OBVIOUS
<1> USE DEF IInv, QueryIInv, ProbeHeld, inFlightProbes, waiting
<1>1. CASE UNCHANGED vars
  BY <1>1 DEF vars, circuitVars, queryVars
<1>2. CASE Tick
  BY <1>2 DEF Tick, queryVars
<1>3. ASSUME NEW q \in Query, Admit(q)
      PROVE  ProbeHeld'
  <2>1. phase' = [phase EXCEPT ![q] = "exec"] /\ probe' = [probe EXCEPT ![q] = ~closed]
    BY <1>3 DEF Admit
  <2>2. phase[q] = "idle"
    BY <1>3 DEF Admit
  <2>3. CASE closed
    <3>1. probing' = probing
      BY <1>3, <2>3 DEF Admit, grant, circuitVars
    <3> QED BY <2>1, <2>2, <3>1 DEF QueryTyped, FlagsTyped
  <2>4. CASE ~closed
    <3>1. phase'[q] = "exec" /\ probe'[q]
      BY <2>1, <2>4 DEF QueryTyped, FlagsTyped
    <3> QED BY <3>1
  <2> QED BY <2>3, <2>4
<1>4. ASSUME NEW q \in Query, Bypass(q)
      PROVE  ProbeHeld'
  BY <1>4 DEF Bypass, return, circuitVars, QueryTyped
<1>5. ASSUME NEW q \in Query, NEW outcome \in Outcome, WorkerReturns(q, outcome)
      PROVE  ProbeHeld'
  BY <1>5 DEF WorkerReturns, circuitVars
<1>6. ASSUME NEW q \in Query, OrphanReturns(q)
      PROVE  ProbeHeld'
  BY <1>6 DEF OrphanReturns, circuitVars
<1>7. ASSUME NEW q \in Query, Answered(q)
      PROVE  ProbeHeld'
  BY <1>7, SucceedCoherent DEF Answered
<1>8. ASSUME NEW q \in Query, fail(probe[q]), return(q, "failed"), UNCHANGED probe
      PROVE  ProbeHeld'
  <2>1. (probe[q] => ~probing') /\ (probing' => probing)
    BY <1>8, FailCoherent DEF FlagsTyped
  <2>2. \A r \in Query : r # q => phase'[r] = phase[r]
    BY <1>8 DEF return, QueryTyped
  <2> QED BY <1>8, <2>1, <2>2
<1>9. ASSUME NEW q \in Query, Refused(q)
      PROVE  ProbeHeld'
  BY <1>8, <1>9 DEF Refused
<1>10. ASSUME NEW q \in Query, giveUpAttempt(q), UNCHANGED probe
       PROVE  ProbeHeld'
  <2>1. CASE attempt[q] < Attempts
    BY <1>10, <2>1 DEF giveUpAttempt, circuitVars
  <2>2. CASE ~(attempt[q] < Attempts)
    BY <1>8, <1>10, <2>2 DEF giveUpAttempt
  <2> QED BY <2>1, <2>2
<1>11. ASSUME NEW q \in Query, AttemptFailed(q)
       PROVE  ProbeHeld'
  BY <1>10, <1>11 DEF AttemptFailed
<1>12. ASSUME NEW q \in Query, AttemptTimesOut(q)
       PROVE  ProbeHeld'
  BY <1>10, <1>12 DEF AttemptTimesOut
<1>13. ASSUME NEW q \in Query, ContextEnded(q)
       PROVE  ProbeHeld'
  <2>1. /\ probing' = probing /\ probe' = probe /\ ctxDone[q]
        /\ phase'[q] = "returned"
        /\ \A r \in Query : r # q => phase'[r] = phase[r]
    BY <1>13 DEF ContextEnded, return, circuitVars, QueryTyped
  <2>2. q \notin inFlightProbes
    BY <2>1
  <2> QED BY <2>1, <2>2
<1>14. ASSUME NEW q \in Query, ContextEnds(q)
       PROVE  ProbeHeld'
  BY <1>14 DEF ContextEnds, circuitVars
<1>15. ASSUME NEW q \in Query, Forget(q)
       PROVE  ProbeHeld'
  <2>1. /\ probing' = probing /\ phase[q] # "exec"
        /\ \A r \in Query : r # q => phase'[r] = phase[r] /\ probe'[r] = probe[r]
    BY <1>15 DEF Forget, circuitVars, QueryTyped, FlagsTyped
  <2> QED BY <2>1
<1> QED
  BY <1>1, <1>2, <1>3, <1>4, <1>5, <1>6, <1>7, <1>9, <1>11, <1>12, <1>13, <1>14, <1>15
     DEF Next, Arrive, Progress

(* Among all steps of circuit.go only the return of a probe whose context  *)
(* has ended can strand the circuit in the half-open state.                *)
THEOREM OnlyContextStrands == Spec => ProbeLostOnlyByContext
<1>1. IInv /\ [Next]_vars
        => [ProbeHeld /\ ~ProbeHeld' =>
              \E q \in inFlightProbes : ctxDone[q] /\ ~waiting(q)']_vars
  BY ProbeStep
<1> QED
  BY <1>1, Invariance, PTL DEF Spec, ProbeLostOnlyByContext

(* When no query's context ends inside Exec of circuit.go, a half-open     *)
(* circuit always has a probe on its way that will decide it.              *)
THEOREM ProbeNeverLost ==
    ASSUME Expiring = {}
    PROVE  Spec => []ProbeHeld
<1>1. Init => ProbeHeld
  BY DEF Init, ProbeHeld
<1>2. IInv /\ ProbeHeld /\ [Next]_vars => ProbeHeld'
  BY ProbeStep DEF IInv, QueryIInv, FlagsTyped, inFlightProbes
<1> QED
  BY <1>1, <1>2, Invariance, PTL DEF Spec

-----------------------------------------------------------------------------
(* The refinement: one lemma per operation of the circuit. *)

(* The delays of a level, as the abstract breaker sees them. *)
delays(step) == jitterDelay(exponentialDelay(InitialBackoff, MaxBackoff, step), MaxBackoff)

(* A step that leaves the fields alone is a stutter of the breaker. *)
LEMMA StutterRefines ==
    ASSUME UNCHANGED circuitVars
    PROVE  UNCHANGED breaker!vars
BY DEF circuitVars, breaker!vars, closed

(* acquire is a stutter, or the breaker's Probe. *)
LEMMA GrantRefines ==
    ASSUME CircuitIInv, grant
    PROVE  breaker!Probe \/ UNCHANGED breaker!vars
<1>1. CASE closed
  BY <1>1, StutterRefines DEF grant
<1>2. CASE ~closed
  <2>1. ~probing /\ ~(retryIn > 0)
    BY <1>2 DEF grant, denied
  <2>2. retryIn = 0
    BY <2>1, SettingsAssumption DEF CircuitIInv, CircuitTyped
  <2>3. probing' /\ UNCHANGED <<backoffStep, retryIn>>
    BY <1>2 DEF grant
  <2>4. ~closed'
    BY <1>2, <2>3 DEF closed
  <2> QED
    BY <1>2, <2>1, <2>2, <2>3, <2>4 DEF breaker!Probe
<1> QED BY <1>1, <1>2

(* succeed is the breaker's Reset, or a stutter of the closed breaker. *)
LEMMA SucceedRefines ==
    ASSUME CircuitIInv, succeed
    PROVE  breaker!Reset \/ UNCHANGED breaker!vars
<1>1. backoffStep' = 0 /\ retryIn' = 0 /\ closed'
  BY DEF succeed, closed
<1>2. CASE closed
  <2>1. backoffStep = 0 /\ retryIn = 0
    BY <1>2 DEF CircuitIInv, CircuitCoherent, closed
  <2> QED BY <1>1, <1>2, <2>1 DEF breaker!vars
<1>3. CASE ~closed
  BY <1>1, <1>3 DEF breaker!Reset
<1> QED BY <1>2, <1>3

(* The end of fail chooses its wait from the delays of its level. *)
LEMMA OpenRefines ==
    ASSUME NEW step \in 1 .. StepCap, open(step)
    PROVE  /\ backoffStep' = step
           /\ ~closed' /\ ~probing'
           /\ retryIn' \in delays(step)
<1>1. backoffStep' = step /\ ~probing'
  BY DEF open
<1>2. ~closed'
  BY <1>1, SettingsAssumption DEF closed
<1>3. retryIn' \in delays(step)
  BY DEF open, delays
<1> QED BY <1>1, <1>2, <1>3

(* fail is the breaker's Trip or Reopen, or a stutter. *)
LEMMA FailRefines ==
    ASSUME CircuitIInv, NEW p \in BOOLEAN, fail(p)
    PROVE  breaker!Trip \/ breaker!Reopen \/ UNCHANGED breaker!vars
<1>1. CASE UNCHANGED circuitVars
  BY <1>1, StutterRefines
<1>2. CASE UNCHANGED <<backoffStep, retryIn, probing, stateGauge, backoffGauge>>
  BY <1>2 DEF breaker!vars, closed
<1>3. CASE closed /\ open(1)
  <2>1. 1 \in 1 .. StepCap
    BY SettingsAssumption
  <2>2. backoffStep' = 1 /\ ~closed' /\ ~probing' /\ retryIn' \in delays(1)
    BY <1>3, <2>1, OpenRefines
  <2> QED
    BY <1>3, <2>1, <2>2 DEF breaker!Trip, delays
<1>4. CASE ~closed /\ p /\ probing /\ open(Smaller(backoffStep + 1, StepCap))
  <2> DEFINE step == Smaller(backoffStep + 1, StepCap)
  <2>1. step \in 1 .. StepCap /\ step = IF backoffStep < StepCap THEN backoffStep + 1 ELSE backoffStep
    BY SettingsAssumption DEF CircuitIInv, CircuitTyped, Smaller
  <2> HIDE DEF step
  <2>2. backoffStep' = step /\ ~closed' /\ ~probing' /\ retryIn' \in delays(step)
    BY <1>4, <2>1, OpenRefines DEF step
  <2>3. [s \in 1 .. StepCap |-> delays(s)][backoffStep'] = delays(step)
    BY <2>1, <2>2
  <2> QED
    BY <1>4, <2>1, <2>2, <2>3 DEF breaker!Reopen, delays
<1> QED
  BY <1>1, <1>2, <1>3, <1>4 DEF fail

(* Every step of the circuit is a step or a stutter of the breaker. *)
LEMMA StepRefines == IInv /\ [Next]_vars => [breaker!Next]_(breaker!vars)
<1> SUFFICES ASSUME IInv, [Next]_vars PROVE breaker!Next \/ UNCHANGED breaker!vars
  OBVIOUS
<1> USE DEF IInv
<1>1. CASE UNCHANGED circuitVars
  BY <1>1, StutterRefines
<1>2. CASE Tick
  <2>1. retryIn > 0 /\ retryIn' = retryIn - 1 /\ UNCHANGED <<backoffStep, probing>>
    BY <1>2 DEF Tick
  <2>2. breaker!Elapse
    BY <2>1 DEF breaker!Elapse, closed
  <2> QED BY <2>2 DEF breaker!Next
<1>3. CASE grant
  BY <1>3, GrantRefines DEF breaker!Next
<1>4. CASE succeed
  BY <1>4, SucceedRefines DEF breaker!Next
<1>5. ASSUME NEW q \in Query, fail(probe[q])
      PROVE  breaker!Next \/ UNCHANGED breaker!vars
  BY <1>5, FailRefines DEF breaker!Next, QueryIInv, FlagsTyped
<1>6. Next => \/ UNCHANGED circuitVars \/ Tick \/ grant \/ succeed
              \/ \E q \in Query : fail(probe[q])
  BY DEF Next, Arrive, Progress, Admit, Bypass, WorkerReturns, OrphanReturns, Answered, Refused,
         AttemptFailed, AttemptTimesOut, giveUpAttempt, ContextEnded, ContextEnds, Forget
<1> QED
  BY <1>1, <1>2, <1>3, <1>4, <1>5, <1>6 DEF vars

(* The AUTO_FORWARD circuit of circuit.go implements the abstract breaker: *)
(* it half-opens only after the whole wait of its level, and its level     *)
(* rises only by the failure of a probe.                                   *)
THEOREM RefinesBreaker == Spec => ImplementsBreaker
<1>1. Init => breaker!Init
  BY DEF Init, breaker!Init, closed
<1> QED
  BY <1>1, StepRefines, Invariance, PTL DEF Spec, ImplementsBreaker, breaker!Spec

-----------------------------------------------------------------------------
(* How far a query is from leaving the plugin, its workers included.       *)

(* An attempt takes two steps at most: its worker returns and the loop     *)
(* goes on, or the loop goes on and the worker returns later.              *)
AttemptSteps(q) ==
    2 * (Attempts - attempt[q]) + (IF slot[q] = "pending" THEN 2 ELSE 1)

StepsLeft(q) ==
    CASE phase[q] = "idle" -> 0
      [] phase[q] = "exec" -> AttemptSteps(q) + orphans[q] + 1
      [] phase[q] = "returned" -> orphans[q] + 1

LEMMA QueryNumbers ==
    ASSUME IInv, NEW q \in Query
    PROVE  /\ Attempts \in Nat /\ attempt[q] \in 1 .. Attempts /\ orphans[q] \in 0 .. Attempts
           /\ AttemptSteps(q) \in 1 .. 2 * (Attempts - attempt[q]) + 2
BY SettingsAssumption DEF IInv, QueryIInv, AttemptsTyped, AttemptSteps

LEMMA StepsLeftTyped ==
    ASSUME IInv, NEW q \in Query
    PROVE  /\ StepsLeft(q) \in 0 .. 2 * Attempts + 1
           /\ StepsLeft(q) = 0 <=> phase[q] = "idle"
<1>1. /\ Attempts \in Nat /\ attempt[q] \in 1 .. Attempts /\ orphans[q] \in 0 .. Attempts
      /\ AttemptSteps(q) \in 1 .. 2 * (Attempts - attempt[q]) + 2
  BY QueryNumbers
<1>2. CASE phase[q] = "idle"
  BY <1>1, <1>2 DEF StepsLeft
<1>3. CASE phase[q] = "returned"
  BY <1>1, <1>3 DEF StepsLeft
<1>4. CASE phase[q] = "exec"
  <2>1. orphans[q] < attempt[q]
    BY <1>4 DEF IInv, QueryIInv, WorkersAccounted
  <2>2. StepsLeft(q) = AttemptSteps(q) + orphans[q] + 1
    BY <1>4 DEF StepsLeft
  <2>3. \A a, b, c, n \in Int :
            b \in 1 .. 2 * (n - a) + 2 /\ 1 <= a /\ 0 <= c /\ c < a
                => b + c + 1 \in 0 .. 2 * n + 1 /\ b + c + 1 # 0
    OBVIOUS
  <2> QED BY <1>1, <1>4, <2>1, <2>2, <2>3
<1> QED BY <1>2, <1>3, <1>4 DEF IInv, QueryIInv, QueryTyped

(* Another query's step, or time's, leaves the query where it is. *)
Kept(q) ==
    /\ phase'[q] = phase[q] /\ attempt'[q] = attempt[q]
    /\ slot'[q] = slot[q] /\ orphans'[q] = orphans[q]

LEMMA StepsKept ==
    ASSUME NEW q \in Query, Kept(q)
    PROVE  StepsLeft(q)' = StepsLeft(q)
BY DEF Kept, StepsLeft, AttemptSteps

(* Exec returns: what is left of its attempts is replaced by the worker it *)
(* may leave behind.                                                       *)
LEMMA ReturnRunsDown ==
    ASSUME IInv, NEW q \in Query, phase[q] = "exec", phase'[q] = "returned",
           \/ orphans'[q] = orphans[q]
           \/ slot[q] = "pending" /\ orphans'[q] = orphans[q] + 1
    PROVE  StepsLeft(q)' < StepsLeft(q)
<1>1. attempt[q] \in 1 .. Attempts /\ orphans[q] \in Nat /\ Attempts \in Nat
  BY QueryNumbers
<1>2. StepsLeft(q)' = orphans'[q] + 1
  BY DEF StepsLeft
<1>3. StepsLeft(q) = AttemptSteps(q) + orphans[q] + 1
  BY DEF StepsLeft
<1>4. AttemptSteps(q) \in Int /\ AttemptSteps(q) >= 1 /\ (slot[q] = "pending" => AttemptSteps(q) >= 2)
  BY <1>1 DEF AttemptSteps
<1> QED BY <1>1, <1>2, <1>3, <1>4

(* The loop of Exec goes on to its next attempt. *)
LEMMA RetryRunsDown ==
    ASSUME IInv, NEW q \in Query, phase[q] = "exec", phase'[q] = "exec",
           attempt'[q] = attempt[q] + 1, slot'[q] = "pending",
           orphans'[q] = IF slot[q] = "pending" THEN orphans[q] + 1 ELSE orphans[q]
    PROVE  StepsLeft(q)' < StepsLeft(q)
<1>1. attempt[q] \in Int /\ orphans[q] \in Int /\ Attempts \in Int
  BY QueryNumbers
<1>2. StepsLeft(q)' = 2 * (Attempts - (attempt[q] + 1)) + 2 + orphans'[q] + 1
  BY DEF StepsLeft, AttemptSteps
<1>3. StepsLeft(q) =
        2 * (Attempts - attempt[q]) + (IF slot[q] = "pending" THEN 2 ELSE 1) + orphans[q] + 1
  BY DEF StepsLeft, AttemptSteps
<1>4. CASE slot[q] = "pending"
  BY <1>1, <1>2, <1>3, <1>4
<1>5. CASE slot[q] # "pending"
  BY <1>1, <1>2, <1>3, <1>5
<1> QED BY <1>4, <1>5

(* The rest of the loop body, after a failed attempt or a timeout. *)
LEMMA GiveUpRunsDown ==
    ASSUME IInv, NEW q \in Query, phase[q] = "exec", giveUpAttempt(q),
           orphans'[q] = IF slot[q] = "pending" THEN orphans[q] + 1 ELSE orphans[q]
    PROVE  StepsLeft(q)' < StepsLeft(q)
<1> USE DEF IInv, QueryIInv
<1>1. CASE attempt[q] < Attempts
  <2>1. phase'[q] = "exec" /\ attempt'[q] = attempt[q] + 1 /\ slot'[q] = "pending"
    BY <1>1 DEF giveUpAttempt, QueryTyped, AttemptsTyped
  <2> QED BY <2>1, RetryRunsDown
<1>2. CASE ~(attempt[q] < Attempts)
  <2>1. phase'[q] = "returned"
    BY <1>2 DEF giveUpAttempt, return, QueryTyped
  <2> QED BY <2>1, ReturnRunsDown
<1> QED BY <1>1, <1>2

(* Every step of Exec and of its workers brings the query closer to its    *)
(* end, and touches no other query.                                        *)
LEMMA ProgressRunsDown ==
    ASSUME IInv, NEW q \in Query, Progress(q)
    PROVE  /\ StepsLeft(q)' < StepsLeft(q)
           /\ \A r \in Query : r # q => Kept(r)
<1> USE DEF IInv, QueryIInv
<1>1. /\ Attempts \in Nat /\ attempt[q] \in 1 .. Attempts /\ orphans[q] \in 0 .. Attempts
      /\ AttemptSteps(q) \in Nat
  BY QueryNumbers
<1>2. ASSUME NEW outcome \in Outcome, WorkerReturns(q, outcome)
      PROVE  StepsLeft(q)' < StepsLeft(q) /\ \A r \in Query : r # q => Kept(r)
  <2>1. \A r \in Query : r # q => Kept(r)
    BY <1>2 DEF WorkerReturns, Kept, QueryTyped
  <2>2. /\ phase[q] = "exec" /\ phase'[q] = "exec" /\ slot[q] = "pending" /\ slot'[q] # "pending"
        /\ attempt'[q] = attempt[q] /\ orphans'[q] = orphans[q]
    BY <1>2 DEF WorkerReturns, waiting, QueryTyped, Outcome, Faulty
  <2>3. StepsLeft(q) = 2 * (Attempts - attempt[q]) + 2 + orphans[q] + 1
    BY <2>2 DEF StepsLeft, AttemptSteps
  <2>4. StepsLeft(q)' = 2 * (Attempts - attempt[q]) + 1 + orphans[q] + 1
    BY <2>2 DEF StepsLeft, AttemptSteps
  <2> QED BY <1>1, <2>1, <2>3, <2>4
<1>3. CASE OrphanReturns(q)
  <2>1. \A r \in Query : r # q => Kept(r)
    BY <1>3 DEF OrphanReturns, Kept, AttemptsTyped
  <2>2. /\ phase'[q] = phase[q] /\ slot'[q] = slot[q] /\ attempt'[q] = attempt[q]
        /\ orphans[q] > 0 /\ orphans'[q] = orphans[q] - 1
    BY <1>3 DEF OrphanReturns, AttemptsTyped
  <2>3. phase[q] # "idle"
    BY <1>1, <2>2 DEF WorkersAccounted
  <2>4. AttemptSteps(q)' = AttemptSteps(q)
    BY <2>2 DEF AttemptSteps
  <2>5. CASE phase[q] = "exec"
    <3>1. /\ StepsLeft(q) = AttemptSteps(q) + orphans[q] + 1
          /\ StepsLeft(q)' = AttemptSteps(q) + (orphans[q] - 1) + 1
      BY <2>2, <2>4, <2>5 DEF StepsLeft
    <3> QED BY <1>1, <2>1, <3>1
  <2>6. CASE phase[q] = "returned"
    <3>1. StepsLeft(q) = orphans[q] + 1 /\ StepsLeft(q)' = (orphans[q] - 1) + 1
      BY <2>2, <2>6 DEF StepsLeft
    <3> QED BY <1>1, <2>1, <3>1
  <2> QED BY <2>3, <2>5, <2>6 DEF QueryTyped
<1>4. CASE Answered(q) \/ Refused(q) \/ ContextEnded(q)
  <2>1. /\ phase[q] = "exec" /\ phase' = [phase EXCEPT ![q] = "returned"]
        /\ attempt' = attempt /\ slot' = slot
        /\ orphans' = orphans \/ orphan(q)
    BY <1>4 DEF Answered, Refused, ContextEnded, return, waiting
  <2>2. phase'[q] = "returned" /\ \A r \in Query : r # q => Kept(r)
    BY <2>1 DEF Kept, orphan, QueryTyped, AttemptsTyped
  <2>3. \/ orphans'[q] = orphans[q]
        \/ slot[q] = "pending" /\ orphans'[q] = orphans[q] + 1
    BY <2>1 DEF orphan, AttemptsTyped
  <2> QED BY <2>1, <2>2, <2>3, ReturnRunsDown
<1>5. CASE AttemptFailed(q) \/ AttemptTimesOut(q)
  <2>1. phase[q] = "exec" /\ giveUpAttempt(q)
    BY <1>5 DEF AttemptFailed, AttemptTimesOut, waiting
  <2>2. \/ orphan(q)
        \/ slot[q] # "pending" /\ orphans' = orphans
    BY <1>5 DEF AttemptFailed, AttemptTimesOut
  <2>3. orphans'[q] = IF slot[q] = "pending" THEN orphans[q] + 1 ELSE orphans[q]
    BY <2>2 DEF orphan, AttemptsTyped
  <2>4. \A r \in Query : r # q => Kept(r)
    <3>1. \A r \in Query : r # q => orphans'[r] = orphans[r]
      BY <2>2 DEF orphan, AttemptsTyped
    <3>2. \A r \in Query : r # q =>
            phase'[r] = phase[r] /\ attempt'[r] = attempt[r] /\ slot'[r] = slot[r]
      BY <2>1 DEF giveUpAttempt, return, QueryTyped, AttemptsTyped
    <3> QED BY <3>1, <3>2 DEF Kept
  <2> QED BY <2>1, <2>3, <2>4, GiveUpRunsDown
<1>6. CASE Forget(q)
  <2>1. \A r \in Query : r # q => Kept(r)
    BY <1>6 DEF Forget, Kept, QueryTyped, AttemptsTyped
  <2>2. phase[q] = "returned" /\ phase'[q] = "idle"
    BY <1>6 DEF Forget, QueryTyped
  <2>3. StepsLeft(q) = orphans[q] + 1
    BY <2>2 DEF StepsLeft
  <2>4. StepsLeft(q)' = 0
    BY <2>2 DEF StepsLeft
  <2> QED BY <1>1, <2>1, <2>3, <2>4
<1> QED BY <1>2, <1>3, <1>4, <1>5, <1>6 DEF Progress

(* Exec of circuit.go and all its workers, the abandoned ones included,    *)
(* are done after at most 2 * attempts + 1 steps: whatever the order of    *)
(* answers, timers and ended contexts, every one of them brings the query  *)
(* closer to its end, and no step of another query sets it back.           *)
THEOREM QueryRunsDown ==
    Spec => /\ [](\A q \in Query : /\ StepsLeft(q) \in 0 .. 2 * Attempts + 1
                                   /\ StepsLeft(q) = 0 <=> phase[q] = "idle")
            /\ [][\A q \in Query : phase[q] # "idle" =>
                    /\ StepsLeft(q)' <= StepsLeft(q)
                    /\ Progress(q) => StepsLeft(q)' < StepsLeft(q)]_vars
<1>1. IInv => \A q \in Query : /\ StepsLeft(q) \in 0 .. 2 * Attempts + 1
                               /\ StepsLeft(q) = 0 <=> phase[q] = "idle"
  BY StepsLeftTyped
<1>2. IInv' => (\A q \in Query : /\ StepsLeft(q) \in 0 .. 2 * Attempts + 1
                                 /\ StepsLeft(q) = 0 <=> phase[q] = "idle")'
  BY <1>1, PTL
<1>3. ASSUME IInv, IInv', [Next]_vars
      PROVE  [\A q \in Query : phase[q] # "idle" =>
                /\ StepsLeft(q)' <= StepsLeft(q)
                /\ Progress(q) => StepsLeft(q)' < StepsLeft(q)]_vars
  <2> SUFFICES ASSUME NEW q \in Query, phase[q] # "idle"
               PROVE  /\ StepsLeft(q)' <= StepsLeft(q)
                      /\ Progress(q) => StepsLeft(q)' < StepsLeft(q)
    OBVIOUS
  <2>1. StepsLeft(q) \in Int /\ StepsLeft(q)' \in Int
    BY <1>1, <1>2, <1>3, SettingsAssumption
  <2>2. Progress(q) => StepsLeft(q)' < StepsLeft(q)
    BY <1>3, ProgressRunsDown
  <2>3. CASE Kept(q)
    BY <2>1, <2>2, <2>3, StepsKept
  <2>4. CASE Progress(q)
    BY <2>1, <2>2, <2>4
  <2>5. CASE Tick \/ UNCHANGED vars
    BY <2>3, <2>5 DEF Tick, vars, queryVars, Kept
  <2>6. ASSUME NEW r \in Query, Arrive(r) PROVE Kept(q)
    BY <1>3, <2>6 DEF Arrive, Admit, Bypass, return, Kept, IInv, QueryIInv, QueryTyped
  <2>7. ASSUME NEW r \in Query, ContextEnds(r) PROVE Kept(q)
    BY <2>7 DEF ContextEnds, Kept
  <2>8. ASSUME NEW r \in Query, Progress(r), r # q PROVE Kept(q)
    BY <1>3, <2>8, ProgressRunsDown
  <2> QED BY <1>3, <2>3, <2>4, <2>5, <2>6, <2>7, <2>8 DEF Next
<1> QED BY <1>1, <1>3, Invariance, PTL DEF Spec
=============================================================================
