------------------------------- MODULE Circuit -------------------------------
(***************************************************************************)
(* The AUTO_FORWARD circuit of internal/circuitplugin/circuit.go: the      *)
(* plugin that forwards a query to Mihomo for a fake IP, retries a lost    *)
(* attempt, and stops asking while Mihomo is unusable.                     *)
(*                                                                         *)
(* Many queries run Exec at the same time.  The circuit's own fields are   *)
(* guarded by a mutex, so acquire, succeed and fail are atomic; everything *)
(* else of Exec is local to its query.  A query's step therefore ends at   *)
(* its next access to the circuit or at the select of attemptOnce.         *)
(*                                                                         *)
(* retryAt is kept as the time left until it, which Tick counts down.      *)
(***************************************************************************)
EXTENDS Backoff, FiniteSets

CONSTANTS
    Query,              \* the queries that may be inside Exec at once
    Expiring,           \* the queries whose context may end inside Exec
    FailureThreshold,   \* failure_threshold
    Attempts,           \* attempts
    InitialBackoff,     \* initial_backoff_millis, in time units
    MaxBackoff,         \* max_backoff_millis, in time units
    StepCap,            \* bound: backoffStep counts no further than this
    MaxFaults           \* bound: how often Mihomo fails to answer properly

ASSUME ExpiringAssumption == Expiring \subseteq Query

(* initPlugin replaces every non-positive setting by a positive default    *)
(* and a maximum below the initial delay by five minutes; the template of  *)
(* the foreign path sets one second and thirty.                            *)
ASSUME SettingsAssumption ==
    /\ FailureThreshold \in Nat \ {0}
    /\ Attempts \in Nat \ {0}
    /\ InitialBackoff \in Nat \ {0}
    /\ MaxBackoff \in Nat /\ MaxBackoff >= InitialBackoff
    /\ StepCap \in Nat \ {0}
    /\ MaxFaults \in Nat

(* From StepCap on every step has the same delay, so nothing is lost by    *)
(* counting no further.                                                    *)
ASSUME StepCapAssumption ==
    exponentialDelay(InitialBackoff, MaxBackoff, StepCap) = MaxBackoff

VARIABLES
    consecutiveFailures, backoffStep, retryIn, probing,     \* struct circuit
    stateGauge, backoffGauge,                               \* its metrics
    phase,      \* per query: "idle", "exec" (inside Exec) or "returned"
    probe,      \* per query: permit.probe
    attempt,    \* per query: the attempt of the loop, from 1
    slot,       \* per query: what the attempt's worker sent, or "pending"
    orphans,    \* per query: workers still running whose attempt was given up
    ctxDone,    \* per query: ctx.Err() # nil
    response,   \* per query: whether the caller's context holds a response
    verdict,    \* per query: how Exec returned
    faults      \* how often Mihomo has failed so far

circuitVars == <<consecutiveFailures, backoffStep, retryIn, probing,
                 stateGauge, backoffGauge>>
queryVars == <<phase, probe, attempt, slot, orphans, ctxDone, response, verdict>>
vars == <<circuitVars, queryVars, faults>>

Closed == 0
Open == 1
HalfOpen == 2

(* What primary.Exec can come back with: a usable answer (NXDOMAIN and     *)
(* NODATA included), a failure rcode, no response at all, or an error.     *)
Faulty == {"failureRcode", "noResponse", "error"}
Outcome == {"answer"} \cup Faulty

TypeOK ==
    /\ consecutiveFailures \in 0 .. FailureThreshold
    /\ backoffStep \in 0 .. StepCap
    /\ retryIn \in 0 .. MaxBackoff
    /\ probing \in BOOLEAN
    /\ stateGauge \in {Closed, Open, HalfOpen}
    /\ backoffGauge \in 0 .. MaxBackoff
    /\ phase \in [Query -> {"idle", "exec", "returned"}]
    /\ probe \in [Query -> BOOLEAN]
    /\ attempt \in [Query -> 1 .. Attempts]
    /\ slot \in [Query -> Outcome \cup {"pending"}]
    /\ orphans \in [Query -> 0 .. Attempts]
    /\ ctxDone \in [Query -> BOOLEAN]
    /\ response \in [Query -> BOOLEAN]
    /\ verdict \in [Query -> {"none", "answered", "circuitOpen", "failed", "contextEnded"}]
    /\ faults \in 0 .. MaxFaults

Init ==
    /\ consecutiveFailures = 0
    /\ backoffStep = 0
    /\ retryIn = 0
    /\ probing = FALSE
    /\ stateGauge = Closed
    /\ backoffGauge = 0
    /\ phase = [q \in Query |-> "idle"]
    /\ probe = [q \in Query |-> FALSE]
    /\ attempt = [q \in Query |-> 1]
    /\ slot = [q \in Query |-> "pending"]
    /\ orphans = [q \in Query |-> 0]
    /\ ctxDone = [q \in Query |-> FALSE]
    /\ response = [q \in Query |-> FALSE]
    /\ verdict = [q \in Query |-> "none"]
    /\ faults = 0

-----------------------------------------------------------------------------
(* The three operations of the circuit, each under its mutex.              *)

closed == backoffStep = 0

(* Mutant: the comparison with retryAt is never true. *)
deniedOffByOne == ~closed /\ (retryIn >= 0 \/ probing)

(* Open, and still waiting or already probing: acquire denies the query. *)
denied == ~closed /\ (retryIn > 0 \/ probing)

(* acquire grants a permit; with an open circuit the query becomes the probe. *)
grant ==
    /\ ~denied
    /\ IF closed THEN UNCHANGED circuitVars
       ELSE /\ probing' = TRUE
            /\ stateGauge' = HalfOpen
            /\ backoffGauge' = 0
            /\ UNCHANGED <<consecutiveFailures, backoffStep, retryIn>>

(* Mutant: the failure count survives a success. *)
succeedKeepsCount ==
    /\ backoffStep' = 0
    /\ retryIn' = 0
    /\ probing' = FALSE
    /\ stateGauge' = Closed
    /\ backoffGauge' = 0
    /\ UNCHANGED consecutiveFailures

succeed ==
    /\ consecutiveFailures' = 0
    /\ backoffStep' = 0
    /\ retryIn' = 0
    /\ probing' = FALSE
    /\ stateGauge' = Closed
    /\ backoffGauge' = 0

(* Mutant: opening again forgets to end the probing. *)
openKeepsProbing(step) ==
    /\ backoffStep' = step
    /\ stateGauge' = Open
    /\ \E delay \in jitterDelay(exponentialDelay(InitialBackoff, MaxBackoff, step), MaxBackoff) :
            retryIn' = delay /\ backoffGauge' = delay
    /\ UNCHANGED probing

(* The end of fail: wait before the next probe. *)
open(step) ==
    /\ backoffStep' = step
    /\ probing' = FALSE
    /\ stateGauge' = Open
    /\ \E delay \in jitterDelay(exponentialDelay(InitialBackoff, MaxBackoff, step), MaxBackoff) :
            retryIn' = delay /\ backoffGauge' = delay

(* Mutant: every failure while the circuit is open raises the backoff. *)
failOfAnyQuery(p) ==
    IF closed
    THEN IF p THEN UNCHANGED circuitVars
         ELSE /\ consecutiveFailures' = consecutiveFailures + 1
              /\ IF consecutiveFailures + 1 < FailureThreshold
                 THEN UNCHANGED <<backoffStep, retryIn, probing, stateGauge, backoffGauge>>
                 ELSE open(1)
    ELSE /\ open(Smaller(backoffStep + 1, StepCap))
         /\ UNCHANGED consecutiveFailures

(* A failure changes nothing when it is a late probe of an episode that is *)
(* over, or a query that was let through before the circuit opened.        *)
fail(p) ==
    IF closed
    THEN IF p THEN UNCHANGED circuitVars
         ELSE /\ consecutiveFailures' = consecutiveFailures + 1
              /\ IF consecutiveFailures + 1 < FailureThreshold
                 THEN UNCHANGED <<backoffStep, retryIn, probing, stateGauge, backoffGauge>>
                 ELSE open(1)
    ELSE IF ~p \/ ~probing THEN UNCHANGED circuitVars
         ELSE /\ open(Smaller(backoffStep + 1, StepCap))
              /\ UNCHANGED consecutiveFailures

-----------------------------------------------------------------------------
(* Exec, per query.                                                        *)

(* The query is in the loop of Exec, inside the select of attemptOnce. *)
waiting(q) == phase[q] = "exec"

(* Exec returns: the caller's context holds a response or has lost it. *)
return(q, how) ==
    /\ phase' = [phase EXCEPT ![q] = "returned"]
    /\ verdict' = [verdict EXCEPT ![q] = how]
    /\ response' = [response EXCEPT ![q] = how = "answered"]

(* The circuit lets the query through; the first attempt's worker starts.  *)
(* fakeip_query drops any earlier response before it calls the circuit.    *)
Admit(q) ==
    /\ phase[q] = "idle"
    /\ grant
    /\ phase' = [phase EXCEPT ![q] = "exec"]
    /\ probe' = [probe EXCEPT ![q] = ~closed]
    /\ UNCHANGED <<attempt, slot, orphans, ctxDone, response, verdict, faults>>

(* The circuit denies the query: errCircuitOpen. *)
Bypass(q) ==
    /\ phase[q] = "idle"
    /\ denied
    /\ return(q, "circuitOpen")
    /\ UNCHANGED <<circuitVars, probe, attempt, slot, orphans, ctxDone, faults>>

(* External: the forward plugin finishes the current attempt and sends its *)
(* result through the buffered channel.                                    *)
WorkerReturns(q, outcome) ==
    /\ waiting(q) /\ slot[q] = "pending"
    /\ outcome \in Faulty => faults < MaxFaults
    /\ faults' = IF outcome \in Faulty THEN faults + 1 ELSE faults
    /\ slot' = [slot EXCEPT ![q] = outcome]
    /\ UNCHANGED <<circuitVars, phase, probe, attempt, orphans, ctxDone, response, verdict>>

(* Mutant: the worker runs on the caller's query context, not on a copy. *)
OrphanReturnsShared(q) ==
    /\ orphans[q] > 0
    /\ orphans' = [orphans EXCEPT ![q] = @ - 1]
    /\ response' = [response EXCEPT ![q] = TRUE]
    /\ UNCHANGED <<circuitVars, phase, probe, attempt, slot, ctxDone, verdict, faults>>

(* A worker whose attempt was given up finishes late.  Its answer stays in *)
(* the private copy of the query context.                                  *)
OrphanReturns(q) ==
    /\ orphans[q] > 0
    /\ orphans' = [orphans EXCEPT ![q] = @ - 1]
    /\ UNCHANGED <<circuitVars, phase, probe, attempt, slot, ctxDone, response, verdict, faults>>

(* A usable answer: hand it to the caller and close the circuit. *)
Answered(q) ==
    /\ waiting(q) /\ slot[q] = "answer"
    /\ succeed
    /\ return(q, "answered")
    /\ UNCHANGED <<probe, attempt, slot, orphans, ctxDone, faults>>

(* SERVFAIL or REFUSED is a verdict: no retry. *)
Refused(q) ==
    /\ waiting(q) /\ slot[q] = "failureRcode"
    /\ fail(probe[q])
    /\ return(q, "failed")
    /\ UNCHANGED <<probe, attempt, slot, orphans, ctxDone, faults>>

(* Mutant: the loop's bound is off by one. *)
giveUpAttemptTooLate(q) ==
    IF attempt[q] <= Attempts
    THEN /\ attempt' = [attempt EXCEPT ![q] = @ + 1]
         /\ slot' = [slot EXCEPT ![q] = "pending"]
         /\ UNCHANGED <<circuitVars, phase, response, verdict>>
    ELSE /\ fail(probe[q])
         /\ return(q, "failed")
         /\ UNCHANGED <<attempt, slot>>

(* Mutant: attempts are not counted. *)
giveUpAttemptUncounted(q) ==
    IF attempt[q] < Attempts
    THEN /\ slot' = [slot EXCEPT ![q] = "pending"]
         /\ UNCHANGED <<circuitVars, phase, response, verdict, attempt>>
    ELSE /\ fail(probe[q])
         /\ return(q, "failed")
         /\ UNCHANGED <<attempt, slot>>

(* The rest of the loop body after an attempt that brought nothing, while  *)
(* the query's context is alive: the next attempt, or fail after the last. *)
giveUpAttempt(q) ==
    IF attempt[q] < Attempts
    THEN /\ attempt' = [attempt EXCEPT ![q] = @ + 1]
         /\ slot' = [slot EXCEPT ![q] = "pending"]
         /\ UNCHANGED <<circuitVars, phase, response, verdict>>
    ELSE /\ fail(probe[q])
         /\ return(q, "failed")
         /\ UNCHANGED <<attempt, slot>>

(* The attempt failed or came back empty. *)
AttemptFailed(q) ==
    /\ waiting(q) /\ slot[q] \in {"noResponse", "error"}
    /\ ~ctxDone[q]
    /\ giveUpAttempt(q)
    /\ UNCHANGED <<probe, orphans, ctxDone, faults>>

(* A worker that has not returned yet when its attempt is given up. *)
orphan(q) == orphans' = [orphans EXCEPT ![q] = IF slot[q] = "pending" THEN @ + 1 ELSE @]

(* The attempt's timer fires.  Its worker goes on if it has not returned;  *)
(* if it returned at the same moment, select may still choose the timer.   *)
AttemptTimesOut(q) ==
    /\ waiting(q)
    /\ ~ctxDone[q]
    /\ faults < MaxFaults
    /\ faults' = faults + 1
    /\ orphan(q)
    /\ giveUpAttempt(q)
    /\ UNCHANGED <<probe, ctxDone>>

(* The query's context has ended and the attempt brought nothing: Exec     *)
(* returns the cause and tells the circuit neither success nor failure.    *)
ContextEnded(q) ==
    /\ waiting(q) /\ ctxDone[q]
    /\ return(q, "contextEnded")
    /\ orphan(q)
    /\ UNCHANGED <<circuitVars, probe, attempt, slot, ctxDone, faults>>

(* The deadline of the request passes, or its client goes away. *)
ContextEnds(q) ==
    /\ q \in Expiring
    /\ waiting(q) /\ ~ctxDone[q]
    /\ ctxDone' = [ctxDone EXCEPT ![q] = TRUE]
    /\ UNCHANGED <<circuitVars, phase, probe, attempt, slot, orphans, response, verdict, faults>>

(* The caller is done with the query and its last worker is gone; its name *)
(* is free for another query.                                              *)
Forget(q) ==
    /\ phase[q] = "returned" /\ orphans[q] = 0
    /\ phase' = [phase EXCEPT ![q] = "idle"]
    /\ probe' = [probe EXCEPT ![q] = FALSE]
    /\ attempt' = [attempt EXCEPT ![q] = 1]
    /\ slot' = [slot EXCEPT ![q] = "pending"]
    /\ ctxDone' = [ctxDone EXCEPT ![q] = FALSE]
    /\ response' = [response EXCEPT ![q] = FALSE]
    /\ verdict' = [verdict EXCEPT ![q] = "none"]
    /\ UNCHANGED <<circuitVars, orphans, faults>>

(* Time passes towards retryAt. *)
Tick ==
    /\ retryIn > 0
    /\ retryIn' = retryIn - 1
    /\ UNCHANGED <<consecutiveFailures, backoffStep, probing, stateGauge, backoffGauge,
                   queryVars, faults>>

Arrive(q) == Admit(q) \/ Bypass(q)

Progress(q) ==
    \/ \E outcome \in Outcome : WorkerReturns(q, outcome)
    \/ OrphanReturns(q)
    \/ Answered(q)
    \/ Refused(q)
    \/ AttemptFailed(q)
    \/ AttemptTimesOut(q)
    \/ ContextEnded(q)
    \/ Forget(q)

Next ==
    \/ Tick
    \/ \E q \in Query : Arrive(q) \/ Progress(q) \/ ContextEnds(q)

Spec == Init /\ [][Next]_vars

(* Time passes, Exec and the forward plugin under it run (the latter ends  *)
(* every exchange at its own five-second deadline), and clients keep       *)
(* asking.  Nothing is assumed of when contexts end or when Mihomo fails.  *)
Fairness ==
    /\ WF_vars(Tick)
    /\ \A q \in Query : WF_vars(Progress(q)) /\ WF_vars(Arrive(q))

FairSpec == Spec /\ Fairness

-----------------------------------------------------------------------------
(* Properties.                                                             *)

(* The fields that acquire, succeed and fail write one by one stay in step *)
(* with each other and with the two gauges an operator watches: the        *)
(* circuit is open exactly when the failures have reached the threshold, a *)
(* closed circuit neither waits nor probes, nothing probes during the      *)
(* wait, and the gauges show the state the fields are in.                  *)
CircuitCoherent ==
    /\ ~closed <=> consecutiveFailures = FailureThreshold
    /\ closed => ~probing /\ retryIn = 0
    /\ probing => retryIn = 0
    /\ stateGauge = IF closed THEN Closed ELSE IF probing THEN HalfOpen ELSE Open
    /\ retryIn <= backoffGauge
    /\ closed \/ probing => backoffGauge = 0

(* Every worker goroutine is accounted for: while Exec runs, fewer workers *)
(* have been given up than attempts were started, so a query never leaves  *)
(* more than Attempts of them behind; a query that is not in the plugin    *)
(* has none.                                                               *)
WorkersAccounted ==
    \A q \in Query :
        /\ phase[q] = "exec" => orphans[q] < attempt[q]
        /\ phase[q] = "idle" => orphans[q] = 0 /\ attempt[q] = 1 /\ slot[q] = "pending"

inFlightProbes == {q \in Query : waiting(q) /\ probe[q]}

(* While the circuit is half-open some query inside Exec still carries the *)
(* probe permit, so that some fail or succeed is yet to end the probing.   *)
ProbeHeld == probing => inFlightProbes # {}

(* The only step that can leave the circuit half-open with no probe inside *)
(* Exec is the return of a probe whose own context has ended.              *)
ProbeLostOnlyByContext ==
    [][ProbeHeld /\ ~ProbeHeld' =>
         \E q \in inFlightProbes : ctxDone[q] /\ ~waiting(q)']_vars

(* Once Exec has returned, the caller's context holds a response exactly   *)
(* when Exec reported success, whatever workers of abandoned attempts that *)
(* are still running bring home later.                                     *)
ResponseMatchesVerdict ==
    \A q \in Query : response[q] <=> verdict[q] = "answered"

(* An open circuit does not stay open for ever: when Mihomo has stopped    *)
(* failing and clients keep asking, a probe gets through and closes it.    *)
Recovers == ~closed ~> closed

(* An open circuit whose probes are not lost recovers, even if some        *)
(* requests end inside Exec: it stays open for ever only in a half-open    *)
(* state that no probe is left to end.                                     *)
RecoversUnlessStranded == ~closed ~> (closed \/ ~ProbeHeld)

(* The circuit implements the abstract breaker, seen from its fields. *)
breaker ==
    INSTANCE Breaker WITH
        LevelCap <- StepCap,
        Delays <- [step \in 1 .. StepCap |->
            jitterDelay(exponentialDelay(InitialBackoff, MaxBackoff, step), MaxBackoff)],
        state <- IF closed THEN "closed" ELSE IF probing THEN "halfopen" ELSE "open",
        level <- backoffStep,
        wait <- retryIn

(* However queries, late answers and context ends interleave, the circuit  *)
(* moves only the way a breaker may: it half-opens only after the whole    *)
(* wait, and only a probe's failure raises the backoff.                    *)
ImplementsBreaker == breaker!Spec
=============================================================================
