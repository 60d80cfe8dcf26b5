------------------------------ MODULE DoHBridge ------------------------------
(***************************************************************************)
(* The encrypted DoH bridge of cmd/veladns/dohbridge.go: every query is    *)
(* offered to the providers in their order of preference; a provider that  *)
(* failed twice in a row is left alone for a while and then probed.        *)
(*                                                                         *)
(* ServeDNS runs concurrently for many queries.  A provider's backoff      *)
(* fields are guarded by its backoffMu: acquire, fail, succeed and the     *)
(* read of retryAt in record are atomic, and so is observe under the       *)
(* mutex of runtimeState; between them other queries may step.             *)
(*                                                                         *)
(* A point in time is kept as the time left until it; Tick counts all of   *)
(* them down.  The five seconds a request has are spent by its exchanges.  *)
(* The dial-address cache behind the bootstrapped providers only decides   *)
(* whether an exchange fails, which is a free choice here.                 *)
(***************************************************************************)
EXTENDS Backoff, FiniteSets

CONSTANTS
    Query,              \* the queries ServeDNS may handle at once
    N,                  \* the number of providers, in order of preference
    Bootstrapped,       \* how many of them are probed at startup
    dohFailureThreshold,
    InitialBackoff,     \* the first delay of jitterDoHBackoff
    MaxBackoff,         \* its maximum
    StepCap,            \* bound: backoffStep counts no further than this
    RequestBudget,      \* the timeout of ServeDNS's context
    ClientTimeout,      \* the timeout of a provider's HTTP client
    MaxFaults           \* bound: how often exchanges fail

ASSUME BridgeAssumption ==
    /\ N \in Nat \ {0}
    /\ Bootstrapped \in 0 .. N
    /\ dohFailureThreshold \in Nat \ {0, 1}
    /\ InitialBackoff \in Nat \ {0}
    /\ MaxBackoff \in Nat /\ MaxBackoff >= InitialBackoff
    /\ StepCap \in Nat \ {0}
    /\ RequestBudget \in Nat \ {0}
    /\ ClientTimeout \in Nat \ {0}
    /\ MaxFaults \in Nat

(* Three of five seconds: one exchange does not take all of a request's time. *)
ASSUME TimeoutAssumption == ClientTimeout < RequestBudget

(* From StepCap on every step has the same delay. *)
ASSUME BridgeStepCapAssumption ==
    exponentialDelay(InitialBackoff, MaxBackoff, StepCap) = MaxBackoff

Upstream == 1 .. N

VARIABLES
    backoffStep, failures, retryIn, probing,    \* per provider: struct dohUpstream
    shown,      \* per provider: the published time until a retry
    phase,      \* per query: "idle", "ask", "exchange", "record", "observe"
    pos,        \* per query: the provider of the loop of ServeDNS
    probe,      \* per query: permit.probe
    result,     \* per query: how the exchange at pos ended
    seen,       \* per query: the retryAt that record has read
    budget,     \* per query: what is left of the request's time
    late,       \* per query (history): time went by outside the exchanges
    tried,      \* per query (history): what came of each provider
    reply,      \* per query: what ServeDNS wrote
    faults      \* how often an exchange has failed so far

upstreamVars == <<backoffStep, failures, retryIn, probing>>
queryVars == <<phase, pos, probe, result, seen, budget, late, tried, reply>>
vars == <<upstreamVars, shown, queryVars, faults>>

Untried == [u \in Upstream |-> "untried"]

TypeOK ==
    /\ backoffStep \in [Upstream -> 0 .. StepCap]
    /\ failures \in [Upstream -> 0 .. dohFailureThreshold]
    /\ retryIn \in [Upstream -> 0 .. MaxBackoff]
    /\ probing \in [Upstream -> BOOLEAN]
    /\ shown \in [Upstream -> 0 .. MaxBackoff]
    /\ phase \in [Query -> {"idle", "ask", "exchange", "record", "observe"}]
    /\ pos \in [Query -> Upstream]
    /\ probe \in [Query -> BOOLEAN]
    /\ result \in [Query -> {"success", "failure", "skip"}]
    /\ seen \in [Query -> 0 .. MaxBackoff]
    /\ budget \in [Query -> 0 .. RequestBudget]
    /\ late \in [Query -> BOOLEAN]
    /\ tried \in [Query -> [Upstream -> {"untried", "success", "failure", "skip"}]]
    /\ reply \in [Query -> {"none", "answer", "servfail"}]
    /\ faults \in 0 .. MaxFaults

(* selectDoHUpstreams probes the bootstrapped providers once, before the   *)
(* bridge listens: each starts with the failure of that probe or without.  *)
Init ==
    /\ failures \in {f \in [Upstream -> {0, 1}] : \A u \in Upstream : u > Bootstrapped => f[u] = 0}
    /\ backoffStep = [u \in Upstream |-> 0]
    /\ retryIn = [u \in Upstream |-> 0]
    /\ probing = [u \in Upstream |-> FALSE]
    /\ shown = [u \in Upstream |-> 0]
    /\ phase = [q \in Query |-> "idle"]
    /\ pos = [q \in Query |-> 1]
    /\ probe = [q \in Query |-> FALSE]
    /\ result = [q \in Query |-> "skip"]
    /\ seen = [q \in Query |-> 0]
    /\ budget = [q \in Query |-> RequestBudget]
    /\ late = [q \in Query |-> FALSE]
    /\ tried = [q \in Query |-> Untried]
    /\ reply = [q \in Query |-> "none"]
    /\ faults = 0

-----------------------------------------------------------------------------
(* The operations of one provider, each under its backoffMu.               *)

closed(u) == backoffStep[u] = 0

denied(u) == ~closed(u) /\ (retryIn[u] > 0 \/ probing[u])

(* Mutant: the failures survive a success. *)
succeedKeepsFailures(u) ==
    /\ backoffStep' = [backoffStep EXCEPT ![u] = 0]
    /\ retryIn' = [retryIn EXCEPT ![u] = 0]
    /\ probing' = [probing EXCEPT ![u] = FALSE]
    /\ UNCHANGED failures

succeed(u) ==
    /\ backoffStep' = [backoffStep EXCEPT ![u] = 0]
    /\ failures' = [failures EXCEPT ![u] = 0]
    /\ retryIn' = [retryIn EXCEPT ![u] = 0]
    /\ probing' = [probing EXCEPT ![u] = FALSE]

(* Mutant: parking again forgets to end the probing. *)
parkKeepsProbing(u, step) ==
    /\ backoffStep' = [backoffStep EXCEPT ![u] = step]
    /\ \E delay \in jitterDoHBackoff(InitialBackoff, MaxBackoff, step) :
            retryIn' = [retryIn EXCEPT ![u] = delay]
    /\ UNCHANGED probing

(* The end of fail: wait before the next probe. *)
park(u, step) ==
    /\ backoffStep' = [backoffStep EXCEPT ![u] = step]
    /\ probing' = [probing EXCEPT ![u] = FALSE]
    /\ \E delay \in jitterDoHBackoff(InitialBackoff, MaxBackoff, step) :
            retryIn' = [retryIn EXCEPT ![u] = delay]

(* Mutant: the threshold is compared off by one. *)
failTooLate(u, p) ==
    IF closed(u)
    THEN /\ failures' = [failures EXCEPT ![u] = @ + 1]
         /\ IF failures[u] < dohFailureThreshold
            THEN UNCHANGED <<backoffStep, retryIn, probing>>
            ELSE park(u, 1)
    ELSE IF p /\ probing[u]
         THEN /\ park(u, Smaller(backoffStep[u] + 1, StepCap))
              /\ UNCHANGED failures
         ELSE UNCHANGED upstreamVars

(* Mutant: every failure of a parked provider raises its backoff. *)
failOfAnyQuery(u, p) ==
    IF closed(u)
    THEN /\ failures' = [failures EXCEPT ![u] = @ + 1]
         /\ IF failures[u] + 1 < dohFailureThreshold
            THEN UNCHANGED <<backoffStep, retryIn, probing>>
            ELSE park(u, 1)
    ELSE /\ park(u, Smaller(backoffStep[u] + 1, StepCap))
         /\ UNCHANGED failures

(* Unlike the circuit plugin's fail, a failure of a probe counts towards   *)
(* the threshold when the provider has been closed again in the meantime.  *)
fail(u, p) ==
    IF closed(u)
    THEN /\ failures' = [failures EXCEPT ![u] = @ + 1]
         /\ IF failures[u] + 1 < dohFailureThreshold
            THEN UNCHANGED <<backoffStep, retryIn, probing>>
            ELSE park(u, 1)
    ELSE IF p /\ probing[u]
         THEN /\ park(u, Smaller(backoffStep[u] + 1, StepCap))
              /\ UNCHANGED failures
         ELSE UNCHANGED upstreamVars

-----------------------------------------------------------------------------
(* ServeDNS and exchange, per query.                                       *)

Arrive(q) ==
    /\ phase[q] = "idle"
    /\ phase' = [phase EXCEPT ![q] = "ask"]
    /\ pos' = [pos EXCEPT ![q] = 1]
    /\ budget' = [budget EXCEPT ![q] = RequestBudget]
    /\ late' = [late EXCEPT ![q] = FALSE]
    /\ tried' = [tried EXCEPT ![q] = Untried]
    /\ reply' = [reply EXCEPT ![q] = "none"]
    /\ UNCHANGED <<upstreamVars, shown, probe, result, seen, faults>>

(* acquire refuses: the provider is in backoff or being probed. *)
Skip(q) ==
    /\ phase[q] = "ask" /\ denied(pos[q])
    /\ phase' = [phase EXCEPT ![q] = "record"]
    /\ result' = [result EXCEPT ![q] = "skip"]
    /\ UNCHANGED <<upstreamVars, shown, pos, probe, seen, budget, late, tried, reply, faults>>

(* acquire grants: with an open provider the query becomes its probe. *)
Acquire(q) ==
    /\ phase[q] = "ask" /\ ~denied(pos[q])
    /\ phase' = [phase EXCEPT ![q] = "exchange"]
    /\ probe' = [probe EXCEPT ![q] = ~closed(pos[q])]
    /\ probing' = IF closed(pos[q]) THEN probing ELSE [probing EXCEPT ![pos[q]] = TRUE]
    /\ UNCHANGED <<backoffStep, failures, retryIn, shown, pos, result, seen, budget, late,
                   tried, reply, faults>>

(* The exchange took some of the request's time, at most the client's      *)
(* timeout and never more than was left.                                   *)
spend(q, cost) ==
    /\ cost <= budget[q]
    /\ budget' = [budget EXCEPT ![q] = @ - cost]

(* A well-formed answer within both timeouts, whatever its rcode. *)
ExchangeSucceeds(q) ==
    /\ phase[q] = "exchange"
    /\ \E cost \in 0 .. ClientTimeout - 1 : cost < budget[q] /\ spend(q, cost)
    /\ succeed(pos[q])
    /\ phase' = [phase EXCEPT ![q] = "record"]
    /\ result' = [result EXCEPT ![q] = "success"]
    /\ UNCHANGED <<shown, pos, probe, seen, late, tried, reply, faults>>

(* Mutant: an exchange that the request's deadline ended is not reported,  *)
(* the way the circuit plugin treats an ended context.                     *)
ExchangeFailsSilently(q) ==
    /\ phase[q] = "exchange"
    /\ faults < MaxFaults \/ budget[q] = 0
    /\ faults' = Smaller(faults + 1, MaxFaults)
    /\ \E cost \in 0 .. ClientTimeout : spend(q, cost)
    /\ IF budget'[q] = 0 THEN UNCHANGED upstreamVars ELSE fail(pos[q], probe[q])
    /\ phase' = [phase EXCEPT ![q] = "record"]
    /\ result' = [result EXCEPT ![q] = "failure"]
    /\ UNCHANGED <<shown, pos, probe, seen, late, tried, reply>>

(* Mutant: the HTTP client has no timeout of its own, so that only the     *)
(* request's context ends an exchange.                                     *)
ExchangeFailsAtDeadline(q) ==
    /\ phase[q] = "exchange"
    /\ faults < MaxFaults \/ budget[q] = 0
    /\ faults' = Smaller(faults + 1, MaxFaults)
    /\ \E cost \in 0 .. RequestBudget : spend(q, cost)
    /\ fail(pos[q], probe[q])
    /\ phase' = [phase EXCEPT ![q] = "record"]
    /\ result' = [result EXCEPT ![q] = "failure"]
    /\ UNCHANGED <<shown, pos, probe, seen, late, tried, reply>>

(* Any error of exchangeOnce: connecting, HTTP status, decoding, or either *)
(* timeout.  With no time left there is no other outcome.                  *)
ExchangeFails(q) ==
    /\ phase[q] = "exchange"
    /\ faults < MaxFaults \/ budget[q] = 0
    /\ faults' = Smaller(faults + 1, MaxFaults)
    /\ \E cost \in 0 .. ClientTimeout : spend(q, cost)
    /\ fail(pos[q], probe[q])
    /\ phase' = [phase EXCEPT ![q] = "record"]
    /\ result' = [result EXCEPT ![q] = "failure"]
    /\ UNCHANGED <<shown, pos, probe, seen, late, tried, reply>>

(* The process is held up until the request's deadline has passed,         *)
(* wherever ServeDNS is.                                                   *)
Deadline(q) ==
    /\ phase[q] # "idle" /\ budget[q] > 0
    /\ faults < MaxFaults
    /\ faults' = faults + 1
    /\ budget' = [budget EXCEPT ![q] = 0]
    /\ late' = [late EXCEPT ![q] = TRUE]
    /\ UNCHANGED <<upstreamVars, shown, phase, pos, probe, result, seen, tried, reply>>

(* record reads retryAt in a critical section of its own. *)
Record(q) ==
    /\ phase[q] = "record"
    /\ seen' = [seen EXCEPT ![q] = retryIn[pos[q]]]
    /\ phase' = [phase EXCEPT ![q] = "observe"]
    /\ UNCHANGED <<upstreamVars, shown, pos, probe, result, budget, late, tried, reply, faults>>

(* observe publishes what record read; then the exchange is over. *)
observe(q) ==
    /\ phase[q] = "observe"
    /\ shown' = [shown EXCEPT ![pos[q]] = seen[q]]
    /\ tried' = [tried EXCEPT ![q][pos[q]] = result[q]]
    /\ UNCHANGED <<upstreamVars, probe, result, seen, budget, late, faults>>

(* ServeDNS writes its reply. *)
write(q, message) ==
    /\ reply' = [reply EXCEPT ![q] = message]
    /\ phase' = [phase EXCEPT ![q] = "idle"]
    /\ UNCHANGED pos

(* The provider answered. *)
Answer(q) ==
    /\ observe(q)
    /\ result[q] = "success"
    /\ write(q, "answer")

(* On to the next provider, while the request has time left. *)
TryNext(q) ==
    /\ observe(q)
    /\ result[q] # "success"
    /\ budget[q] > 0 /\ pos[q] < N
    /\ pos' = [pos EXCEPT ![q] = @ + 1]
    /\ phase' = [phase EXCEPT ![q] = "ask"]
    /\ UNCHANGED reply

(* Mutant: the first provider that fails decides. *)
GiveUpAtOnce(q) ==
    /\ observe(q)
    /\ result[q] # "success"
    /\ write(q, "servfail")

(* The list or the request's time is at its end: SERVFAIL. *)
GiveUp(q) ==
    /\ observe(q)
    /\ result[q] # "success"
    /\ budget[q] = 0 \/ pos[q] = N
    /\ write(q, "servfail")

less(t) == IF t > 0 THEN t - 1 ELSE 0

(* Time passes towards every retryAt, the copies of it included. *)
Tick ==
    /\ \/ \E u \in Upstream : retryIn[u] > 0 \/ shown[u] > 0
       \/ \E q \in Query : seen[q] > 0
    /\ retryIn' = [u \in Upstream |-> less(retryIn[u])]
    /\ shown' = [u \in Upstream |-> less(shown[u])]
    /\ seen' = [q \in Query |-> less(seen[q])]
    /\ UNCHANGED <<backoffStep, failures, probing, phase, pos, probe, result, budget, late,
                   tried, reply, faults>>

Serve(q) ==
    \/ Skip(q)
    \/ Acquire(q)
    \/ ExchangeSucceeds(q)
    \/ ExchangeFails(q)
    \/ Record(q)
    \/ Answer(q)
    \/ TryNext(q)
    \/ GiveUp(q)

Next ==
    \/ Tick
    \/ \E q \in Query : Arrive(q) \/ Serve(q) \/ Deadline(q)

Spec == Init /\ [][Next]_vars

(* Time passes, ServeDNS runs to its end (every exchange has a timeout),   *)
(* and queries keep coming.                                                *)
Fairness ==
    /\ WF_vars(Tick)
    /\ \A q \in Query : WF_vars(Serve(q)) /\ WF_vars(Arrive(q))

FairSpec == Spec /\ Fairness

-----------------------------------------------------------------------------
(* Properties.                                                             *)

(* A provider is parked exactly when its failures have reached the         *)
(* threshold; a closed one neither waits nor is probed, and nobody probes  *)
(* a provider during its wait.                                             *)
UpstreamsCoherent ==
    \A u \in Upstream :
        /\ ~closed(u) <=> failures[u] = dohFailureThreshold
        /\ closed(u) => ~probing[u] /\ retryIn[u] = 0
        /\ probing[u] => retryIn[u] = 0

probesOf(u) == {q \in Query : phase[q] = "exchange" /\ pos[q] = u /\ probe[q]}

(* A provider that is being probed has a query in exchange that will       *)
(* report, whether its request's time runs out or not: unlike the circuit  *)
(* plugin, exchange turns an ended context into fail, so no provider stays *)
(* skipped for ever.                                                       *)
EveryProbeReports == \A u \in Upstream : probing[u] => probesOf(u) # {}

(* ServeDNS respects the order of preference and gives up on nobody        *)
(* needlessly: before it answers from a provider, and before it says       *)
(* SERVFAIL with time left, it has been refused or failed by every         *)
(* provider before (or by all of them) in this very request.               *)
PreferenceRespected ==
    \A q \in Query :
        LET refused(u) == tried[q][u] \in {"failure", "skip"}
        IN  /\ reply[q] = "answer" => \A u \in 1 .. pos[q] - 1 : refused(u)
            /\ reply[q] = "servfail" /\ budget[q] > 0 => \A u \in Upstream : refused(u)

(* One provider that hangs does not cost a client its answer: although all *)
(* providers share one deadline, ServeDNS says SERVFAIL only after every   *)
(* provider has refused or failed the request, or two of them have really  *)
(* failed it - unless the whole process was held up.                       *)
OneHangLeavesTime ==
    \A q \in Query : reply[q] = "servfail" /\ ~late[q] =>
        \/ \A u \in Upstream : tried[q][u] \in {"failure", "skip"}
        \/ \E u, v \in Upstream : u # v /\ tried[q][u] = "failure" /\ tried[q][v] = "failure"

(* The preferred provider is used again some time after its failures stop. *)
PreferredRecovers == ~closed(1) ~> closed(1)

(* When nobody is between an exchange and its publication, the published   *)
(* metric is the time until the provider can be retried.                   *)
ShownIsCurrent ==
    \A u \in Upstream :
        (\A q \in Query : pos[q] = u => phase[q] \in {"idle", "ask"}) => shown[u] = retryIn[u]

(* Each provider implements the abstract breaker, seen from its fields. *)
breaker(u) ==
    INSTANCE Breaker WITH
        LevelCap <- StepCap,
        Delays <- [step \in 1 .. StepCap |-> jitterDoHBackoff(InitialBackoff, MaxBackoff, step)],
        state <- IF closed(u) THEN "closed" ELSE IF probing[u] THEN "halfopen" ELSE "open",
        level <- backoffStep[u],
        wait <- retryIn[u]

(* Whatever its queries do, each provider moves only as a breaker may: it  *)
(* is probed only after its whole wait, and only a probe's failure raises  *)
(* its backoff.                                                            *)
ImplementsBreaker ==
    /\ \A u \in Upstream : breaker(u)!Init
    /\ [][\A u \in Upstream : breaker(u)!Next \/ UNCHANGED breaker(u)!vars]_vars
=============================================================================
