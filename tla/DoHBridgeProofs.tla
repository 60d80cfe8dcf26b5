--------------------------- MODULE DoHBridgeProofs ---------------------------
(***************************************************************************)
(* Theorems about DoHBridge, for any number of providers and queries and   *)
(* any delays and timeouts.  The inductive invariant joins the provider    *)
(* side (UpstreamsTyped, UpstreamsCoherent), the query side (QueriesTyped),*)
(* the link between them (EveryProbeReports), and the invariant of the     *)
(* loop of ServeDNS (LoopInv).                                             *)
(***************************************************************************)
EXTENDS DoHBridge, TLAPS

UpstreamsTyped ==
    /\ backoffStep \in [Upstream -> 0 .. StepCap]
    /\ failures \in [Upstream -> 0 .. dohFailureThreshold]
    /\ retryIn \in [Upstream -> 0 .. MaxBackoff]

ProbingTyped == probing \in [Upstream -> BOOLEAN]

UpstreamIInv == UpstreamsTyped /\ ProbingTyped /\ UpstreamsCoherent

TimersTyped ==
    /\ shown \in [Upstream -> 0 .. MaxBackoff]
    /\ seen \in [Query -> 0 .. MaxBackoff]
    /\ budget \in [Query -> 0 .. RequestBudget]
    /\ faults \in 0 .. MaxFaults

Result == {"success", "failure", "skip"}

QueriesTyped ==
    /\ phase \in [Query -> {"idle", "ask", "exchange", "record", "observe"}]
    /\ pos \in [Query -> Upstream]
    /\ result \in [Query -> Result]
    /\ reply \in [Query -> {"none", "answer", "servfail"}]
    /\ tried \in [Query -> [Upstream -> {"untried"} \cup Result]]

FlagsTyped == probe \in [Query -> BOOLEAN] /\ late \in [Query -> BOOLEAN]

(* While ServeDNS is in its loop it has not replied, and every provider    *)
(* before the current one has refused or failed.                           *)
LoopInv ==
    \A q \in Query :
        /\ phase[q] # "idle" =>
            /\ reply[q] = "none"
            /\ \A u \in 1 .. pos[q] - 1 : tried[q][u] \in {"failure", "skip"}

IInv ==
    /\ UpstreamIInv
    /\ TimersTyped
    /\ QueriesTyped
    /\ FlagsTyped
    /\ EveryProbeReports
    /\ LoopInv
    /\ PreferenceRespected

-----------------------------------------------------------------------------
(* Whatever the step, jitterDoHBackoff returns a delay between zero and    *)
(* the maximum.                                                            *)
LEMMA DoHJitterBounded ==
    ASSUME NEW initial, NEW maximum \in Nat, NEW step
    PROVE  jitterDoHBackoff(initial, maximum, step) \subseteq 0 .. maximum
BY DEF jitterDoHBackoff

(* succeed leaves its provider closed and touches no other. *)
LEMMA SucceedCoherent ==
    ASSUME UpstreamIInv, NEW u \in Upstream, succeed(u)
    PROVE  /\ UpstreamIInv'
           /\ ~probing'[u]
           /\ \A v \in Upstream : v # u => probing'[v] = probing[v]
<1>1. ~probing'[u] /\ \A v \in Upstream : v # u => probing'[v] = probing[v]
  BY DEF succeed, UpstreamIInv, ProbingTyped
<1>2. ProbingTyped'
  BY DEF succeed, UpstreamIInv, ProbingTyped
<1>3. UpstreamsTyped'
  BY BridgeAssumption DEF succeed, UpstreamIInv, UpstreamsTyped
<1>4. UpstreamsCoherent'
  <2>1. SUFFICES ASSUME NEW v \in Upstream
                 PROVE  /\ ~closed(v)' <=> failures'[v] = dohFailureThreshold
                        /\ closed(v)' => ~probing'[v] /\ retryIn'[v] = 0
                        /\ probing'[v] => retryIn'[v] = 0
    BY DEF UpstreamsCoherent
  <2>2. CASE v = u
    <3>1. backoffStep'[v] = 0 /\ failures'[v] = 0 /\ retryIn'[v] = 0
      BY <2>2 DEF succeed, UpstreamIInv, UpstreamsTyped
    <3> QED BY <2>2, <3>1, <1>1, BridgeAssumption DEF closed
  <2>3. CASE v # u
    <3>1. /\ backoffStep'[v] = backoffStep[v] /\ failures'[v] = failures[v]
          /\ retryIn'[v] = retryIn[v]
      BY <2>3 DEF succeed, UpstreamIInv, UpstreamsTyped
    <3> QED BY <2>3, <3>1, <1>1 DEF closed, UpstreamIInv, UpstreamsCoherent
  <2> QED BY <2>2, <2>3
<1> QED BY <1>1, <1>2, <1>3, <1>4 DEF UpstreamIInv

(* The end of fail leaves its provider parked and not probed, and touches  *)
(* no other.                                                               *)
LEMMA ParkCoherent ==
    ASSUME UpstreamIInv, NEW u \in Upstream, NEW step \in 1 .. StepCap, park(u, step),
           failures' \in [Upstream -> 0 .. dohFailureThreshold],
           failures'[u] = dohFailureThreshold,
           \A v \in Upstream : v # u => failures'[v] = failures[v]
    PROVE  /\ UpstreamIInv'
           /\ ~probing'[u]
           /\ \A v \in Upstream : v # u => probing'[v] = probing[v]
<1>1. PICK delay \in jitterDoHBackoff(InitialBackoff, MaxBackoff, step) :
            retryIn' = [retryIn EXCEPT ![u] = delay]
  BY DEF park
<1>2. delay \in 0 .. MaxBackoff
  BY DoHJitterBounded, BridgeAssumption
<1>3. backoffStep' = [backoffStep EXCEPT ![u] = step]
  BY DEF park
<1>4. ~probing'[u] /\ \A v \in Upstream : v # u => probing'[v] = probing[v]
  BY DEF park, UpstreamIInv, ProbingTyped
<1>5. ProbingTyped'
  BY DEF park, UpstreamIInv, ProbingTyped
<1>6. UpstreamsTyped'
  BY <1>1, <1>2, <1>3, BridgeAssumption DEF UpstreamIInv, UpstreamsTyped
<1>7. UpstreamsCoherent'
  <2>1. SUFFICES ASSUME NEW v \in Upstream
                 PROVE  /\ ~closed(v)' <=> failures'[v] = dohFailureThreshold
                        /\ closed(v)' => ~probing'[v] /\ retryIn'[v] = 0
                        /\ probing'[v] => retryIn'[v] = 0
    BY DEF UpstreamsCoherent
  <2>2. CASE v = u
    <3>1. ~closed(v)'
      BY <2>2, <1>3, BridgeAssumption DEF UpstreamIInv, UpstreamsTyped, closed
    <3> QED BY <2>2, <3>1, <1>4
  <2>3. CASE v # u
    <3>1. /\ backoffStep'[v] = backoffStep[v] /\ failures'[v] = failures[v]
          /\ retryIn'[v] = retryIn[v]
      BY <2>3, <1>1, <1>3 DEF UpstreamIInv, UpstreamsTyped
    <3> QED BY <2>3, <3>1, <1>4 DEF closed, UpstreamIInv, UpstreamsCoherent
  <2> QED BY <2>2, <2>3
<1> QED BY <1>4, <1>5, <1>6, <1>7 DEF UpstreamIInv

(* fail keeps every provider coherent; reported by a probe, it ends the    *)
(* probing of its provider.                                                *)
LEMMA FailCoherent ==
    ASSUME UpstreamIInv, NEW u \in Upstream, NEW p \in BOOLEAN, fail(u, p)
    PROVE  /\ UpstreamIInv'
           /\ p => ~probing'[u]
           /\ probing'[u] => probing[u]
           /\ \A v \in Upstream : v # u => probing'[v] = probing[v]
<1>1. CASE closed(u) /\ failures[u] + 1 < dohFailureThreshold
  <2>1. /\ failures' = [failures EXCEPT ![u] = @ + 1]
        /\ UNCHANGED <<backoffStep, retryIn, probing>>
    BY <1>1 DEF fail
  <2>2. ~probing[u]
    BY <1>1 DEF UpstreamIInv, UpstreamsCoherent
  <2>3. UpstreamsTyped'
    BY <1>1, <2>1, BridgeAssumption DEF UpstreamIInv, UpstreamsTyped
  <2>4. UpstreamsCoherent'
    BY <1>1, <2>1, BridgeAssumption DEF UpstreamIInv, UpstreamsTyped, UpstreamsCoherent, closed
  <2>5. ProbingTyped'
    BY <2>1 DEF UpstreamIInv, ProbingTyped
  <2> QED BY <2>1, <2>2, <2>3, <2>4, <2>5 DEF UpstreamIInv
<1>2. CASE closed(u) /\ ~(failures[u] + 1 < dohFailureThreshold)
  <2>1. failures' = [failures EXCEPT ![u] = @ + 1] /\ park(u, 1)
    BY <1>2 DEF fail
  <2>2. failures[u] + 1 = dohFailureThreshold
    BY <1>2, BridgeAssumption DEF UpstreamIInv, UpstreamsTyped, UpstreamsCoherent
  <2>3. /\ failures' \in [Upstream -> 0 .. dohFailureThreshold]
        /\ failures'[u] = dohFailureThreshold
        /\ \A v \in Upstream : v # u => failures'[v] = failures[v]
    BY <2>1, <2>2, BridgeAssumption DEF UpstreamIInv, UpstreamsTyped
  <2>4. 1 \in 1 .. StepCap
    BY BridgeAssumption
  <2> QED BY <2>1, <2>3, <2>4, ParkCoherent
<1>3. CASE ~closed(u) /\ p /\ probing[u]
  <2>1. park(u, Smaller(backoffStep[u] + 1, StepCap)) /\ UNCHANGED failures
    BY <1>3 DEF fail
  <2>2. Smaller(backoffStep[u] + 1, StepCap) \in 1 .. StepCap
    BY BridgeAssumption DEF UpstreamIInv, UpstreamsTyped, Smaller
  <2>3. /\ failures' \in [Upstream -> 0 .. dohFailureThreshold]
        /\ failures'[u] = dohFailureThreshold
    BY <1>3, <2>1 DEF UpstreamIInv, UpstreamsTyped, UpstreamsCoherent
  <2> QED BY <2>1, <2>2, <2>3, ParkCoherent
<1>4. CASE ~closed(u) /\ ~(p /\ probing[u])
  <2>1. UNCHANGED upstreamVars
    BY <1>4 DEF fail
  <2> QED
    BY <1>4, <2>1 DEF upstreamVars, UpstreamIInv, UpstreamsTyped, ProbingTyped, UpstreamsCoherent,
                      closed
<1> QED BY <1>1, <1>2, <1>3, <1>4

(* Steps that leave the providers alone keep their part. *)
LEMMA UpstreamUnchanged ==
    ASSUME UpstreamIInv, UNCHANGED upstreamVars
    PROVE  UpstreamIInv'
BY DEF UpstreamIInv, UpstreamsTyped, ProbingTyped, UpstreamsCoherent, closed, upstreamVars

(* Steps that neither touch the providers nor end an exchange keep the     *)
(* link between probes and queries.                                        *)
LEMMA ProbesUnchanged ==
    ASSUME EveryProbeReports, UNCHANGED probing, NEW q \in Query, phase[q] # "exchange",
           \A r \in Query : r # q => phase'[r] = phase[r] /\ pos'[r] = pos[r],
           UNCHANGED probe
    PROVE  EveryProbeReports'
BY DEF EveryProbeReports, probesOf

-----------------------------------------------------------------------------
(* The inductive invariant implies the properties. *)
LEMMA IInvImplies ==
    IInv => TypeOK /\ UpstreamsCoherent /\ EveryProbeReports /\ PreferenceRespected
BY DEF IInv, UpstreamIInv, UpstreamsTyped, ProbingTyped, TimersTyped, QueriesTyped, Result,
       FlagsTyped, TypeOK

(* The initial states satisfy the inductive invariant. *)
LEMMA InitIInv == Init => IInv
<1> SUFFICES ASSUME Init PROVE IInv
  OBVIOUS
<1>1. \A u \in Upstream : ~probing[u]
  BY DEF Init
<1>2. ProbingTyped /\ FlagsTyped
  BY DEF Init, ProbingTyped, FlagsTyped
<1>3. UpstreamsTyped
  BY BridgeAssumption DEF Init, UpstreamsTyped
<1>4. UpstreamsCoherent
  BY <1>1, BridgeAssumption DEF Init, UpstreamsCoherent, closed
<1>5. TimersTyped
  BY BridgeAssumption DEF Init, TimersTyped
<1>6. QueriesTyped
  BY BridgeAssumption DEF Init, QueriesTyped, Untried, Upstream, Result
<1>7. EveryProbeReports
  BY <1>1 DEF EveryProbeReports
<1>8. LoopInv /\ PreferenceRespected
  BY DEF Init, LoopInv, PreferenceRespected
<1> QED
  BY <1>2, <1>3, <1>4, <1>5, <1>6, <1>7, <1>8 DEF IInv, UpstreamIInv

(* Every step keeps the inductive invariant. *)
LEMMA NextIInv == IInv /\ [Next]_vars => IInv'
<1> SUFFICES ASSUME IInv, [Next]_vars PROVE IInv'
  OBVIOUS
<1> USE DEF IInv
<1>1. CASE UNCHANGED vars
  <2>1. UpstreamIInv'
    BY <1>1, UpstreamUnchanged DEF vars
  <2>2. TimersTyped' /\ QueriesTyped' /\ FlagsTyped'
    BY <1>1 DEF vars, queryVars, TimersTyped, QueriesTyped, FlagsTyped
  <2>3. EveryProbeReports' /\ LoopInv' /\ PreferenceRespected'
    BY <1>1 DEF vars, queryVars, upstreamVars, EveryProbeReports, probesOf, LoopInv,
                PreferenceRespected
  <2> QED BY <2>1, <2>2, <2>3
<1>2. CASE Tick
  <2>1. /\ retryIn' = [u \in Upstream |-> less(retryIn[u])]
        /\ shown' = [u \in Upstream |-> less(shown[u])]
        /\ seen' = [q \in Query |-> less(seen[q])]
        /\ UNCHANGED <<backoffStep, failures, probing, phase, pos, probe, result, budget, late,
                       tried, reply, faults>>
    BY <1>2 DEF Tick
  <2>2. \A t \in 0 .. MaxBackoff : less(t) \in 0 .. MaxBackoff /\ (t = 0 => less(t) = 0)
    BY BridgeAssumption DEF less
  <2>3. UpstreamsTyped'
    BY <2>1, <2>2 DEF UpstreamIInv, UpstreamsTyped
  <2>4. UpstreamsCoherent'
    BY <2>1, <2>2 DEF UpstreamIInv, UpstreamsTyped, UpstreamsCoherent, closed
  <2>5. ProbingTyped' /\ FlagsTyped' /\ QueriesTyped'
    BY <2>1 DEF UpstreamIInv, ProbingTyped, FlagsTyped, QueriesTyped
  <2>6. TimersTyped'
    BY <2>1, <2>2 DEF TimersTyped
  <2>7. EveryProbeReports' /\ LoopInv' /\ PreferenceRespected'
    BY <2>1 DEF EveryProbeReports, probesOf, LoopInv, PreferenceRespected
  <2> QED BY <2>3, <2>4, <2>5, <2>6, <2>7 DEF UpstreamIInv
<1>3. ASSUME NEW q \in Query, Arrive(q)
      PROVE  IInv'
  <2>1. UpstreamIInv'
    BY <1>3, UpstreamUnchanged DEF Arrive
  <2>2. TimersTyped'
    BY <1>3, BridgeAssumption DEF Arrive, TimersTyped
  <2>3. QueriesTyped' /\ FlagsTyped'
    BY <1>3, BridgeAssumption DEF Arrive, QueriesTyped, FlagsTyped, Untried, Upstream
  <2>4. EveryProbeReports'
    <3>1. \A r \in Query : r # q => phase'[r] = phase[r] /\ pos'[r] = pos[r]
      BY <1>3 DEF Arrive, QueriesTyped
    <3> QED BY <1>3, <3>1, ProbesUnchanged DEF Arrive, upstreamVars
  <2>5. LoopInv' /\ PreferenceRespected'
    BY <1>3 DEF Arrive, LoopInv, PreferenceRespected, QueriesTyped
  <2> QED BY <2>1, <2>2, <2>3, <2>4, <2>5
<1>4. ASSUME NEW q \in Query, Skip(q)
      PROVE  IInv'
  <2>1. UpstreamIInv'
    BY <1>4, UpstreamUnchanged DEF Skip
  <2>2. TimersTyped' /\ QueriesTyped' /\ FlagsTyped'
    BY <1>4 DEF Skip, TimersTyped, QueriesTyped, FlagsTyped, Result
  <2>3. EveryProbeReports'
    <3>1. \A r \in Query : r # q => phase'[r] = phase[r] /\ pos'[r] = pos[r]
      BY <1>4 DEF Skip, QueriesTyped
    <3> QED BY <1>4, <3>1, ProbesUnchanged DEF Skip, upstreamVars
  <2>4. LoopInv' /\ PreferenceRespected'
    BY <1>4 DEF Skip, LoopInv, PreferenceRespected, QueriesTyped
  <2> QED BY <2>1, <2>2, <2>3, <2>4
<1>5. ASSUME NEW q \in Query, Acquire(q)
      PROVE  IInv'
  <2> DEFINE u == pos[q]
  <2>1. /\ u \in Upstream
        /\ UNCHANGED <<backoffStep, failures, retryIn, shown, pos, result, seen, budget, late,
                       tried, reply, faults>>
    BY <1>5 DEF Acquire, QueriesTyped
  <2>2. QueriesTyped' /\ TimersTyped' /\ FlagsTyped'
    BY <1>5 DEF Acquire, QueriesTyped, TimersTyped, FlagsTyped, closed
  <2>3. CASE closed(u)
    <3>1. probing' = probing
      BY <1>5, <2>3 DEF Acquire
    <3>2. UpstreamIInv'
      BY <2>1, <3>1, UpstreamUnchanged DEF upstreamVars
    <3>3. \A r \in Query : r # q => phase'[r] = phase[r] /\ probe'[r] = probe[r]
      BY <1>5 DEF Acquire, QueriesTyped, FlagsTyped
    <3>4. phase[q] # "exchange"
      BY <1>5 DEF Acquire
    <3>5. EveryProbeReports'
      BY <2>1, <3>1, <3>3, <3>4 DEF EveryProbeReports, probesOf
    <3>6. LoopInv' /\ PreferenceRespected'
      BY <1>5, <2>1 DEF Acquire, LoopInv, PreferenceRespected, QueriesTyped
    <3> QED BY <2>2, <3>2, <3>5, <3>6
  <2>4. CASE ~closed(u)
    <3>1. probing' = [probing EXCEPT ![u] = TRUE]
      BY <1>5, <2>4 DEF Acquire
    <3>2. ~(retryIn[u] > 0)
      BY <1>5, <2>4 DEF Acquire, denied
    <3>3. retryIn[u] = 0
      BY <2>1, <3>2, BridgeAssumption DEF UpstreamIInv, UpstreamsTyped
    <3>4. ProbingTyped'
      BY <2>1, <3>1 DEF UpstreamIInv, ProbingTyped
    <3>5. \A v \in Upstream : v # u => probing'[v] = probing[v]
      BY <3>1 DEF UpstreamIInv, ProbingTyped
    <3>6. UpstreamsCoherent'
      <4>1. SUFFICES ASSUME NEW v \in Upstream
                     PROVE  /\ ~closed(v)' <=> failures'[v] = dohFailureThreshold
                            /\ closed(v)' => ~probing'[v] /\ retryIn'[v] = 0
                            /\ probing'[v] => retryIn'[v] = 0
        BY DEF UpstreamsCoherent
      <4>2. CASE v = u
        BY <2>1, <2>4, <3>3, <4>2 DEF UpstreamIInv, UpstreamsCoherent, closed
      <4>3. CASE v # u
        BY <2>1, <3>5, <4>3 DEF UpstreamIInv, UpstreamsCoherent, closed
      <4> QED BY <4>2, <4>3
    <3>7. UpstreamsTyped'
      BY <2>1 DEF UpstreamIInv, UpstreamsTyped
    <3>8. phase'[q] = "exchange" /\ probe'[q]
      BY <1>5, <2>4 DEF Acquire, QueriesTyped, FlagsTyped
    <3>9. \A r \in Query : r # q => phase'[r] = phase[r] /\ probe'[r] = probe[r]
      BY <1>5 DEF Acquire, QueriesTyped, FlagsTyped
    <3>10. phase[q] # "exchange"
      BY <1>5 DEF Acquire
    <3>11. EveryProbeReports'
      BY <2>1, <3>5, <3>8, <3>9, <3>10 DEF EveryProbeReports, probesOf
    <3>12. LoopInv' /\ PreferenceRespected'
      BY <1>5, <2>1 DEF Acquire, LoopInv, PreferenceRespected, QueriesTyped
    <3> QED BY <2>2, <3>4, <3>6, <3>7, <3>11, <3>12 DEF UpstreamIInv
  <2> QED BY <2>3, <2>4
<1>6. ASSUME NEW q \in Query, ExchangeSucceeds(q)
      PROVE  IInv'
  <2>1. pos[q] \in Upstream /\ succeed(pos[q])
    BY <1>6 DEF ExchangeSucceeds, QueriesTyped
  <2>2. /\ UpstreamIInv'
        /\ ~probing'[pos[q]]
        /\ \A v \in Upstream : v # pos[q] => probing'[v] = probing[v]
    BY <2>1, SucceedCoherent
  <2>3. TimersTyped'
    BY <1>6, BridgeAssumption DEF ExchangeSucceeds, spend, TimersTyped
  <2>4. QueriesTyped' /\ FlagsTyped'
    BY <1>6 DEF ExchangeSucceeds, QueriesTyped, FlagsTyped, Result
  <2>5. /\ \A r \in Query : r # q => phase'[r] = phase[r]
        /\ UNCHANGED <<pos, probe>>
    BY <1>6 DEF ExchangeSucceeds, QueriesTyped
  <2>6. EveryProbeReports'
    BY <2>2, <2>5 DEF EveryProbeReports, probesOf
  <2>7. LoopInv' /\ PreferenceRespected'
    BY <1>6 DEF ExchangeSucceeds, spend, LoopInv, PreferenceRespected, QueriesTyped, TimersTyped
  <2> QED BY <2>2, <2>3, <2>4, <2>6, <2>7
<1>7. ASSUME NEW q \in Query, ExchangeFails(q)
      PROVE  IInv'
  <2>1. pos[q] \in Upstream /\ probe[q] \in BOOLEAN /\ fail(pos[q], probe[q])
    BY <1>7 DEF ExchangeFails, QueriesTyped, FlagsTyped
  <2>2. /\ UpstreamIInv'
        /\ probe[q] => ~probing'[pos[q]]
        /\ probing'[pos[q]] => probing[pos[q]]
        /\ \A v \in Upstream : v # pos[q] => probing'[v] = probing[v]
    BY <2>1, FailCoherent
  <2>3. TimersTyped'
    BY <1>7, BridgeAssumption DEF ExchangeFails, spend, TimersTyped, Smaller
  <2>4. QueriesTyped' /\ FlagsTyped'
    BY <1>7 DEF ExchangeFails, QueriesTyped, FlagsTyped, Result
  <2>5. /\ \A r \in Query : r # q => phase'[r] = phase[r]
        /\ UNCHANGED <<pos, probe>>
    BY <1>7 DEF ExchangeFails, QueriesTyped
  <2>6. EveryProbeReports'
    BY <2>2, <2>5 DEF EveryProbeReports, probesOf
  <2>7. LoopInv' /\ PreferenceRespected'
    BY <1>7 DEF ExchangeFails, spend, LoopInv, PreferenceRespected, QueriesTyped, TimersTyped
  <2> QED BY <2>2, <2>3, <2>4, <2>6, <2>7
<1>8. ASSUME NEW q \in Query, Deadline(q)
      PROVE  IInv'
  <2>1. UpstreamIInv'
    BY <1>8, UpstreamUnchanged DEF Deadline
  <2>2. TimersTyped'
    BY <1>8, BridgeAssumption DEF Deadline, TimersTyped
  <2>3. QueriesTyped' /\ FlagsTyped'
    BY <1>8 DEF Deadline, QueriesTyped, FlagsTyped
  <2>4. EveryProbeReports'
    BY <1>8 DEF Deadline, upstreamVars, EveryProbeReports, probesOf
  <2>5. LoopInv' /\ PreferenceRespected'
    BY <1>8 DEF Deadline, LoopInv, PreferenceRespected, QueriesTyped, TimersTyped
  <2> QED BY <2>1, <2>2, <2>3, <2>4, <2>5
<1>9. ASSUME NEW q \in Query, Record(q)
      PROVE  IInv'
  <2>1. UpstreamIInv'
    BY <1>9, UpstreamUnchanged DEF Record
  <2>2. TimersTyped'
    BY <1>9 DEF Record, TimersTyped, QueriesTyped, UpstreamIInv, UpstreamsTyped
  <2>3. QueriesTyped' /\ FlagsTyped'
    BY <1>9 DEF Record, QueriesTyped, FlagsTyped
  <2>4. EveryProbeReports'
    <3>1. \A r \in Query : r # q => phase'[r] = phase[r] /\ pos'[r] = pos[r]
      BY <1>9 DEF Record, QueriesTyped
    <3> QED BY <1>9, <3>1, ProbesUnchanged DEF Record, upstreamVars
  <2>5. LoopInv' /\ PreferenceRespected'
    BY <1>9 DEF Record, LoopInv, PreferenceRespected, QueriesTyped
  <2> QED BY <2>1, <2>2, <2>3, <2>4, <2>5
<1>10. ASSUME NEW q \in Query, observe(q),
              phase' \in [Query -> {"idle", "ask", "exchange", "record", "observe"}],
              pos' \in [Query -> Upstream],
              reply' \in [Query -> {"none", "answer", "servfail"}],
              \A r \in Query : r # q => /\ phase'[r] = phase[r]
                                        /\ pos'[r] = pos[r]
                                        /\ reply'[r] = reply[r]
       PROVE  /\ UpstreamIInv' /\ TimersTyped' /\ QueriesTyped' /\ FlagsTyped'
              /\ EveryProbeReports'
              /\ tried'[q][pos[q]] = result[q]
              /\ \A u \in Upstream : u # pos[q] => tried'[q][u] = tried[q][u]
              /\ \A r \in Query : r # q => tried'[r] = tried[r]
              /\ UNCHANGED <<budget, late>>
  <2>1. UpstreamIInv'
    BY <1>10, UpstreamUnchanged DEF observe
  <2>2. TimersTyped'
    BY <1>10 DEF observe, TimersTyped, QueriesTyped
  <2>3. tried' \in [Query -> [Upstream -> {"untried"} \cup Result]]
    BY <1>10 DEF observe, QueriesTyped
  <2>4. QueriesTyped' /\ FlagsTyped'
    BY <1>10, <2>3 DEF observe, QueriesTyped, FlagsTyped
  <2>5. EveryProbeReports'
    BY <1>10, ProbesUnchanged DEF observe, upstreamVars
  <2>6. /\ tried'[q][pos[q]] = result[q]
        /\ \A u \in Upstream : u # pos[q] => tried'[q][u] = tried[q][u]
        /\ \A r \in Query : r # q => tried'[r] = tried[r]
    BY <1>10 DEF observe, QueriesTyped
  <2> QED BY <1>10, <2>1, <2>2, <2>4, <2>5, <2>6 DEF observe
<1>11. ASSUME NEW q \in Query, phase[q] = "observe"
       PROVE  /\ pos[q] \in Upstream
              /\ \A u \in 1 .. pos[q] - 1 :
                    u \in Upstream /\ tried[q][u] \in {"failure", "skip"}
  <2>1. pos[q] \in Upstream
    BY DEF QueriesTyped
  <2>2. \A u \in 1 .. pos[q] - 1 : tried[q][u] \in {"failure", "skip"}
    BY <1>11 DEF LoopInv
  <2>3. \A u \in 1 .. pos[q] - 1 : u \in Upstream
    BY <2>1, BridgeAssumption DEF Upstream
  <2> QED BY <2>1, <2>2, <2>3
<1>12. ASSUME NEW q \in Query, Answer(q)
       PROVE  IInv'
  <2>1. /\ observe(q) /\ phase[q] = "observe"
        /\ reply' = [reply EXCEPT ![q] = "answer"]
        /\ phase' = [phase EXCEPT ![q] = "idle"]
        /\ UNCHANGED pos
    BY <1>12 DEF Answer, observe, write
  <2>2. /\ UpstreamIInv' /\ TimersTyped' /\ QueriesTyped' /\ FlagsTyped' /\ EveryProbeReports'
        /\ \A u \in Upstream : u # pos[q] => tried'[q][u] = tried[q][u]
        /\ \A r \in Query : r # q => tried'[r] = tried[r]
        /\ UNCHANGED budget
    BY <1>10, <2>1 DEF QueriesTyped
  <2>3. \A u \in 1 .. pos[q] - 1 : tried'[q][u] \in {"failure", "skip"}
    BY <1>11, <2>1, <2>2, BridgeAssumption DEF Upstream
  <2>4. LoopInv'
    BY <2>1, <2>2 DEF LoopInv, QueriesTyped
  <2>5. PreferenceRespected'
    BY <2>1, <2>2, <2>3 DEF PreferenceRespected, QueriesTyped
  <2> QED BY <2>2, <2>4, <2>5
<1>13. ASSUME NEW q \in Query, TryNext(q)
       PROVE  IInv'
  <2>1. /\ observe(q) /\ phase[q] = "observe"
        /\ result[q] # "success" /\ pos[q] < N
        /\ phase' = [phase EXCEPT ![q] = "ask"]
        /\ pos' = [pos EXCEPT ![q] = @ + 1]
        /\ UNCHANGED reply
    BY <1>13 DEF TryNext, observe
  <2>2. pos' \in [Query -> Upstream] /\ pos'[q] = pos[q] + 1
    BY <2>1, BridgeAssumption DEF QueriesTyped, Upstream
  <2>3. /\ UpstreamIInv' /\ TimersTyped' /\ QueriesTyped' /\ FlagsTyped' /\ EveryProbeReports'
        /\ tried'[q][pos[q]] = result[q]
        /\ \A u \in Upstream : u # pos[q] => tried'[q][u] = tried[q][u]
        /\ \A r \in Query : r # q => tried'[r] = tried[r]
        /\ UNCHANGED budget
    BY <1>10, <2>1, <2>2 DEF QueriesTyped
  <2>4. result[q] \in {"failure", "skip"}
    BY <2>1 DEF QueriesTyped, Result
  <2>5. \A u \in 1 .. pos'[q] - 1 : tried'[q][u] \in {"failure", "skip"}
    BY <1>11, <2>1, <2>2, <2>3, <2>4, BridgeAssumption DEF Upstream
  <2>6. reply[q] = "none" /\ \A r \in Query : r # q => phase'[r] = phase[r] /\ pos'[r] = pos[r]
    BY <2>1 DEF LoopInv, QueriesTyped
  <2>7. LoopInv'
    BY <2>1, <2>3, <2>5, <2>6 DEF LoopInv
  <2>8. PreferenceRespected'
    BY <2>1, <2>3, <2>6 DEF PreferenceRespected
  <2> QED BY <2>3, <2>7, <2>8
<1>14. ASSUME NEW q \in Query, GiveUp(q)
       PROVE  IInv'
  <2>1. /\ observe(q) /\ phase[q] = "observe"
        /\ result[q] # "success" /\ (budget[q] = 0 \/ pos[q] = N)
        /\ reply' = [reply EXCEPT ![q] = "servfail"]
        /\ phase' = [phase EXCEPT ![q] = "idle"]
        /\ UNCHANGED pos
    BY <1>14 DEF GiveUp, observe, write
  <2>2. /\ UpstreamIInv' /\ TimersTyped' /\ QueriesTyped' /\ FlagsTyped' /\ EveryProbeReports'
        /\ tried'[q][pos[q]] = result[q]
        /\ \A u \in Upstream : u # pos[q] => tried'[q][u] = tried[q][u]
        /\ \A r \in Query : r # q => tried'[r] = tried[r]
        /\ UNCHANGED budget
    BY <1>10, <2>1 DEF QueriesTyped
  <2>3. result[q] \in {"failure", "skip"}
    BY <2>1 DEF QueriesTyped, Result
  <2>4. pos[q] = N => \A u \in Upstream : tried'[q][u] \in {"failure", "skip"}
    BY <1>11, <2>1, <2>2, <2>3, BridgeAssumption DEF Upstream
  <2>5. budget[q] > 0 => pos[q] = N
    BY <2>1
  <2>6. LoopInv'
    BY <2>1, <2>2 DEF LoopInv, QueriesTyped
  <2>7. PreferenceRespected'
    BY <2>1, <2>2, <2>4, <2>5 DEF PreferenceRespected, QueriesTyped
  <2> QED BY <2>2, <2>6, <2>7
<1> QED
  BY <1>1, <1>2, <1>3, <1>4, <1>5, <1>6, <1>7, <1>8, <1>9, <1>12, <1>13, <1>14
     DEF Next, Serve

(* The inductive invariant is an invariant. *)
LEMMA Invariance == Spec => []IInv
BY InitIInv, NextIInv, PTL DEF Spec

-----------------------------------------------------------------------------
(* The state of the bridge and of its providers keeps its types. *)
THEOREM TypeCorrect == Spec => []TypeOK
BY Invariance, IInvImplies, PTL

(* For any number of providers and queries, the backoff fields of every    *)
(* provider of dohbridge.go stay in step.                                  *)
THEOREM AlwaysCoherent == Spec => []UpstreamsCoherent
BY Invariance, IInvImplies, PTL

(* No interleaving of queries, timeouts and deadlines strands a provider   *)
(* of dohbridge.go in its probing state.                                   *)
THEOREM NoProbeLost == Spec => []EveryProbeReports
BY Invariance, IInvImplies, PTL

(* ServeDNS of dohbridge.go passes over no provider that was willing, for  *)
(* any number of providers.                                                *)
THEOREM AlwaysByPreference == Spec => []PreferenceRespected
BY Invariance, IInvImplies, PTL

-----------------------------------------------------------------------------
(* The refinement: one lemma per operation of a provider. *)

(* The fields of provider v stay as they are: a stutter of its breaker. *)
Still(v) == backoffStep'[v] = backoffStep[v] /\ retryIn'[v] = retryIn[v] /\ probing'[v] = probing[v]

LEMMA StutterRefines ==
    ASSUME NEW v \in Upstream, Still(v)
    PROVE  UNCHANGED breaker(v)!vars
BY DEF Still, breaker!vars, closed

(* The end of fail chooses its wait from the delays of its level. *)
LEMMA ParkRefines ==
    ASSUME UpstreamIInv, NEW v \in Upstream, NEW step \in 1 .. StepCap, park(v, step)
    PROVE  /\ backoffStep'[v] = step
           /\ ~probing'[v]
           /\ retryIn'[v] \in jitterDoHBackoff(InitialBackoff, MaxBackoff, step)
<1>1. backoffStep'[v] = step
  BY DEF park, UpstreamIInv, UpstreamsTyped
<1>2. ~probing'[v]
  BY DEF park, UpstreamIInv, ProbingTyped
<1>3. retryIn'[v] \in jitterDoHBackoff(InitialBackoff, MaxBackoff, step)
  BY DEF park, UpstreamIInv, UpstreamsTyped
<1> QED BY <1>1, <1>2, <1>3

(* succeed is Reset, or a stutter of the closed breaker. *)
LEMMA SucceedRefines ==
    ASSUME UpstreamIInv, NEW v \in Upstream, succeed(v)
    PROVE  breaker(v)!Reset \/ UNCHANGED breaker(v)!vars
<1>1. backoffStep'[v] = 0 /\ retryIn'[v] = 0 /\ ~probing'[v]
  BY DEF succeed, UpstreamIInv, UpstreamsTyped, ProbingTyped
<1>2. CASE closed(v)
  BY <1>1, <1>2 DEF closed, UpstreamIInv, UpstreamsCoherent, breaker!vars
<1>3. CASE ~closed(v)
  BY <1>1, <1>3 DEF closed, breaker!Reset
<1> QED BY <1>2, <1>3

(* fail is Trip or Reopen, or a stutter. *)
LEMMA FailRefines ==
    ASSUME UpstreamIInv, NEW v \in Upstream, NEW p \in BOOLEAN, fail(v, p)
    PROVE  breaker(v)!Trip \/ breaker(v)!Reopen \/ UNCHANGED breaker(v)!vars
<1>1. CASE UNCHANGED <<backoffStep, retryIn, probing>>
  BY <1>1, StutterRefines DEF Still
<1>2. CASE closed(v) /\ park(v, 1)
  <2>1. 1 \in 1 .. StepCap
    BY BridgeAssumption
  <2>2. /\ backoffStep'[v] = 1 /\ ~probing'[v]
        /\ retryIn'[v] \in jitterDoHBackoff(InitialBackoff, MaxBackoff, 1)
    BY <1>2, <2>1, ParkRefines
  <2> QED BY <1>2, <2>1, <2>2 DEF breaker!Trip, closed
<1>3. CASE ~closed(v) /\ probing[v] /\ park(v, Smaller(backoffStep[v] + 1, StepCap))
  <2> DEFINE step == Smaller(backoffStep[v] + 1, StepCap)
  <2>1. /\ step \in 1 .. StepCap
        /\ step = IF backoffStep[v] < StepCap THEN backoffStep[v] + 1 ELSE backoffStep[v]
    BY BridgeAssumption DEF UpstreamIInv, UpstreamsTyped, Smaller
  <2> HIDE DEF step
  <2>2. /\ backoffStep'[v] = step /\ ~probing'[v]
        /\ retryIn'[v] \in jitterDoHBackoff(InitialBackoff, MaxBackoff, step)
    BY <1>3, <2>1, ParkRefines DEF step
  <2> QED BY <1>3, <2>1, <2>2 DEF breaker!Reopen, closed
<1> QED BY <1>1, <1>2, <1>3 DEF fail, upstreamVars

(* acquire is Probe, or a stutter. *)
LEMMA AcquireRefines ==
    ASSUME UpstreamIInv, NEW q \in Query, NEW v \in Upstream, pos[q] = v, Acquire(q)
    PROVE  breaker(v)!Probe \/ UNCHANGED breaker(v)!vars
<1>1. UNCHANGED <<backoffStep, retryIn>>
  BY DEF Acquire
<1>2. CASE closed(v)
  <2>1. probing' = probing
    BY <1>2 DEF Acquire
  <2> QED BY <1>1, <2>1, StutterRefines DEF Still
<1>3. CASE ~closed(v)
  <2>1. ~probing[v] /\ retryIn[v] = 0
    BY <1>3, BridgeAssumption DEF Acquire, denied, UpstreamIInv, UpstreamsTyped
  <2>2. probing'[v]
    BY <1>3 DEF Acquire, UpstreamIInv, ProbingTyped
  <2> QED BY <1>1, <1>3, <2>1, <2>2 DEF breaker!Probe, closed
<1> QED BY <1>2, <1>3

(* Every step of the bridge is a step or a stutter of every breaker. *)
LEMMA StepRefines ==
    ASSUME IInv, Next, NEW v \in Upstream
    PROVE  breaker(v)!Next \/ UNCHANGED breaker(v)!vars
<1> USE DEF IInv
<1>1. CASE UNCHANGED upstreamVars
  BY <1>1, StutterRefines DEF Still, upstreamVars
<1>2. CASE Tick
  <2>1. /\ backoffStep'[v] = backoffStep[v] /\ probing'[v] = probing[v]
        /\ retryIn'[v] = less(retryIn[v])
    BY <1>2 DEF Tick
  <2>2. CASE retryIn[v] > 0
    <3>1. breaker(v)!Elapse
      BY <2>1, <2>2 DEF breaker!Elapse, closed, less
    <3> QED BY <3>1 DEF breaker!Next
  <2>3. CASE ~(retryIn[v] > 0)
    <3>1. retryIn'[v] = retryIn[v]
      BY <2>1, <2>3 DEF less, UpstreamIInv, UpstreamsTyped
    <3> QED BY <2>1, <3>1, StutterRefines DEF Still
  <2> QED BY <2>2, <2>3
<1>3. ASSUME NEW q \in Query, Acquire(q)
      PROVE  breaker(v)!Next \/ UNCHANGED breaker(v)!vars
  <2>1. CASE pos[q] = v
    BY <1>3, <2>1, AcquireRefines DEF breaker!Next
  <2>2. CASE pos[q] # v
    <3>1. Still(v)
      BY <1>3, <2>2 DEF Acquire, Still, UpstreamIInv, ProbingTyped
    <3> QED BY <3>1, StutterRefines
  <2> QED BY <2>1, <2>2
<1>4. ASSUME NEW u \in Upstream, succeed(u)
      PROVE  breaker(v)!Next \/ UNCHANGED breaker(v)!vars
  <2>1. CASE u = v
    BY <1>4, <2>1, SucceedRefines DEF breaker!Next
  <2>2. CASE u # v
    <3>1. Still(v)
      BY <1>4, <2>2 DEF succeed, Still, UpstreamIInv, UpstreamsTyped, ProbingTyped
    <3> QED BY <3>1, StutterRefines
  <2> QED BY <2>1, <2>2
<1>5. ASSUME NEW u \in Upstream, NEW p \in BOOLEAN, fail(u, p)
      PROVE  breaker(v)!Next \/ UNCHANGED breaker(v)!vars
  <2>1. CASE u = v
    BY <1>5, <2>1, FailRefines DEF breaker!Next
  <2>2. CASE u # v
    <3>1. \/ UNCHANGED <<backoffStep, retryIn, probing>>
          \/ \E step : park(u, step)
      BY <1>5 DEF fail, upstreamVars
    <3>2. Still(v)
      BY <2>2, <3>1 DEF park, Still, UpstreamIInv, UpstreamsTyped, ProbingTyped
    <3> QED BY <3>2, StutterRefines
  <2> QED BY <2>1, <2>2
<1>6. \/ UNCHANGED upstreamVars \/ Tick
      \/ \E q \in Query : Acquire(q) \/ succeed(pos[q]) \/ fail(pos[q], probe[q])
  BY DEF Next, Serve, Arrive, Skip, ExchangeSucceeds, ExchangeFails, Record, Answer, TryNext,
         GiveUp, observe, Deadline
<1> QED BY <1>1, <1>2, <1>3, <1>4, <1>5, <1>6 DEF QueriesTyped, FlagsTyped

(* Every provider of dohbridge.go implements the abstract breaker, for any *)
(* number of providers and queries and all their interleavings.            *)
THEOREM RefinesBreaker == Spec => ImplementsBreaker
<1>1. Init => \A u \in Upstream : breaker(u)!Init
  BY DEF Init, breaker!Init, closed
<1>2. IInv /\ [Next]_vars
        => [\A u \in Upstream : breaker(u)!Next \/ UNCHANGED breaker(u)!vars]_vars
  BY StepRefines
<1> QED
  BY <1>1, <1>2, Invariance, PTL DEF Spec, ImplementsBreaker

-----------------------------------------------------------------------------
(* How far a request is from its reply.                                    *)

Stage(p) == CASE p = "ask" -> 4 [] p = "exchange" -> 3 [] p = "record" -> 2 [] p = "observe" -> 1

(* The steps ServeDNS has left at most: four for each provider to come. *)
StepsLeft(q) == IF phase[q] = "idle" THEN 0 ELSE 4 * (N - pos[q]) + Stage(phase[q])

LEMMA StepsLeftTyped ==
    ASSUME QueriesTyped, NEW q \in Query
    PROVE  /\ StepsLeft(q) \in 0 .. 4 * N
           /\ StepsLeft(q) = 0 <=> phase[q] = "idle"
<1>1. pos[q] \in 1 .. N /\ N \in Nat
  BY BridgeAssumption DEF QueriesTyped, Upstream
<1>2. phase[q] # "idle" => Stage(phase[q]) \in 1 .. 4
  BY DEF QueriesTyped, Stage
<1> QED BY <1>1, <1>2 DEF StepsLeft

(* A step of another query, or of time, leaves the request where it is. *)
LEMMA StepsKept ==
    ASSUME QueriesTyped, NEW q \in Query, phase'[q] = phase[q], pos'[q] = pos[q]
    PROVE  StepsLeft(q)' = StepsLeft(q)
BY DEF StepsLeft

(* With the same provider ServeDNS goes on to a later stage. *)
LEMMA StageFalls ==
    ASSUME QueriesTyped, NEW q \in Query, pos'[q] = pos[q],
           <<phase[q], phase'[q]>> \in {<<"ask", "exchange">>, <<"ask", "record">>,
                                        <<"exchange", "record">>, <<"record", "observe">>}
    PROVE  StepsLeft(q)' < StepsLeft(q)
<1>1. pos[q] \in Int /\ N \in Int
  BY BridgeAssumption DEF QueriesTyped, Upstream
<1>2. /\ phase[q] # "idle" /\ phase'[q] # "idle"
      /\ Stage(phase[q]) \in Int /\ Stage(phase'[q]) \in Int
      /\ Stage(phase'[q]) < Stage(phase[q])
  BY DEF Stage
<1> QED BY <1>1, <1>2 DEF StepsLeft

(* Every step of ServeDNS brings it closer to its end. *)
LEMMA ServeRunsDown ==
    ASSUME IInv, NEW q \in Query, Serve(q)
    PROVE  /\ StepsLeft(q)' < StepsLeft(q) /\ budget'[q] <= budget[q]
           /\ \A r \in Query : r # q =>
                phase'[r] = phase[r] /\ pos'[r] = pos[r] /\ budget'[r] = budget[r]
<1> USE DEF IInv
<1>1. budget[q] \in Nat /\ pos[q] \in Int /\ N \in Int
  BY BridgeAssumption DEF TimersTyped, QueriesTyped, Upstream
<1>2. CASE Skip(q)
  <2>1. phase[q] = "ask" /\ phase'[q] = "record"
    BY <1>2 DEF Skip, QueriesTyped
  <2> QED BY <1>1, <1>2, <2>1, StageFalls DEF Skip, QueriesTyped
<1>3. CASE Acquire(q)
  <2>1. phase[q] = "ask" /\ phase'[q] = "exchange"
    BY <1>3 DEF Acquire, QueriesTyped
  <2> QED BY <1>1, <1>3, <2>1, StageFalls DEF Acquire, QueriesTyped
<1>4. CASE ExchangeSucceeds(q) \/ ExchangeFails(q)
  <2>1. phase[q] = "exchange" /\ phase' = [phase EXCEPT ![q] = "record"] /\ pos' = pos
    BY <1>4 DEF ExchangeSucceeds, ExchangeFails
  <2>2. PICK cost \in 0 .. ClientTimeout : budget' = [budget EXCEPT ![q] = @ - cost]
    BY <1>4, BridgeAssumption DEF ExchangeSucceeds, ExchangeFails, spend
  <2>3. budget'[q] = budget[q] - cost /\ cost \in Nat
    BY <2>2, BridgeAssumption DEF TimersTyped
  <2>4. budget'[q] <= budget[q] /\ \A r \in Query : r # q => budget'[r] = budget[r]
    BY <1>1, <2>2, <2>3 DEF TimersTyped
  <2>5. phase'[q] = "record"
    BY <2>1 DEF QueriesTyped
  <2> QED BY <2>1, <2>4, <2>5, StageFalls DEF QueriesTyped
<1>5. CASE Record(q)
  <2>1. phase[q] = "record" /\ phase'[q] = "observe"
    BY <1>5 DEF Record, QueriesTyped
  <2> QED BY <1>1, <1>5, <2>1, StageFalls DEF Record, QueriesTyped
<1>6. CASE Answer(q) \/ GiveUp(q)
  <2>1. /\ phase[q] = "observe" /\ phase' = [phase EXCEPT ![q] = "idle"]
        /\ pos' = pos /\ budget' = budget
    BY <1>6 DEF Answer, GiveUp, observe, write
  <2>2. phase'[q] = "idle"
    BY <2>1 DEF QueriesTyped
  <2>3. StepsLeft(q)' = 0
    BY <2>2 DEF StepsLeft
  <2>4. StepsLeft(q) \in 0 .. 4 * N /\ StepsLeft(q) # 0
    BY <2>1, StepsLeftTyped
  <2> QED BY <1>1, <2>1, <2>3, <2>4 DEF QueriesTyped
<1>7. CASE TryNext(q)
  <2>1. /\ phase[q] = "observe" /\ phase' = [phase EXCEPT ![q] = "ask"]
        /\ pos' = [pos EXCEPT ![q] = @ + 1] /\ budget' = budget
    BY <1>7 DEF TryNext, observe
  <2>2. phase'[q] = "ask" /\ pos'[q] = pos[q] + 1
    BY <2>1 DEF QueriesTyped
  <2>3. StepsLeft(q) = 4 * (N - pos[q]) + 1
    BY <2>1 DEF StepsLeft, Stage
  <2>4. StepsLeft(q)' = 4 * (N - (pos[q] + 1)) + 4
    BY <2>2 DEF StepsLeft, Stage
  <2> QED BY <1>1, <2>1, <2>3, <2>4 DEF QueriesTyped
<1> QED BY <1>2, <1>3, <1>4, <1>5, <1>6, <1>7 DEF Serve

(* ServeDNS of dohbridge.go replies after at most four steps for every     *)
(* provider of its list: while a request is under way every step of its    *)
(* own brings it closer to its end, and nothing that other queries,        *)
(* deadlines or time do sets it back or gives it more time.                *)
THEOREM RequestRunsDown ==
    Spec => /\ [](\A q \in Query : /\ StepsLeft(q) \in 0 .. 4 * N
                                   /\ StepsLeft(q) = 0 <=> phase[q] = "idle")
            /\ [][\A q \in Query : phase[q] # "idle" =>
                    /\ StepsLeft(q)' <= StepsLeft(q) /\ budget'[q] <= budget[q]
                    /\ Serve(q) => StepsLeft(q)' < StepsLeft(q)]_vars
<1>1. IInv => \A q \in Query : /\ StepsLeft(q) \in 0 .. 4 * N
                               /\ StepsLeft(q) = 0 <=> phase[q] = "idle"
  BY StepsLeftTyped DEF IInv
<1>2. ASSUME IInv, IInv', [Next]_vars
      PROVE  [\A q \in Query : phase[q] # "idle" =>
                /\ StepsLeft(q)' <= StepsLeft(q) /\ budget'[q] <= budget[q]
                /\ Serve(q) => StepsLeft(q)' < StepsLeft(q)]_vars
  <2> SUFFICES ASSUME NEW q \in Query, phase[q] # "idle"
               PROVE  /\ StepsLeft(q)' <= StepsLeft(q) /\ budget'[q] <= budget[q]
                      /\ Serve(q) => StepsLeft(q)' < StepsLeft(q)
    OBVIOUS
  <2>1. StepsLeft(q) \in Int /\ budget[q] \in Nat
    BY <1>2, StepsLeftTyped, BridgeAssumption DEF IInv, TimersTyped
  <2>2. Serve(q) => StepsLeft(q)' < StepsLeft(q) /\ budget'[q] <= budget[q]
    BY <1>2, ServeRunsDown
  <2>3. CASE phase'[q] = phase[q] /\ pos'[q] = pos[q] /\ budget'[q] <= budget[q]
    BY <1>2, <2>1, <2>2, <2>3, StepsKept DEF IInv
  <2>4. CASE Serve(q)
    <3>1. StepsLeft(q)' \in Int
      <4>1. pos'[q] \in Int /\ N \in Int
        BY <1>2, BridgeAssumption DEF IInv, QueriesTyped, Upstream
      <4>2. phase'[q] # "idle" => Stage(phase'[q]) \in Int
        BY <1>2 DEF IInv, QueriesTyped, Stage
      <4> QED BY <4>1, <4>2 DEF StepsLeft
    <3> QED BY <2>1, <2>2, <2>4, <3>1
  <2>5. CASE Tick \/ UNCHANGED vars
    BY <2>1, <2>3, <2>5 DEF Tick, vars, queryVars
  <2>6. ASSUME NEW r \in Query, Arrive(r)
        PROVE  phase'[q] = phase[q] /\ pos'[q] = pos[q] /\ budget'[q] <= budget[q]
    BY <1>2, <2>1, <2>6 DEF Arrive, IInv, QueriesTyped, TimersTyped
  <2>7. ASSUME NEW r \in Query, Deadline(r)
        PROVE  phase'[q] = phase[q] /\ pos'[q] = pos[q] /\ budget'[q] <= budget[q]
    BY <1>2, <2>1, <2>7 DEF Deadline, IInv, QueriesTyped, TimersTyped
  <2>8. ASSUME NEW r \in Query, Serve(r), r # q
        PROVE  phase'[q] = phase[q] /\ pos'[q] = pos[q] /\ budget'[q] <= budget[q]
    BY <1>2, <2>1, <2>8, ServeRunsDown
  <2> QED BY <1>2, <2>3, <2>4, <2>5, <2>6, <2>7, <2>8 DEF Next
<1> QED BY <1>1, <1>2, Invariance, PTL DEF Spec
-----------------------------------------------------------------------------
(* The shared deadline.  What a request has spent, its failures account    *)
(* for: one failed exchange takes at most the client's timeout.            *)

(* A provider has failed the request, the current exchange included. *)
Failed(q, u) ==
    \/ tried[q][u] = "failure"
    \/ u = pos[q] /\ phase[q] \in {"record", "observe"} /\ result[q] = "failure"

Answered(q) == phase[q] \in {"record", "observe"} /\ result[q] = "success"

TwoFailed(q) == \E u, v \in Upstream : u # v /\ Failed(q, u) /\ Failed(q, v)

Accounted(q) ==
    ~late[q] /\ ~Answered(q) =>
        /\ budget[q] < RequestBudget => \E u \in Upstream : Failed(q, u)
        /\ budget[q] < RequestBudget - ClientTimeout => TwoFailed(q)

Ahead(q) == \A u \in Upstream : u >= pos[q] => tried[q][u] = "untried"

GaveUpFairly(q) ==
    reply[q] = "servfail" /\ ~late[q] =>
        \/ \A u \in Upstream : tried[q][u] \in {"failure", "skip"}
        \/ \E u, v \in Upstream : u # v /\ tried[q][u] = "failure" /\ tried[q][v] = "failure"

TimeKept(q) == (phase[q] # "idle" => Ahead(q) /\ Accounted(q)) /\ GaveUpFairly(q)

TimeInv == \A q \in Query : TimeKept(q)

(* A step that is not about q leaves its account alone. *)
LEMMA OthersKeepTime ==
    ASSUME NEW q \in Query, TimeKept(q),
           phase'[q] = phase[q], pos'[q] = pos[q], result'[q] = result[q],
           budget'[q] = budget[q], late'[q] = late[q], tried'[q] = tried[q],
           reply'[q] = reply[q]
    PROVE  TimeKept(q)'
BY DEF TimeKept, Ahead, Accounted, Failed, Answered, TwoFailed, GaveUpFairly

(* Before its exchange has ended a provider counts for nothing. *)
LEMMA NoExchangeKeepsTime ==
    ASSUME IInv, NEW q \in Query, TimeKept(q), Skip(q) \/ Acquire(q) \/ Record(q)
    PROVE  TimeKept(q)'
<1> USE DEF IInv
<1>1. /\ phase[q] # "idle" /\ reply'[q] # "servfail"
      /\ pos' = pos /\ budget' = budget /\ late' = late /\ tried' = tried
  BY DEF Skip, Acquire, Record, LoopInv
<1>2. Ahead(q) /\ Accounted(q)
  BY <1>1 DEF TimeKept
<1>3. Answered(q)' <=> Answered(q)
  BY DEF Skip, Acquire, Record, Answered, QueriesTyped
<1>4. \A u \in Upstream : Failed(q, u) => Failed(q, u)'
  BY <1>1 DEF Skip, Acquire, Record, Failed, QueriesTyped
<1>5. Ahead(q)'
  BY <1>1, <1>2 DEF Ahead
<1>6. Accounted(q)'
  <2>1. TwoFailed(q) => TwoFailed(q)'
    BY <1>4 DEF TwoFailed
  <2>2. (\E u \in Upstream : Failed(q, u)) => (\E u \in Upstream : Failed(q, u))'
    BY <1>4
  <2> QED BY <1>1, <1>2, <1>3, <2>1, <2>2 DEF Accounted
<1> QED BY <1>1, <1>5, <1>6 DEF TimeKept, GaveUpFairly

LEMMA FailureKeepsTime ==
    ASSUME IInv, NEW q \in Query, TimeKept(q), ExchangeFails(q)
    PROVE  TimeKept(q)'
<1> USE DEF IInv
<1>1. /\ phase[q] = "exchange" /\ phase'[q] = "record" /\ result'[q] = "failure"
      /\ pos' = pos /\ late' = late /\ tried' = tried /\ reply' = reply
      /\ pos[q] \in Upstream
  BY DEF ExchangeFails, QueriesTyped
<1>2. PICK cost \in 0 .. ClientTimeout : spend(q, cost)
  BY DEF ExchangeFails
<1>3. budget'[q] = budget[q] - cost /\ budget[q] \in Nat
  BY <1>2, BridgeAssumption DEF spend, TimersTyped
<1>4. Ahead(q) /\ Accounted(q) /\ reply[q] = "none" /\ ~Answered(q)
  BY <1>1 DEF TimeKept, LoopInv, Answered
<1>5. Failed(q, pos[q])'
  BY <1>1 DEF Failed
<1>6. ASSUME NEW u \in Upstream, Failed(q, u)
      PROVE  Failed(q, u)' /\ u # pos[q]
  <2>1. tried[q][u] = "failure"
    BY <1>1, <1>6 DEF Failed
  <2>2. tried[q][pos[q]] = "untried"
    BY <1>1, <1>4, BridgeAssumption DEF Ahead, Upstream
  <2> QED BY <1>1, <2>1, <2>2 DEF Failed
<1>7. ASSUME ~late[q], budget'[q] < RequestBudget - ClientTimeout
      PROVE  TwoFailed(q)'
  <2>1. budget[q] < RequestBudget
    BY <1>2, <1>3, <1>7, BridgeAssumption
  <2>2. PICK u \in Upstream : Failed(q, u)
    BY <1>4, <1>7, <2>1 DEF Accounted
  <2> QED BY <1>1, <1>5, <1>6, <2>2 DEF TwoFailed
<1>8. Accounted(q)'
  BY <1>1, <1>5, <1>7 DEF Accounted
<1> QED BY <1>1, <1>4, <1>8 DEF TimeKept, Ahead, GaveUpFairly

(* observe enters the failure of the current provider in the history. *)
LEMMA ObserveKeepsFailures ==
    ASSUME IInv, NEW q \in Query, TimeKept(q), observe(q)
    PROVE  \A u \in Upstream : /\ Failed(q, u) => tried'[q][u] = "failure"
                               /\ u # pos[q] => tried'[q][u] = tried[q][u]
<1> USE DEF IInv
<1>1. /\ tried'[q][pos[q]] = result[q]
      /\ \A u \in Upstream : u # pos[q] => tried'[q][u] = tried[q][u]
      /\ phase[q] = "observe" /\ pos[q] \in Upstream
  BY DEF observe, QueriesTyped
<1>2. ASSUME NEW u \in Upstream, Failed(q, u) PROVE tried'[q][u] = "failure"
  BY <1>1, <1>2, BridgeAssumption DEF Failed, TimeKept, Ahead, Upstream
<1> QED BY <1>1, <1>2

LEMMA TryNextKeepsTime ==
    ASSUME IInv, NEW q \in Query, TimeKept(q), TryNext(q)
    PROVE  TimeKept(q)'
<1> USE DEF IInv
<1>1. /\ observe(q) /\ phase[q] = "observe" /\ phase'[q] = "ask" /\ result[q] # "success"
      /\ pos'[q] = pos[q] + 1 /\ pos[q] \in Int /\ budget' = budget /\ late' = late
      /\ reply' = reply
  BY BridgeAssumption DEF TryNext, observe, QueriesTyped, Upstream
<1>2. Ahead(q) /\ Accounted(q) /\ reply[q] = "none" /\ ~Answered(q)
  BY <1>1 DEF TimeKept, LoopInv, Answered
<1>3. \A u \in Upstream : /\ Failed(q, u) => Failed(q, u)'
                          /\ u # pos[q] => tried'[q][u] = tried[q][u]
  BY <1>1, ObserveKeepsFailures DEF Failed
<1>4. Ahead(q)'
  <2> SUFFICES ASSUME NEW u \in Upstream, u >= pos[q] + 1 PROVE tried'[q][u] = "untried"
    BY <1>1 DEF Ahead
  <2>1. u # pos[q] /\ u >= pos[q]
    BY <1>1 DEF Upstream
  <2> QED BY <1>2, <1>3, <2>1 DEF Ahead
<1>5. Accounted(q)'
  <2>1. TwoFailed(q) => TwoFailed(q)'
    BY <1>3 DEF TwoFailed
  <2>2. (\E u \in Upstream : Failed(q, u)) => (\E u \in Upstream : Failed(q, u))'
    BY <1>3
  <2> QED BY <1>1, <1>2, <2>1, <2>2 DEF Accounted
<1> QED BY <1>1, <1>2, <1>4, <1>5 DEF TimeKept, GaveUpFairly

(* With no time left, two failures have used it up. *)
LEMMA GiveUpKeepsTime ==
    ASSUME IInv, PreferenceRespected', NEW q \in Query, TimeKept(q), GiveUp(q)
    PROVE  TimeKept(q)'
<1> USE DEF IInv
<1>1. /\ observe(q) /\ phase[q] = "observe" /\ phase'[q] = "idle" /\ result[q] # "success"
      /\ budget' = budget /\ late' = late /\ budget[q] \in Nat
      /\ reply'[q] = "servfail"
  BY DEF GiveUp, observe, write, QueriesTyped, TimersTyped
<1>2. Accounted(q) /\ ~Answered(q)
  BY <1>1 DEF TimeKept, Answered
<1>3. CASE budget[q] > 0
  <2>1. \A u \in Upstream : tried'[q][u] \in {"failure", "skip"}
    BY <1>1, <1>3 DEF PreferenceRespected
  <2> QED BY <1>1, <2>1 DEF TimeKept, GaveUpFairly
<1>4. CASE budget[q] = 0
  <2>1. budget[q] < RequestBudget - ClientTimeout
    BY <1>4, BridgeAssumption, TimeoutAssumption
  <2>2. ~late[q] => TwoFailed(q)
    BY <1>2, <2>1 DEF Accounted
  <2>3. \A u \in Upstream : Failed(q, u) => tried'[q][u] = "failure"
    BY <1>1, ObserveKeepsFailures
  <2>4. ~late'[q] => \E u, v \in Upstream :
                        u # v /\ tried'[q][u] = "failure" /\ tried'[q][v] = "failure"
    BY <1>1, <2>2, <2>3 DEF TwoFailed
  <2> QED BY <1>1, <2>4 DEF TimeKept, GaveUpFairly
<1> QED BY <1>1, <1>3, <1>4

LEMMA ServeKeepsTime ==
    ASSUME IInv, PreferenceRespected', NEW q \in Query, TimeKept(q), Serve(q)
    PROVE  TimeKept(q)'
<1> USE DEF IInv
<1>1. CASE Skip(q) \/ Acquire(q) \/ Record(q)
  BY <1>1, NoExchangeKeepsTime
<1>2. CASE ExchangeSucceeds(q)
  <2>1. /\ phase[q] # "idle" /\ Answered(q)' /\ reply'[q] # "servfail"
        /\ pos' = pos /\ tried' = tried
    BY <1>2 DEF ExchangeSucceeds, Answered, QueriesTyped, LoopInv
  <2> QED BY <2>1 DEF TimeKept, Ahead, Accounted, GaveUpFairly
<1>3. CASE ExchangeFails(q)
  BY <1>3, FailureKeepsTime
<1>4. CASE Answer(q)
  <2>1. phase'[q] = "idle" /\ reply'[q] = "answer"
    BY <1>4 DEF Answer, write, QueriesTyped
  <2> QED BY <2>1 DEF TimeKept, GaveUpFairly
<1>5. CASE TryNext(q)
  BY <1>5, TryNextKeepsTime
<1>6. CASE GiveUp(q)
  BY <1>6, GiveUpKeepsTime
<1> QED BY <1>1, <1>2, <1>3, <1>4, <1>5, <1>6 DEF Serve

LEMMA TimeStep ==
    ASSUME IInv, PreferenceRespected', TimeInv, [Next]_vars
    PROVE  TimeInv'
<1> SUFFICES ASSUME NEW q \in Query PROVE TimeKept(q)'
  BY DEF TimeInv
<1> USE DEF IInv
<1>1. TimeKept(q)
  BY DEF TimeInv
<1>2. CASE UNCHANGED vars \/ Tick
  BY <1>1, <1>2, OthersKeepTime DEF vars, queryVars, Tick
<1>3. ASSUME NEW r \in Query, r # q, Arrive(r) \/ Deadline(r) PROVE TimeKept(q)'
  BY <1>1, <1>3, OthersKeepTime
     DEF Arrive, Deadline, QueriesTyped, TimersTyped, FlagsTyped
<1>4. ASSUME NEW r \in Query, r # q, Serve(r) PROVE TimeKept(q)'
  <2>1. phase'[q] = phase[q] /\ pos'[q] = pos[q] /\ budget'[q] = budget[q]
    BY <1>4, ServeRunsDown
  <2>2. result'[q] = result[q] /\ reply'[q] = reply[q]
    BY <1>4 DEF Serve, Skip, Acquire, ExchangeSucceeds, ExchangeFails, Record, Answer, TryNext,
                GiveUp, observe, write, QueriesTyped
  <2>3. late' = late /\ tried'[q] = tried[q]
    BY <1>4 DEF Serve, Skip, Acquire, ExchangeSucceeds, ExchangeFails, Record, Answer, TryNext,
                GiveUp, observe, write, QueriesTyped
  <2> QED BY <1>1, <2>1, <2>2, <2>3, OthersKeepTime
<1>5. CASE Arrive(q)
  <2>1. /\ phase'[q] = "ask" /\ budget'[q] = RequestBudget /\ tried'[q] = Untried
        /\ reply'[q] = "none"
    BY <1>5 DEF Arrive, QueriesTyped, TimersTyped
  <2>2. Ahead(q)'
    BY <2>1 DEF Ahead, Untried
  <2>3. Accounted(q)'
    BY <2>1, BridgeAssumption DEF Accounted
  <2> QED BY <2>1, <2>2, <2>3 DEF TimeKept, GaveUpFairly
<1>6. CASE Deadline(q)
  <2>1. late'[q] /\ phase' = phase /\ pos' = pos /\ tried' = tried /\ reply' = reply
    BY <1>6 DEF Deadline, FlagsTyped
  <2> QED BY <1>1, <2>1 DEF TimeKept, Ahead, Accounted, GaveUpFairly
<1>7. CASE Serve(q)
  BY <1>1, <1>7, ServeKeepsTime
<1> QED BY <1>2, <1>3, <1>4, <1>5, <1>6, <1>7 DEF Next

(* However many providers ServeDNS of dohbridge.go has, one that hangs     *)
(* does not by itself use up the five seconds a request has: the client's  *)
(* timeout of three ends its exchange first, and the next one is asked.    *)
THEOREM NoSingleHang == Spec => []OneHangLeavesTime
<1>1. Init => TimeInv
  BY DEF Init, TimeInv, TimeKept, GaveUpFairly
<1>2. IInv /\ IInv' /\ TimeInv /\ [Next]_vars => TimeInv'
  BY TimeStep DEF IInv
<1>3. TimeInv => OneHangLeavesTime
  BY DEF TimeInv, TimeKept, GaveUpFairly, OneHangLeavesTime
<1> QED BY <1>1, <1>2, <1>3, Invariance, PTL DEF Spec
=============================================================================
