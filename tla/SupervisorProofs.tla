--------------------------- MODULE SupervisorProofs ---------------------------
(***************************************************************************)
(* Theorems about Supervisor, for any set of resolvers, any delays, grace  *)
(* and staleness limits, and any number of crashes and lost datagrams.     *)
(***************************************************************************)
EXTENDS Supervisor, FiniteSetTheorems, TLAPS

-----------------------------------------------------------------------------
(* The inductive invariant.                                                *)

Phase == {"none", "spawn", "started", "running", "waiting", "terminating", "killing", "done"}

FlagsTyped ==
    /\ stopping \in BOOLEAN /\ bridgeUp \in BOOLEAN
    /\ sendDue \in BOOLEAN /\ listening \in BOOLEAN
    /\ alive \in [Child -> BOOLEAN] /\ up \in [Child -> BOOLEAN]

MaxTimer == IF restartMaximum > shutdownGrace THEN restartMaximum ELSE shutdownGrace

TimesTyped ==
    /\ timer \in [Child -> 0 .. MaxTimer]
    /\ runtime \in [Child -> 0 .. stableRuntime]
    /\ backoff \in [Child -> 0 .. restartMaximum]
    /\ age \in 0 .. staleAfter + 1
    /\ down \in [Part -> 0 .. Long]
    /\ rest \in [Child -> 0 .. Long]

CountsTyped ==
    /\ step \in [Child -> 0 .. StepCap]
    /\ crashes \in [Child -> 0 .. StepCap]
    /\ faults \in 0 .. MaxFaults
    /\ losses \in 0 .. MaxLosses

ControlTyped ==
    /\ main \in {"bridge", "resolvers", "serving", "exited"}
    /\ phase \in [Child -> Phase]

ReportTyped == wire \in Snapshot \cup {NoState} /\ snapshot \in Snapshot \cup {NoState}

Typed == FlagsTyped /\ TimesTyped /\ CountsTyped /\ ControlTyped /\ ReportTyped

(* Where a manager has no process, it has published none; and nobody is    *)
(* managed before main has got that far.                                   *)
ManagerInv ==
    \A c \in Child :
        /\ phase[c] \in {"none", "spawn", "waiting", "done"} => ~alive[c] /\ ~up[c]
        /\ phase[c] = "started" => ~up[c]
        /\ main = "bridge" \/ (main = "resolvers" /\ c = mosdns) => phase[c] = "none"
        /\ main = "exited" => phase[c] \in {"none", "done"}

(* What runs, is published or is reported on its way has not been down;    *)
(* what was reported up has been down no longer than the report is old.    *)
DownInv ==
    /\ \A c \in Child : alive[c] \/ up[c] \/ phase[c] = "started" => down[c] = 0
    /\ bridgeUp => down["bridge"] = 0
    /\ \A p \in Part : wire # NoState /\ wire[p] => down[p] = 0
    /\ \A p \in Part :
            snapshot # NoState /\ snapshot[p] /\ age <= staleAfter => down[p] <= age

IInv == Typed /\ ManagerInv /\ DownInv

LEMMA DelayBounded ==
    ASSUME NEW n
    PROVE  restartDelay(n) \subseteq 0 .. restartMaximum /\ restartDelay(n) \subseteq 0 .. MaxTimer
<1>1. restartDelay(n) \subseteq 0 .. restartMaximum
  <2> DEFINE nominal == exponentialDelay(restartInitial, restartMaximum, n)
  <2>1. restartDelay(n) = jitterDelay(nominal, restartMaximum)
    BY DEF restartDelay
  <2> HIDE DEF nominal
  <2> QED BY <2>1, SupervisorAssumption DEF jitterDelay
<1> QED BY <1>1, SupervisorAssumption DEF MaxTimer

LEMMA InitIInv == Init => IInv
<1> SUFFICES ASSUME Init PROVE IInv
  OBVIOUS
<1> USE SupervisorAssumption DEF Init
<1>1. FlagsTyped /\ ControlTyped /\ ReportTyped
  BY DEF FlagsTyped, ControlTyped, ReportTyped, Phase
<1>2. TimesTyped /\ CountsTyped
  BY DEF TimesTyped, CountsTyped, MaxTimer, Long
<1>3. ManagerInv /\ DownInv
  BY DEF ManagerInv, DownInv, Child, Part
<1> QED BY <1>1, <1>2, <1>3 DEF IInv, Typed

-----------------------------------------------------------------------------
(* Every step preserves it: the steps of one child ...                     *)

LEMMA ChildStep ==
    ASSUME IInv, NEW c \in Child, superviseChild(c) \/ Die(c)
    PROVE  IInv'
<1> USE SupervisorAssumption DEF IInv, Typed, FlagsTyped, TimesTyped, CountsTyped, ControlTyped,
        ReportTyped, Phase, ManagerInv, DownInv, Child, Part, childVars, stateVars, reportVars
<1> USE DEF to
<1>1. CASE Leave(c)
  <2>1. FlagsTyped' /\ ReportTyped' /\ ControlTyped'
    BY <1>1 DEF Leave
  <2>2. TimesTyped' /\ CountsTyped'
    BY <1>1 DEF Leave
  <2>3. ManagerInv' /\ DownInv'
    BY <1>1 DEF Leave
  <2> QED BY <2>1, <2>2, <2>3
<1>2. CASE Spawn(c)
  <2>1. FlagsTyped' /\ ReportTyped' /\ ControlTyped'
    BY <1>2 DEF Spawn
  <2>2. TimesTyped' /\ CountsTyped'
    BY <1>2 DEF Spawn, Long
  <2>3. ManagerInv' /\ DownInv'
    BY <1>2 DEF Spawn
  <2> QED BY <2>1, <2>2, <2>3
<1>3. CASE SpawnFails(c)
  <2>1. FlagsTyped' /\ ReportTyped' /\ ControlTyped'
    BY <1>3, DelayBounded DEF SpawnFails, schedule, nextStep, Smaller
  <2>2. TimesTyped' /\ CountsTyped'
    BY <1>3, DelayBounded DEF SpawnFails, schedule, nextStep, Smaller, Long
  <2>3. ManagerInv' /\ DownInv'
    BY <1>3, DelayBounded DEF SpawnFails, schedule, nextStep, Smaller
  <2> QED BY <2>1, <2>2, <2>3
<1>4. CASE Publish(c)
  <2>1. FlagsTyped' /\ ReportTyped' /\ ControlTyped'
    BY <1>4 DEF Publish
  <2>2. TimesTyped' /\ CountsTyped'
    BY <1>4 DEF Publish
  <2>3. ManagerInv' /\ DownInv'
    BY <1>4 DEF Publish
  <2> QED BY <2>1, <2>2, <2>3
<1>5. CASE Restart(c)
  <2>1. FlagsTyped' /\ ReportTyped' /\ ControlTyped'
    BY <1>5, DelayBounded DEF Restart, schedule, nextStep, Smaller
  <2>2. TimesTyped' /\ CountsTyped'
    BY <1>5, DelayBounded DEF Restart, schedule, nextStep, Smaller
  <2>3. ManagerInv' /\ DownInv'
    BY <1>5, DelayBounded DEF Restart, schedule, nextStep, Smaller
  <2> QED BY <2>1, <2>2, <2>3
<1>6. CASE WaitEnds(c)
  <2>1. FlagsTyped' /\ ReportTyped' /\ ControlTyped'
    BY <1>6 DEF WaitEnds
  <2>2. TimesTyped' /\ CountsTyped'
    BY <1>6 DEF WaitEnds
  <2>3. ManagerInv' /\ DownInv'
    BY <1>6 DEF WaitEnds
  <2> QED BY <2>1, <2>2, <2>3
<1>7. CASE Terminate(c)
  <2>1. FlagsTyped' /\ ReportTyped' /\ ControlTyped'
    BY <1>7 DEF Terminate
  <2>2. TimesTyped' /\ CountsTyped'
    BY <1>7 DEF Terminate, MaxTimer
  <2>3. ManagerInv' /\ DownInv'
    BY <1>7 DEF Terminate
  <2> QED BY <2>1, <2>2, <2>3
<1>8. CASE Kill(c)
  <2>1. FlagsTyped' /\ ReportTyped' /\ ControlTyped'
    BY <1>8 DEF Kill
  <2>2. TimesTyped' /\ CountsTyped'
    BY <1>8 DEF Kill
  <2>3. ManagerInv' /\ DownInv'
    BY <1>8 DEF Kill
  <2> QED BY <2>1, <2>2, <2>3
<1>9. CASE Reap(c)
  <2>1. FlagsTyped' /\ ReportTyped' /\ ControlTyped'
    BY <1>9 DEF Reap
  <2>2. TimesTyped' /\ CountsTyped'
    BY <1>9 DEF Reap
  <2>3. ManagerInv' /\ DownInv'
    BY <1>9 DEF Reap
  <2> QED BY <2>1, <2>2, <2>3
<1>10. CASE Die(c)
  <2>1. FlagsTyped' /\ ReportTyped' /\ ControlTyped'
    BY <1>10 DEF Die
  <2>2. TimesTyped' /\ CountsTyped'
    BY <1>10 DEF Die
  <2>3. ManagerInv' /\ DownInv'
    BY <1>10 DEF Die
  <2> QED BY <2>1, <2>2, <2>3
<1> QED BY <1>1, <1>2, <1>3, <1>4, <1>5, <1>6, <1>7, <1>8, <1>9, <1>10 DEF superviseChild

(* ... those of main, the bridge and the report ...                        *)
LEMMA ReportStep ==
    ASSUME IInv,
           \/ StartBridge \/ ListenFails \/ StartMosdns \/ BridgeEnds \/ Stop \/ Exit
           \/ Listen \/ Send \/ Receive
    PROVE  IInv'
<1> USE SupervisorAssumption DEF IInv, Typed, FlagsTyped, TimesTyped, CountsTyped, ControlTyped,
        ReportTyped, Phase, ManagerInv, DownInv, Child, Part, childVars, stateVars, reportVars
<1>1. CASE StartBridge
  <2>1. FlagsTyped' /\ ReportTyped' /\ ControlTyped'
    BY <1>1 DEF StartBridge
  <2>2. TimesTyped' /\ CountsTyped'
    BY <1>1 DEF StartBridge, Long
  <2>3. ManagerInv' /\ DownInv'
    BY <1>1 DEF StartBridge
  <2> QED BY <2>1, <2>2, <2>3
<1>2. CASE StartMosdns
  <2>1. FlagsTyped' /\ ReportTyped' /\ ControlTyped'
    BY <1>2 DEF StartMosdns
  <2>2. TimesTyped' /\ CountsTyped'
    BY <1>2 DEF StartMosdns
  <2>3. ManagerInv' /\ DownInv'
    BY <1>2 DEF StartMosdns
  <2> QED BY <2>1, <2>2, <2>3
<1>3. CASE BridgeEnds
  <2>1. FlagsTyped' /\ ReportTyped' /\ ControlTyped'
    BY <1>3 DEF BridgeEnds
  <2>2. TimesTyped' /\ CountsTyped'
    BY <1>3 DEF BridgeEnds
  <2>3. ManagerInv' /\ DownInv'
    BY <1>3 DEF BridgeEnds
  <2> QED BY <2>1, <2>2, <2>3
<1>4. CASE Stop
  <2>1. FlagsTyped' /\ ReportTyped' /\ ControlTyped'
    BY <1>4 DEF Stop
  <2>2. TimesTyped' /\ CountsTyped'
    BY <1>4 DEF Stop
  <2>3. ManagerInv' /\ DownInv'
    BY <1>4 DEF Stop
  <2> QED BY <2>1, <2>2, <2>3
<1>5. CASE Exit
  <2>1. FlagsTyped' /\ ReportTyped' /\ ControlTyped'
    BY <1>5 DEF Exit
  <2>2. TimesTyped' /\ CountsTyped'
    BY <1>5 DEF Exit
  <2>3. ManagerInv' /\ DownInv'
    BY <1>5 DEF Exit
  <2> QED BY <2>1, <2>2, <2>3
<1>6. CASE Listen
  <2>1. FlagsTyped' /\ ReportTyped' /\ ControlTyped'
    BY <1>6 DEF Listen
  <2>2. TimesTyped' /\ CountsTyped'
    BY <1>6 DEF Listen
  <2>3. ManagerInv' /\ DownInv'
    BY <1>6 DEF Listen
  <2> QED BY <2>1, <2>2, <2>3
<1>7. CASE Send
  <2>1. FlagsTyped' /\ ReportTyped' /\ ControlTyped'
    BY <1>7 DEF Send, current, Snapshot
  <2>2. TimesTyped' /\ CountsTyped'
    BY <1>7 DEF Send, current
  <2>3. ManagerInv' /\ DownInv'
    BY <1>7 DEF Send, current
  <2> QED BY <2>1, <2>2, <2>3
<1>8. CASE Receive
  <2>1. FlagsTyped' /\ ReportTyped' /\ ControlTyped'
    BY <1>8 DEF Receive
  <2>2. TimesTyped' /\ CountsTyped'
    BY <1>8 DEF Receive
  <2>3. ManagerInv' /\ DownInv'
    BY <1>8 DEF Receive
  <2> QED BY <2>1, <2>2, <2>3
<1>9. CASE ListenFails
  <2>1. FlagsTyped' /\ ReportTyped' /\ ControlTyped'
    BY <1>9 DEF ListenFails
  <2>2. TimesTyped' /\ CountsTyped'
    BY <1>9 DEF ListenFails
  <2>3. ManagerInv' /\ DownInv'
    BY <1>9 DEF ListenFails
  <2> QED BY <2>1, <2>2, <2>3
<1> QED BY <1>1, <1>2, <1>3, <1>4, <1>5, <1>6, <1>7, <1>8, <1>9

(* ... and time, which passes only when no manager has anything to do.     *)
LEMMA TickStep ==
    ASSUME IInv, Tick
    PROVE  IInv'
<1> USE SupervisorAssumption DEF IInv, Typed, FlagsTyped, TimesTyped, CountsTyped, ControlTyped,
        ReportTyped, Phase, ManagerInv, DownInv, Child, Part, childVars, stateVars, reportVars
<1>1. FlagsTyped' /\ ReportTyped' /\ ControlTyped' /\ CountsTyped'
  BY DEF Tick
<1>2. TimesTyped'
  BY DEF Tick, Smaller, MaxTimer, Long
<1>3. ManagerInv'
  BY DEF Tick
<1>4. ASSUME NEW c \in Child, up[c] \/ phase[c] = "started" PROVE alive[c]
  BY <1>4 DEF Tick, busy
<1>5. DownInv'
  <2>1. \A c \in Child : alive[c] => down'[c] = 0
    BY DEF Tick
  <2>2. \A c \in Child : alive'[c] \/ up'[c] \/ phase'[c] = "started" => down'[c] = 0
    BY <1>4, <2>1 DEF Tick
  <2>3. bridgeUp' => down'["bridge"] = 0
    BY DEF Tick
  <2>4. wire' = NoState
    BY DEF Tick
  <2>5. ASSUME NEW p \in Part, snapshot' # NoState, snapshot'[p], age' <= staleAfter
        PROVE  down'[p] <= age'
    <3>1. snapshot # NoState /\ snapshot[p] /\ age' = Smaller(age + 1, staleAfter + 1)
      BY <2>5 DEF Tick
    <3>2. age <= staleAfter /\ age' = age + 1
      BY <2>5, <3>1 DEF Smaller
    <3>3. down'[p] = 0 \/ down'[p] = Smaller(down[p] + 1, Long)
      BY DEF Tick
    <3>4. down[p] <= age /\ down[p] \in Nat /\ age \in Nat /\ Long \in Nat
      BY <3>1, <3>2 DEF Long
    <3> QED BY <3>2, <3>3, <3>4 DEF Smaller
  <2> QED BY <2>2, <2>3, <2>4, <2>5
<1> QED BY <1>1, <1>2, <1>3, <1>5

LEMMA StepIInv == IInv /\ [Next]_vars => IInv'
<1> SUFFICES ASSUME IInv, [Next]_vars PROVE IInv'
  OBVIOUS
<1>1. CASE UNCHANGED vars
  BY <1>1 DEF vars, childVars, stateVars, reportVars, IInv, Typed, FlagsTyped, TimesTyped,
     CountsTyped, ControlTyped, ReportTyped, ManagerInv, DownInv
<1> QED BY <1>1, ChildStep, ReportStep, TickStep DEF Next, Exited

LEMMA Invariance == Spec => []IInv
BY InitIInv, StepIInv, PTL DEF Spec

LEMMA IInvImplies == IInv => TypeOK /\ HonestHealth /\ NoOrphans
<1> SUFFICES ASSUME IInv PROVE TypeOK /\ HonestHealth /\ NoOrphans
  OBVIOUS
<1>1. TypeOK
  BY DEF IInv, Typed, FlagsTyped, TimesTyped, CountsTyped, ControlTyped, ReportTyped, Phase,
         MaxTimer, TypeOK
<1>2. ASSUME NEW p \in Part, live, snapshot[p] PROVE down[p] <= staleAfter
  <2>1. down[p] <= age /\ age <= staleAfter
    BY <1>2 DEF live, IInv, DownInv
  <2>2. down[p] \in Nat /\ age \in Nat
    BY DEF IInv, Typed, TimesTyped, Part, Child
  <2> QED BY <2>1, <2>2, SupervisorAssumption
<1>3. HonestHealth
  <2>1. ready = "ok" => live /\ \A p \in Part : snapshot[p]
    BY DEF ready, live, Part, Child
  <2>2. ready \in {"ok", "degraded"} => live /\ \A p \in {mosdns, "bridge"} : snapshot[p]
    BY DEF ready, live
  <2> QED BY <1>2, <2>1, <2>2 DEF HonestHealth, checkSupervisorHealth, Part, Child
<1>4. NoOrphans
  BY DEF NoOrphans, IInv, ManagerInv
<1> QED BY <1>1, <1>3, <1>4

-----------------------------------------------------------------------------
(* The pace of the restarts.  What is left of the delay is added to the    *)
(* rest a child has already had; only when nothing is left does a waiting  *)
(* manager go back to the top of its loop.                                 *)

(* The facts about the delay operators; the variables that BackoffProofs   *)
(* sweeps over, and their bounds, do not occur in them.                    *)
Delays == INSTANCE BackoffProofs WITH
    InitialBound <- restartMaximum, MaximumBound <- restartMaximum, StepBound <- StepCap,
    initial <- restartInitial, maximum <- restartMaximum, step <- step

(* The capped exponential delay after n crashes. *)
Nominal(n) == exponentialDelay(restartInitial, restartMaximum, n)

Counted(c) == step[c] = crashes[c] /\ (phase[c] = "none" => crashes[c] = 0)

WaitsLongEnough(c) ==
    /\ phase[c] = "waiting" =>
            crashes[c] > 0 /\ 5 * (rest[c] + timer[c]) >= 4 * Nominal(crashes[c])
    /\ phase[c] = "spawn" /\ crashes[c] > 0 => 5 * rest[c] >= 4 * Nominal(crashes[c])

PaceInv == \A c \in Child : Counted(c) /\ WaitsLongEnough(c)

LEMMA NominalBounded ==
    ASSUME NEW n \in Nat \ {0}
    PROVE  Nominal(n) \in 1 .. restartMaximum
<1>1. Nominal(n) \in restartInitial .. restartMaximum
  <2>1. Delays!exponentialDelay(restartInitial, restartMaximum, n) \in restartInitial .. restartMaximum
    BY SupervisorAssumption, Delays!ExponentialBounds
  <2> QED BY <2>1 DEF Nominal, Delays!exponentialDelay, exponentialDelay, Delays!Smaller, Smaller
<1> QED BY <1>1, SupervisorAssumption

LEMMA DelayPaced ==
    ASSUME NEW n \in Nat \ {0}, NEW delay \in restartDelay(n)
    PROVE  delay \in Nat /\ 5 * delay >= 4 * Nominal(n)
<1>1. Nominal(n) \in Nat \ {0} /\ Nominal(n) <= restartMaximum
  BY NominalBounded, SupervisorAssumption
<1>2. delay \in jitterDelay(Nominal(n), restartMaximum)
  BY DEF restartDelay, Nominal
<1>3. delay \in Delays!jitterDelay(Nominal(n), restartMaximum)
  BY <1>2 DEF jitterDelay, Delays!jitterDelay, Smaller, Delays!Smaller
<1> QED BY <1>1, <1>3, SupervisorAssumption, Delays!JitterBounds

(* The types a child's pace depends on. *)
LEMMA ChildTypes ==
    ASSUME IInv, NEW c \in Child
    PROVE  /\ timer[c] \in Nat /\ rest[c] \in Nat
           /\ step[c] \in 0 .. StepCap /\ crashes[c] \in 0 .. StepCap
           /\ StepCap \in Nat \ {0}
BY SupervisorAssumption
   DEF IInv, Typed, TimesTyped, CountsTyped, Part, MaxTimer, Long

(* A child no action touches keeps its pace, also when its manager moves   *)
(* to a phase in which nothing is due.                                     *)
LEMMA PaceKept ==
    ASSUME PaceInv, NEW c \in Child,
           step'[c] = step[c], crashes'[c] = crashes[c],
           \/ phase'[c] # "none" /\ phase'[c] # "waiting" /\ phase'[c] # "spawn"
           \/ phase'[c] = phase[c] /\ timer'[c] = timer[c] /\ rest'[c] = rest[c]
    PROVE  Counted(c)' /\ WaitsLongEnough(c)'
<1>1. Counted(c) /\ WaitsLongEnough(c)
  BY DEF PaceInv
<1>2. Counted(c)'
  BY <1>1 DEF Counted
<1>3. WaitsLongEnough(c)'
  BY <1>1 DEF WaitsLongEnough
<1> QED BY <1>2, <1>3

LEMMA SchedulePaced ==
    ASSUME IInv, IInv', PaceInv, NEW c \in Child, NEW ran \in Nat,
           schedule(c, ran), rest' = rest \/ rest' = [rest EXCEPT ![c] = 0]
    PROVE  PaceInv'
<1> DEFINE n == nextStep(c, ran)
<1>1. step[c] = crashes[c] /\ step[c] \in 0 .. StepCap /\ StepCap \in Nat \ {0}
  BY ChildTypes DEF PaceInv, Counted
<1>2. n \in Nat \ {0} /\ n = IF ran >= stableRuntime THEN 1 ELSE Smaller(crashes[c] + 1, StepCap)
  BY <1>1, SupervisorAssumption DEF nextStep, Smaller
<1>3. /\ phase' = [phase EXCEPT ![c] = "waiting"]
      /\ step' = [step EXCEPT ![c] = n]
      /\ crashes' = [crashes EXCEPT ![c] =
                IF ran >= stableRuntime THEN 1 ELSE Smaller(crashes[c] + 1, StepCap)]
      /\ \E delay \in restartDelay(n) : timer' = [timer EXCEPT ![c] = delay]
  BY DEF schedule, to
<1> HIDE DEF n
<1>4. /\ phase \in [Child -> Phase] /\ step \in [Child -> 0 .. StepCap]
      /\ crashes \in [Child -> 0 .. StepCap] /\ timer \in [Child -> 0 .. MaxTimer]
      /\ rest \in [Child -> 0 .. Long] /\ Long \in Nat
  BY SupervisorAssumption DEF IInv, Typed, ControlTyped, CountsTyped, TimesTyped, Long
<1>5. PICK delay \in restartDelay(n) : timer' = [timer EXCEPT ![c] = delay]
  BY <1>3
<1>6. delay \in Nat /\ 5 * delay >= 4 * Nominal(n)
  BY <1>2, DelayPaced
<1>7. phase'[c] = "waiting" /\ step'[c] = n /\ crashes'[c] = n /\ timer'[c] = delay
  BY <1>2, <1>3, <1>4, <1>5
<1>8. Counted(c)' /\ WaitsLongEnough(c)'
  <2>1. rest'[c] \in Nat /\ Nominal(n) \in Nat
    BY <1>2, <1>4, NominalBounded, SupervisorAssumption
  <2>2. n > 0 /\ 5 * (rest'[c] + delay) >= 4 * Nominal(n)
    BY <1>2, <1>6, <2>1
  <2>3. WaitsLongEnough(c)'
    BY <1>7, <2>2 DEF WaitsLongEnough, Nominal
  <2> QED BY <1>7, <2>3 DEF Counted
<1>9. ASSUME NEW x \in Child, x # c PROVE Counted(x)' /\ WaitsLongEnough(x)'
  <2>1. /\ step'[x] = step[x] /\ crashes'[x] = crashes[x]
        /\ phase'[x] = phase[x] /\ timer'[x] = timer[x] /\ rest'[x] = rest[x]
    BY <1>3, <1>4, <1>5, <1>9
  <2> QED BY <2>1, PaceKept
<1> QED BY <1>8, <1>9 DEF PaceInv

LEMMA ManagerPaced ==
    ASSUME IInv, IInv', PaceInv, NEW c \in Child, superviseChild(c) \/ Die(c)
    PROVE  PaceInv'
<1> USE DEF to, childVars, stateVars, reportVars
<1>1. /\ phase \in [Child -> Phase] /\ timer \in [Child -> 0 .. MaxTimer]
      /\ rest \in [Child -> 0 .. Long]
  BY DEF IInv, Typed, ControlTyped, TimesTyped, Part
<1>2. CASE SpawnFails(c)
  <2>1. schedule(c, 0) /\ rest' = [rest EXCEPT ![c] = 0]
    BY <1>2 DEF SpawnFails
  <2> QED BY <2>1, SchedulePaced
<1>3. CASE Restart(c)
  <2>1. schedule(c, runtime[c]) /\ rest' = rest /\ runtime[c] \in Nat
    BY <1>3, SupervisorAssumption DEF Restart, IInv, Typed, TimesTyped
  <2> QED BY <2>1, SchedulePaced
<1>4. CASE WaitEnds(c)
  <2>1. /\ phase[c] = "waiting" /\ timer' = timer /\ rest' = rest
        /\ step' = step /\ crashes' = crashes
        /\ \/ timer[c] = 0 /\ phase' = [phase EXCEPT ![c] = "spawn"]
           \/ phase' = [phase EXCEPT ![c] = "done"]
    BY <1>4 DEF WaitEnds
  <2>2. ASSUME NEW x \in Child, x # c PROVE Counted(x)' /\ WaitsLongEnough(x)'
    <3>1. phase'[x] = phase[x]
      BY <1>1, <2>1, <2>2
    <3> QED BY <2>1, <3>1, PaceKept
  <2>3. CASE phase' = [phase EXCEPT ![c] = "done"]
    <3>1. phase'[c] = "done"
      BY <1>1, <2>3
    <3>2. Counted(c)' /\ WaitsLongEnough(c)'
      BY <2>1, <3>1, PaceKept
    <3> QED BY <2>2, <3>2 DEF PaceInv
  <2>4. CASE timer[c] = 0 /\ phase' = [phase EXCEPT ![c] = "spawn"]
    <3>1. phase'[c] = "spawn"
      BY <1>1, <2>4
    <3>2. 5 * (rest[c] + 0) >= 4 * Nominal(crashes[c]) /\ step[c] = crashes[c]
      BY <2>1, <2>4 DEF PaceInv, Counted, WaitsLongEnough
    <3>3. 5 * rest[c] >= 4 * Nominal(crashes[c])
      <4>1. rest[c] + 0 = rest[c]
        BY ChildTypes
      <4> QED BY <3>2, <4>1
    <3>4. Counted(c)' /\ WaitsLongEnough(c)'
      BY <2>1, <3>1, <3>2, <3>3 DEF Counted, WaitsLongEnough, Nominal
    <3> QED BY <2>2, <3>4 DEF PaceInv
  <2> QED BY <2>1, <2>3, <2>4
<1>5. CASE Leave(c) \/ Spawn(c) \/ Publish(c) \/ Terminate(c) \/ Kill(c) \/ Reap(c)
  <2>1. /\ step' = step /\ crashes' = crashes
        /\ \E where \in {"done", "started", "running", "terminating", "killing"} :
                phase' = [phase EXCEPT ![c] = where]
    BY <1>5 DEF Leave, Spawn, Publish, Terminate, Kill, Reap
  <2>2. phase'[c] # "none" /\ phase'[c] # "waiting" /\ phase'[c] # "spawn"
    BY <1>1, <2>1
  <2>3. Counted(c)' /\ WaitsLongEnough(c)'
    <3>1. step'[c] = step[c] /\ crashes'[c] = crashes[c]
      BY <2>1
    <3> QED BY <2>2, <3>1, PaceKept
  <2>4. /\ timer' = timer \/ timer' = [timer EXCEPT ![c] = shutdownGrace]
        /\ rest' = rest \/ rest' = [rest EXCEPT ![c] = 0]
    BY <1>5 DEF Leave, Spawn, Publish, Terminate, Kill, Reap
  <2>5. ASSUME NEW x \in Child, x # c PROVE Counted(x)' /\ WaitsLongEnough(x)'
    <3>1. phase'[x] = phase[x] /\ timer'[x] = timer[x] /\ rest'[x] = rest[x]
      BY <1>1, <2>1, <2>4, <2>5
    <3> QED BY <2>1, <3>1, PaceKept
  <2> QED BY <2>3, <2>5 DEF PaceInv
<1>6. CASE Die(c)
  <2>1. /\ step' = step /\ crashes' = crashes /\ phase' = phase /\ timer' = timer
        /\ rest' = rest
    BY <1>6 DEF Die
  <2>2. \A x \in Child : Counted(x)' /\ WaitsLongEnough(x)'
    BY <2>1, PaceKept
  <2> QED BY <2>2 DEF PaceInv
<1> QED BY <1>2, <1>3, <1>4, <1>5, <1>6 DEF superviseChild

(* main starts a manager once, before its child can have crashed. *)
LEMMA OthersPaced ==
    ASSUME IInv, PaceInv,
           \/ StartBridge \/ ListenFails \/ StartMosdns \/ BridgeEnds \/ Stop \/ Exit
           \/ Listen \/ Send \/ Receive \/ UNCHANGED vars
    PROVE  PaceInv'
<1> USE DEF childVars, stateVars, reportVars
<1>1. step' = step /\ crashes' = crashes /\ timer' = timer
  BY DEF StartBridge, ListenFails, StartMosdns, BridgeEnds, Stop, Exit, Listen, Send, Receive,
         vars
<1>2. \A x \in Child : rest'[x] = rest[x]
  BY DEF StartBridge, ListenFails, StartMosdns, BridgeEnds, Stop, Exit, Listen, Send, Receive,
         vars
<1>3. ASSUME NEW x \in Child PROVE phase'[x] = phase[x] \/ (phase[x] = "none" /\ phase'[x] = "spawn")
  <2>1. CASE StartBridge
    BY <2>1 DEF StartBridge, IInv, ManagerInv
  <2>2. CASE StartMosdns
    BY <2>2 DEF StartMosdns, IInv, ManagerInv, Typed, ControlTyped, Child
  <2>3. CASE ~ (StartBridge \/ StartMosdns)
    BY <2>3 DEF ListenFails, BridgeEnds, Stop, Exit, Listen, Send, Receive, vars
  <2> QED BY <2>1, <2>2, <2>3
<1>4. ASSUME NEW x \in Child PROVE Counted(x)' /\ WaitsLongEnough(x)'
  <2>1. CASE phase'[x] = phase[x]
    BY <1>1, <1>2, <2>1, PaceKept
  <2>2. CASE phase[x] = "none" /\ phase'[x] = "spawn"
    <3>1. step'[x] = 0 /\ crashes'[x] = 0
      BY <1>1, <2>2 DEF PaceInv, Counted
    <3> QED BY <2>2, <3>1 DEF Counted, WaitsLongEnough
  <2> QED BY <1>3, <2>1, <2>2
<1> QED BY <1>4 DEF PaceInv

(* A second that passes moves one unit from the timer to the rest, or      *)
(* finds the rest longer than the longest delay there is.                  *)
LEMMA TimePaced ==
    ASSUME IInv, PaceInv, Tick
    PROVE  PaceInv'
<1>1. step' = step /\ crashes' = crashes /\ phase' = phase
  BY DEF Tick
<1>2. ASSUME NEW c \in Child PROVE Counted(c)' /\ WaitsLongEnough(c)'
  <2>1. Counted(c) /\ WaitsLongEnough(c)
    BY DEF PaceInv
  <2>2. Counted(c)'
    BY <1>1, <2>1 DEF Counted
  <2>3. phase'[c] # "spawn"
    BY <1>1 DEF Tick, busy
  <2>4. CASE phase[c] = "waiting"
    <3>1. ~alive[c] /\ timer[c] # 0 /\ c # "bridge" /\ c \in Part
      BY <2>4, SupervisorAssumption DEF Tick, busy, IInv, ManagerInv, Part, Child
    <3>2. rest'[c] = Smaller(rest[c] + 1, Long)
      BY <3>1 DEF Tick
    <3>3. timer'[c] = timer[c] - 1 /\ timer[c] \in Nat /\ rest[c] \in Nat
      BY <3>1, ChildTypes DEF Tick
    <3>4. /\ crashes[c] > 0 /\ 5 * (rest[c] + timer[c]) >= 4 * Nominal(crashes[c])
          /\ crashes[c] \in Nat \ {0}
      BY <2>1, <2>4, ChildTypes DEF WaitsLongEnough
    <3>5. Nominal(crashes[c]) \in 1 .. restartMaximum
      BY <3>4, NominalBounded
    <3>6. Long \in Nat /\ Long > restartMaximum /\ restartMaximum \in Nat
      BY SupervisorAssumption DEF Long
    <3>7. 5 * (rest'[c] + timer'[c]) >= 4 * Nominal(crashes[c])
      BY <3>1, <3>2, <3>3, <3>4, <3>5, <3>6 DEF Smaller
    <3>8. WaitsLongEnough(c)'
      BY <1>1, <2>3, <3>4, <3>7 DEF WaitsLongEnough, Nominal
    <3> QED BY <2>2, <3>8
  <2>5. CASE phase[c] # "waiting"
    BY <1>1, <2>2, <2>3, <2>5 DEF WaitsLongEnough
  <2> QED BY <2>4, <2>5
<1> QED BY <1>2 DEF PaceInv

LEMMA PaceInvariance == Spec => []PaceInv
<1>1. Init => PaceInv
  BY DEF Init, PaceInv, Counted, WaitsLongEnough
<1>2. IInv /\ IInv' /\ PaceInv /\ [Next]_vars => PaceInv'
  BY ManagerPaced, OthersPaced, TimePaced DEF Next, Exited
<1> QED BY <1>1, <1>2, Invariance, PTL DEF Spec

-----------------------------------------------------------------------------
(* The state of superviseChild in process.go, of the published components  *)
(* and of the health plugin keeps its types, for any number of children.   *)
THEOREM TypeCorrect == Spec => []TypeOK
BY Invariance, IInvImplies, PTL

(* Whatever datagrams of sendStateLoop are lost and whatever restarts,     *)
(* /readyz and the health check never trust a dead component for longer    *)
(* than staleAfter.                                                        *)
THEOREM HealthIsHonest == Spec => []HonestHealth
BY Invariance, IInvImplies, PTL

(* No interleaving of crashes, restarts and the shutdown lets a manager of *)
(* process.go, or the supervisor, end while a child of it is running.      *)
THEOREM NothingLeftBehind == Spec => []NoOrphans
BY Invariance, IInvImplies, PTL

(* However the crashes of a child, failed starts and the shutdown fall, no *)
(* child is started again before four fifths of the capped exponential     *)
(* delay for its failures in a row have passed since the last of them: the *)
(* delay superviseChild draws is never spent twice, and never on an        *)
(* earlier restart step.                                                   *)
THEOREM RestartsArePaced == Spec => []RestartPaced
<1>1. PaceInv => RestartPaced
  BY DEF PaceInv, WaitsLongEnough, RestartPaced, Nominal
<1> QED BY <1>1, PaceInvariance, PTL

-----------------------------------------------------------------------------
(* The end of a shutdown.                                                  *)

(* The steps that a manager may still have to take once a shutdown has     *)
(* begun, and the seconds it may have to wait for its child.               *)
Ahead(c) ==
    CASE phase[c] = "none" -> 2
      [] phase[c] = "waiting" -> 2
      [] phase[c] = "spawn" -> 1
      [] phase[c] = "started" -> 6 + shutdownGrace
      [] phase[c] = "running" -> 5 + shutdownGrace
      [] phase[c] = "terminating" -> 3 + timer[c]
      [] phase[c] = "killing" -> 1
      [] phase[c] = "done" -> 0

Alive(c) == IF alive[c] THEN 1 ELSE 0

(* ... and for its child to end. *)
Left(c) == Ahead(c) + Alive(c)

(* A child is only waited for as long as its grace lasts. *)
GraceInv == \A c \in Child : phase[c] = "terminating" => timer[c] <= shutdownGrace

LEMMA StepGraceInv ==
    ASSUME IInv, GraceInv, [Next]_vars
    PROVE  GraceInv'
<1> USE DEF to, childVars, stateVars, reportVars
<1>1. /\ phase \in [Child -> Phase] /\ timer \in [Child -> 0 .. MaxTimer]
      /\ \A x \in Child : timer[x] \in Nat
      /\ shutdownGrace \in Nat
  BY SupervisorAssumption DEF IInv, Typed, ControlTyped, TimesTyped, MaxTimer
<1>2. ASSUME NEW c \in Child, superviseChild(c)
      PROVE  \A x \in Child : \/ phase'[x] # "terminating"
                              \/ phase'[x] = phase[x] /\ timer'[x] = timer[x]
                              \/ timer'[x] = shutdownGrace
  <2>1. CASE SpawnFails(c) \/ Restart(c)
    <3>1. /\ phase' = [phase EXCEPT ![c] = "waiting"]
          /\ \E delay : timer' = [timer EXCEPT ![c] = delay]
      BY <2>1 DEF SpawnFails, Restart, schedule
    <3> QED BY <1>1, <3>1
  <2>2. CASE Terminate(c)
    BY <1>1, <2>2 DEF Terminate
  <2>3. CASE Leave(c) \/ Spawn(c) \/ Publish(c) \/ WaitEnds(c) \/ Kill(c) \/ Reap(c)
    <3>1. /\ timer' = timer
          /\ \E where : where # "terminating" /\ phase' = [phase EXCEPT ![c] = where]
      BY <2>3 DEF Leave, Spawn, Publish, WaitEnds, Kill, Reap
    <3> QED BY <1>1, <3>1
  <2> QED BY <1>2, <2>1, <2>2, <2>3 DEF superviseChild
<1>3. CASE \E c \in Child : superviseChild(c)
  <2>1. shutdownGrace <= shutdownGrace
    BY <1>1
  <2> QED BY <1>2, <1>3, <2>1 DEF GraceInv
<1>4. CASE Tick
  <2>1. phase' = phase
    BY <1>4 DEF Tick
  <2>2. ASSUME NEW x \in Child, timer[x] <= shutdownGrace PROVE timer'[x] <= shutdownGrace
    <3>1. timer'[x] = IF timer[x] > 0 THEN timer[x] - 1 ELSE 0
      BY <1>4 DEF Tick
    <3> QED BY <1>1, <2>2, <3>1
  <2> QED BY <2>1, <2>2 DEF GraceInv
<1>5. CASE StartBridge \/ StartMosdns
  <2>1. timer' = timer /\ \A x \in Child : phase'[x] = phase[x] \/ phase'[x] = "spawn"
    BY <1>1, <1>5 DEF StartBridge, StartMosdns
  <2> QED BY <2>1 DEF GraceInv
<1>6. CASE \/ ListenFails \/ BridgeEnds \/ Stop \/ Exit \/ Listen \/ Send \/ Receive
           \/ UNCHANGED vars
           \/ \E c \in Child : Die(c)
  <2>1. phase' = phase /\ timer' = timer
    BY <1>6 DEF ListenFails, BridgeEnds, Stop, Exit, Listen, Send, Receive, Die, vars
  <2> QED BY <2>1 DEF GraceInv
<1> QED BY <1>3, <1>4, <1>5, <1>6 DEF Next, Exited

LEMMA GraceInvariance == Spec => []GraceInv
<1>1. Init => GraceInv
  BY DEF Init, GraceInv
<1>2. IInv /\ GraceInv /\ [Next]_vars => GraceInv'
  BY StepGraceInv
<1> QED BY <1>1, <1>2, Invariance, PTL DEF Spec

LEMMA LeftBounded ==
    ASSUME IInv, GraceInv, NEW c \in Child
    PROVE  /\ Left(c) \in 0 .. shutdownGrace + 7
           /\ Left(c) = 0 => phase[c] = "done"
<1>1. phase[c] \in Phase /\ shutdownGrace \in Nat /\ timer[c] \in Nat
  BY ChildTypes, SupervisorAssumption DEF IInv, Typed, ControlTyped
<1>2. Ahead(c) \in 0 .. shutdownGrace + 6
  <2>1. CASE phase[c] = "terminating"
    <3>1. timer[c] <= shutdownGrace /\ Ahead(c) = 3 + timer[c]
      BY <2>1 DEF GraceInv, Ahead
    <3> QED BY <1>1, <3>1
  <2>2. CASE phase[c] # "terminating"
    BY <1>1, <2>2 DEF Phase, Ahead
  <2> QED BY <2>1, <2>2
<1>3. Ahead(c) = 0 => phase[c] = "done"
  <2>1. CASE phase[c] = "terminating"
    BY <1>1, <2>1 DEF Ahead
  <2>2. CASE phase[c] # "terminating"
    BY <1>1, <2>2 DEF Phase, Ahead
  <2> QED BY <2>1, <2>2
<1>4. \A a \in 0 .. shutdownGrace + 6 : a + 0 \in 0 .. shutdownGrace + 7 /\ a + 1 \in 0 .. shutdownGrace + 7
            /\ (a + 0 = 0 => a = 0) /\ a + 1 # 0
  BY <1>1
<1>5. CASE alive[c]
  <2>1. Left(c) = Ahead(c) + 1
    BY <1>5 DEF Left, Alive
  <2> QED BY <1>2, <1>4, <2>1
<1>6. CASE ~alive[c]
  <2>1. Left(c) = Ahead(c) + 0
    BY <1>6 DEF Left, Alive
  <2> QED BY <1>2, <1>3, <1>4, <2>1
<1> QED BY <1>5, <1>6

(* What a step of the manager does to what is ahead of it.                 *)
LEMMA AheadFalls ==
    ASSUME IInv, stopping, NEW c \in Child, superviseChild(c)
    PROVE  /\ Ahead(c)' < Ahead(c) /\ alive'[c] = alive[c]
           /\ \A x \in Child : x # c => phase'[x] = phase[x] /\ timer'[x] = timer[x]
                                         /\ alive'[x] = alive[x]
<1> USE DEF to, childVars
<1>1. /\ phase \in [Child -> Phase] /\ timer \in [Child -> 0 .. MaxTimer]
      /\ shutdownGrace \in Nat /\ timer[c] \in Nat
  BY SupervisorAssumption, ChildTypes DEF IInv, Typed, ControlTyped, TimesTyped
<1>2. ASSUME NEW where, phase' = [phase EXCEPT ![c] = where], UNCHANGED <<timer, alive>>
      PROVE  /\ phase'[c] = where /\ timer'[c] = timer[c] /\ alive'[c] = alive[c]
             /\ \A x \in Child : x # c => phase'[x] = phase[x] /\ timer'[x] = timer[x]
                                           /\ alive'[x] = alive[x]
  BY <1>1, <1>2
<1>3. CASE Leave(c)
  BY <1>1, <1>2, <1>3 DEF Leave, Ahead
<1>4. CASE Publish(c)
  BY <1>1, <1>2, <1>4 DEF Publish, Ahead
<1>5. CASE WaitEnds(c)
  BY <1>1, <1>2, <1>5 DEF WaitEnds, Ahead
<1>6. CASE Kill(c)
  <2>1. /\ phase[c] = "terminating" /\ phase' = [phase EXCEPT ![c] = "killing"]
        /\ UNCHANGED <<timer, alive>>
    BY <1>6 DEF Kill
  <2>2. Ahead(c) = 3 + timer[c] /\ Ahead(c)' = 1
    BY <1>2, <2>1 DEF Ahead
  <2>3. Ahead(c)' < Ahead(c)
    BY <1>1, <2>2
  <2> QED BY <1>2, <2>1, <2>3
<1>7. CASE Reap(c)
  BY <1>1, <1>2, <1>7 DEF Reap, Ahead
<1>8. CASE Terminate(c)
  <2>1. /\ phase[c] = "running" /\ phase'[c] = "terminating" /\ timer'[c] = shutdownGrace
        /\ alive'[c] = alive[c]
        /\ \A x \in Child : x # c => phase'[x] = phase[x] /\ timer'[x] = timer[x]
                                      /\ alive'[x] = alive[x]
    BY <1>1, <1>8 DEF Terminate
  <2> QED BY <1>1, <2>1 DEF Ahead
<1> QED BY <1>3, <1>4, <1>5, <1>6, <1>7, <1>8 DEF superviseChild, Spawn, SpawnFails, Restart

LEMMA LeftLess ==
    \A a, b \in Int, x, y \in {0, 1} :
        /\ b <= a /\ y <= x => b + y <= a + x
        /\ (b < a /\ y = x) \/ (b = a /\ y < x) => b + y < a + x
OBVIOUS

LEMMA SameLeft ==
    ASSUME NEW x \in Child,
           phase'[x] = phase[x], timer'[x] = timer[x], alive'[x] = alive[x]
    PROVE  Left(x)' = Left(x)
BY DEF Left, Ahead, Alive

LEMMA StepLeft ==
    ASSUME IInv, IInv', GraceInv, stopping, Next, NEW c \in Child
    PROVE  /\ Left(c)' <= Left(c)
           /\ superviseChild(c) \/ Die(c) => Left(c)' < Left(c)
           /\ Tick => \/ phase[c] \in {"none", "done"}
                      \/ phase[c] = "terminating" /\ Left(c)' < Left(c)
<1> USE DEF childVars
<1>1. /\ phase \in [Child -> Phase] /\ phase'[c] \in Phase /\ alive \in [Child -> BOOLEAN]
      /\ timer[c] \in Nat /\ timer'[c] \in Nat /\ shutdownGrace \in Nat
  BY SupervisorAssumption DEF IInv, Typed, FlagsTyped, ControlTyped, TimesTyped, MaxTimer
<1>2. /\ Ahead(c) \in Int /\ Ahead(c)' \in Int
      /\ Alive(c) \in {0, 1} /\ Alive(c)' \in {0, 1}
  <2>1. phase[c] \in Phase
    BY <1>1
  <2>2. Ahead(c) \in Int
    BY <1>1, <2>1 DEF Phase, Ahead
  <2>3. Ahead(c)' \in Int
    BY <1>1 DEF Phase, Ahead
  <2> QED BY <2>2, <2>3 DEF Alive
<1>3. ASSUME Ahead(c)' < Ahead(c), Alive(c)' = Alive(c) PROVE Left(c)' < Left(c)
  BY <1>2, <1>3, LeftLess DEF Left
<1>4. Left(c) \in Int /\ Left(c)' \in Int
  <2>1. \A a \in Int, x \in {0, 1} : a + x \in Int
    OBVIOUS
  <2> QED BY <1>2, <2>1 DEF Left
<1>5. superviseChild(c) => Left(c)' < Left(c)
  <2> SUFFICES ASSUME superviseChild(c) PROVE Left(c)' < Left(c)
    OBVIOUS
  <2>1. Ahead(c)' < Ahead(c) /\ alive'[c] = alive[c]
    BY AheadFalls
  <2>2. Alive(c)' = Alive(c)
    BY <2>1 DEF Alive
  <2> QED BY <1>3, <2>1, <2>2
<1>6. Die(c) => Left(c)' < Left(c)
  <2> SUFFICES ASSUME Die(c) PROVE Left(c)' < Left(c)
    OBVIOUS
  <2>1. alive[c] /\ ~alive'[c] /\ phase' = phase /\ timer' = timer
    BY <1>1 DEF Die
  <2>2. Ahead(c)' = Ahead(c) /\ Alive(c) = 1 /\ Alive(c)' = 0
    BY <2>1 DEF Ahead, Alive
  <2>3. Alive(c)' < Alive(c)
    BY <2>2
  <2> QED BY <1>2, <2>2, <2>3, LeftLess DEF Left
<1>7. ASSUME Tick
      PROVE  /\ Left(c)' <= Left(c)
             /\ \/ phase[c] \in {"none", "done"}
                \/ phase[c] = "terminating" /\ Left(c)' < Left(c)
  <2>1. /\ ~busy(c) /\ phase' = phase /\ alive' = alive
        /\ timer'[c] = IF timer[c] > 0 THEN timer[c] - 1 ELSE 0
    BY <1>7 DEF Tick
  <2>2. Alive(c)' = Alive(c)
    BY <2>1 DEF Alive
  <2>3. phase[c] \in {"none", "done", "terminating"}
    BY <1>1, <2>1 DEF busy, Phase
  <2>4. CASE phase[c] = "terminating"
    <3>1. timer[c] > 0
      BY <1>1, <2>1, <2>4 DEF busy
    <3>2. timer'[c] = timer[c] - 1
      BY <2>1, <3>1
    <3>3. Ahead(c) = 3 + timer[c] /\ Ahead(c)' = 3 + timer'[c]
      BY <2>1, <2>4 DEF Ahead
    <3>4. Ahead(c)' < Ahead(c)
      BY <1>1, <3>2, <3>3
    <3>5. Left(c)' < Left(c)
      BY <1>3, <2>2, <3>4
    <3> QED BY <1>4, <2>4, <3>5
  <2>5. CASE phase[c] \in {"none", "done"}
    <3>1. Ahead(c)' = Ahead(c)
      BY <2>1, <2>5 DEF Ahead
    <3>2. Left(c)' = Left(c)
      BY <2>2, <3>1 DEF Left
    <3> QED BY <1>4, <2>5, <3>2
  <2> QED BY <2>3, <2>4, <2>5
<1>8. ASSUME ~superviseChild(c), ~Die(c), ~Tick PROVE Left(c)' <= Left(c)
  <2>1. ASSUME phase'[c] = phase[c], timer'[c] = timer[c], alive'[c] = alive[c]
        PROVE  Left(c)' <= Left(c)
    BY <1>4, <2>1, SameLeft
  <2>2. ASSUME NEW x \in Child, x # c, superviseChild(x) PROVE Left(c)' <= Left(c)
    <3>1. phase'[c] = phase[c] /\ timer'[c] = timer[c] /\ alive'[c] = alive[c]
      BY <2>2, AheadFalls
    <3> QED BY <2>1, <3>1
  <2>3. ASSUME NEW x \in Child, x # c, Die(x) PROVE Left(c)' <= Left(c)
    <3>1. phase'[c] = phase[c] /\ timer'[c] = timer[c] /\ alive'[c] = alive[c]
      BY <1>1, <2>3 DEF Die
    <3> QED BY <2>1, <3>1
  <2>4. CASE StartBridge \/ StartMosdns
    <3>1. timer'[c] = timer[c] /\ alive'[c] = alive[c]
      BY <2>4 DEF StartBridge, StartMosdns
    <3>2. phase'[c] = phase[c] \/ (phase[c] = "none" /\ phase'[c] = "spawn")
      BY <1>1, <2>4 DEF StartBridge, StartMosdns, IInv, ManagerInv, Child
    <3>3. CASE phase[c] = "none" /\ phase'[c] = "spawn"
      <4>1. Ahead(c) = 2 /\ Ahead(c)' = 1 /\ Alive(c)' = Alive(c)
        BY <3>1, <3>3 DEF Ahead, Alive
      <4>2. Ahead(c)' < Ahead(c)
        BY <4>1
      <4>3. Left(c)' < Left(c)
        BY <1>3, <4>1, <4>2
      <4> QED BY <1>4, <4>3
    <3> QED BY <2>1, <3>1, <3>2, <3>3
  <2>5. CASE ListenFails \/ BridgeEnds \/ Stop \/ Exit \/ Listen \/ Send \/ Receive \/ Exited
    <3>1. phase' = phase /\ timer' = timer /\ alive' = alive
      BY <2>5 DEF ListenFails, BridgeEnds, Stop, Exit, Listen, Send, Receive, Exited, vars
    <3> QED BY <2>1, <3>1
  <2> QED BY <1>8, <2>2, <2>3, <2>4, <2>5 DEF Next
<1> QED BY <1>4, <1>5, <1>6, <1>7, <1>8

(* A requested shutdown of process.go is bounded, whenever it falls: while *)
(* children are being started, restarted or waited for, and whether or not *)
(* they obey SIGTERM.  Each step of a manager, the end of its child and    *)
(* each second that passes while it waits lower a bound of at most         *)
(* shutdownGrace + 7, which nothing raises; no second passes while a       *)
(* manager is anywhere but waiting for a child it told to end; and where   *)
(* the bound is zero, the manager has returned.                            *)
THEOREM ShutdownRunsDown ==
    Spec => /\ [][stopping =>
                    /\ stopping'
                    /\ \A c \in Child :
                        /\ Left(c)' <= Left(c)
                        /\ superviseChild(c) \/ Die(c) => Left(c)' < Left(c)
                        /\ Tick => \/ phase[c] \in {"none", "done"}
                                   \/ phase[c] = "terminating" /\ Left(c)' < Left(c)]_vars
            /\ [](\A c \in Child : /\ Left(c) \in 0 .. shutdownGrace + 7
                                   /\ Left(c) = 0 => phase[c] = "done")
<1>1. Next /\ stopping => stopping'
  BY DEF Next, StartBridge, ListenFails, StartMosdns, BridgeEnds, Stop, Exit, superviseChild,
         Leave, Spawn, SpawnFails, Publish, Restart, WaitEnds, Terminate, Kill, Reap, Die, Listen, Send,
         Receive, Tick, Exited, vars
<1>2. IInv /\ IInv' /\ GraceInv /\ [Next]_vars =>
        [stopping =>
            /\ stopping'
            /\ \A c \in Child :
                /\ Left(c)' <= Left(c)
                /\ superviseChild(c) \/ Die(c) => Left(c)' < Left(c)
                /\ Tick => \/ phase[c] \in {"none", "done"}
                           \/ phase[c] = "terminating" /\ Left(c)' < Left(c)]_vars
  BY <1>1, StepLeft
<1>3. IInv /\ GraceInv => \A c \in Child : /\ Left(c) \in 0 .. shutdownGrace + 7
                                           /\ Left(c) = 0 => phase[c] = "done"
  BY LeftBounded
<1> QED BY <1>2, <1>3, Invariance, GraceInvariance, PTL DEF Spec
=============================================================================
