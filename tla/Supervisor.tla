----------------------------- MODULE Supervisor -----------------------------
(***************************************************************************)
(* The supervisor of VelaDNS and its health report: superviseChild of      *)
(* cmd/veladns/process.go, one goroutine per child; the runtime state of   *)
(* state.go, sent once a second as a datagram; and the plugin inside       *)
(* MosDNS that receives it and answers /readyz                             *)
(* (internal/supervisorplugin/plugin.go).                                  *)
(*                                                                         *)
(* Time is counted in seconds.  A goroutine reacts to what it waits for    *)
(* within the second: Tick waits for reactions that are due, but not for   *)
(* children, which start, end and obey SIGTERM when they like.             *)
(***************************************************************************)
EXTENDS Backoff, FiniteSets

CONSTANTS
    Resolver,           \* the Unbound children
    mosdns,             \* the child the health plugin lives in
    NoState,            \* no datagram, no snapshot received yet
    restartInitial, restartMaximum, stableRuntime, shutdownGrace,
    staleAfter,         \* the age liveStatus accepts
    StepCap,            \* bound: the restart step counts no further than this
    MaxFaults,          \* bound: children and bridge listeners that fail
    MaxLosses           \* bound: datagrams that are lost

ASSUME SupervisorAssumption ==
    /\ mosdns \notin Resolver /\ "bridge" \notin Resolver \cup {mosdns}
    /\ restartInitial \in Nat \ {0}
    /\ restartMaximum \in Nat /\ restartMaximum >= restartInitial
    /\ stableRuntime \in Nat \ {0} /\ shutdownGrace \in Nat /\ staleAfter \in Nat
    /\ StepCap \in Nat \ {0}
    /\ MaxFaults \in Nat /\ MaxLosses \in Nat

ASSUME RestartStepCapAssumption ==
    exponentialDelay(restartInitial, restartMaximum, StepCap) = restartMaximum

Child == Resolver \cup {mosdns}

(* No history of downtime needs to be longer than this. *)
Long == restartMaximum + staleAfter + 1

VARIABLES
    stopping,   \* the termination signal has arrived: ctx is done
    main,       \* "bridge", "resolvers", "serving" or "exited"
    phase,      \* per child: where superviseChild is
    alive,      \* per child: whether its process runs
    step,       \* per child: the restart step
    timer,      \* per child: what is left of the restart delay or the grace
    runtime,    \* per child: time since startedAt, up to stableRuntime
    up, backoff,    \* per child: the published component
    bridgeUp,       \* the published state of the DoH bridge
    sendDue,    \* the sender's ticker has fired
    wire,       \* the datagram on its way
    listening,  \* the plugin has bound its socket
    snapshot, age,  \* what the plugin received last, and how long ago
    down,       \* per child and bridge (history): how long it has been down
    rest,       \* per child (history): time since it last ran or failed to start
    crashes,    \* per child (history): ends in a row without a stable run
    faults, losses

Part == Child \cup {"bridge"}
Snapshot == [Part -> BOOLEAN]

childVars == <<phase, alive, step, timer, runtime, crashes>>
stateVars == <<up, backoff, bridgeUp>>
reportVars == <<sendDue, wire, listening, snapshot, age>>
vars == <<stopping, main, childVars, stateVars, reportVars, down, rest, faults, losses>>

TypeOK ==
    /\ stopping \in BOOLEAN
    /\ main \in {"bridge", "resolvers", "serving", "exited"}
    /\ phase \in [Child -> {"none", "spawn", "started", "running", "waiting",
                            "terminating", "killing", "done"}]
    /\ alive \in [Child -> BOOLEAN]
    /\ step \in [Child -> 0 .. StepCap]
    /\ timer \in [Child -> 0 .. IF restartMaximum > shutdownGrace THEN restartMaximum ELSE shutdownGrace]
    /\ runtime \in [Child -> 0 .. stableRuntime]
    /\ up \in [Child -> BOOLEAN]
    /\ backoff \in [Child -> 0 .. restartMaximum]
    /\ bridgeUp \in BOOLEAN
    /\ sendDue \in BOOLEAN
    /\ wire \in Snapshot \cup {NoState}
    /\ listening \in BOOLEAN
    /\ snapshot \in Snapshot \cup {NoState}
    /\ age \in 0 .. staleAfter + 1
    /\ down \in [Part -> 0 .. Long]
    /\ rest \in [Child -> 0 .. Long]
    /\ crashes \in [Child -> 0 .. StepCap]
    /\ faults \in 0 .. MaxFaults
    /\ losses \in 0 .. MaxLosses

(* main has started sendStateLoop and is about to start the bridge. *)
Init ==
    /\ stopping = FALSE
    /\ main = "bridge"
    /\ phase = [c \in Child |-> "none"]
    /\ alive = [c \in Child |-> FALSE]
    /\ step = [c \in Child |-> 0]
    /\ timer = [c \in Child |-> 0]
    /\ runtime = [c \in Child |-> 0]
    /\ up = [c \in Child |-> FALSE]
    /\ backoff = [c \in Child |-> 0]
    /\ bridgeUp = FALSE
    /\ sendDue = TRUE
    /\ wire = NoState
    /\ listening = FALSE
    /\ snapshot = NoState /\ age = 0
    /\ down = [p \in Part |-> Long]
    /\ rest = [c \in Child |-> Long]
    /\ crashes = [c \in Child |-> 0]
    /\ faults = 0 /\ losses = 0

-----------------------------------------------------------------------------
(* main and the bridge.                                                    *)

(* startDoHBridge listens; the managers of the resolvers start. *)
StartBridge ==
    /\ main = "bridge"
    /\ main' = "resolvers"
    /\ bridgeUp' = TRUE
    /\ down' = [down EXCEPT !["bridge"] = 0]
    /\ phase' = [c \in Child |-> IF c \in Resolver THEN "spawn" ELSE phase[c]]
    /\ UNCHANGED <<stopping, alive, step, timer, runtime, crashes, up, backoff, reportVars,
                   rest, faults, losses>>

(* It cannot listen: main exits before it has started anything. *)
ListenFails ==
    /\ main = "bridge"
    /\ faults < MaxFaults
    /\ faults' = faults + 1
    /\ main' = "exited"
    /\ UNCHANGED <<stopping, childVars, stateVars, reportVars, down, rest, losses>>

(* waitForTCP has seen the resolvers, has run out of time or was stopped. *)
StartMosdns ==
    /\ main = "resolvers"
    /\ main' = "serving"
    /\ phase' = [phase EXCEPT ![mosdns] = "spawn"]
    /\ UNCHANGED <<stopping, alive, step, timer, runtime, crashes, stateVars, reportVars, down, rest,
                   faults, losses>>

(* A listener of the bridge ends with an error, or the bridge is closed. *)
BridgeEnds ==
    /\ bridgeUp
    /\ IF stopping THEN UNCHANGED faults ELSE faults < MaxFaults /\ faults' = faults + 1
    /\ bridgeUp' = FALSE
    /\ UNCHANGED <<stopping, main, childVars, up, backoff, reportVars, down, rest, losses>>

(* SIGTERM or SIGINT. *)
Stop ==
    /\ ~stopping
    /\ stopping' = TRUE
    /\ UNCHANGED <<main, childVars, stateVars, reportVars, down, rest, faults, losses>>

(* managers.Wait returns. *)
Exit ==
    /\ stopping /\ main = "serving"
    /\ \A c \in Child : phase[c] = "done"
    /\ main' = "exited"
    /\ UNCHANGED <<stopping, childVars, stateVars, reportVars, down, rest, faults, losses>>

-----------------------------------------------------------------------------
(* superviseChild, per child.                                              *)

to(c, where) == phase' = [phase EXCEPT ![c] = where]

(* Mutant: the delay is spread and doubled past the maximum. *)
restartDelayUncapped(n) ==
    jitterDelay(exponentialDelayUncapped(restartInitial, restartMaximum, n), 2 * restartMaximum)

restartDelay(n) == jitterDelay(exponentialDelay(restartInitial, restartMaximum, n), restartMaximum)

(* Mutant: the step starts again with every run, however short. *)
nextStepForgotten(c, ran) == 1

(* A run of stableRuntime resets the step before it is incremented. *)
nextStep(c, ran) == IF ran >= stableRuntime THEN 1 ELSE Smaller(step[c] + 1, StepCap)

(* The run, or the attempt to start one, has ended: publish the restart    *)
(* and wait.                                                               *)
schedule(c, ran) ==
    /\ to(c, "waiting")
    /\ step' = [step EXCEPT ![c] = nextStep(c, ran)]
    /\ crashes' = [crashes EXCEPT ![c] = IF ran >= stableRuntime THEN 1
                                         ELSE Smaller(@ + 1, StepCap)]
    /\ \E delay \in restartDelay(nextStep(c, ran)) :
            /\ timer' = [timer EXCEPT ![c] = delay]
            /\ backoff' = [backoff EXCEPT ![c] = delay]
    /\ up' = [up EXCEPT ![c] = FALSE]

(* The top of the loop, with the context done. *)
Leave(c) ==
    /\ phase[c] = "spawn" /\ stopping
    /\ to(c, "done")
    /\ UNCHANGED <<stopping, main, alive, step, timer, runtime, crashes, stateVars, reportVars,
                   down, rest, faults, losses>>

(* cmd.Start succeeds. *)
Spawn(c) ==
    /\ phase[c] = "spawn" /\ ~stopping
    /\ to(c, "started")
    /\ alive' = [alive EXCEPT ![c] = TRUE]
    /\ runtime' = [runtime EXCEPT ![c] = 0]
    /\ down' = [down EXCEPT ![c] = 0]
    /\ rest' = [rest EXCEPT ![c] = 0]
    /\ UNCHANGED <<stopping, main, step, timer, crashes, stateVars, reportVars, faults, losses>>

(* cmd.Start fails. *)
SpawnFails(c) ==
    /\ phase[c] = "spawn" /\ ~stopping
    /\ faults < MaxFaults
    /\ faults' = faults + 1
    /\ schedule(c, 0)
    /\ rest' = [rest EXCEPT ![c] = 0]
    /\ UNCHANGED <<stopping, main, alive, runtime, bridgeUp, reportVars, down, losses>>

(* Mutant: a restarted child is not published again. *)
PublishOnce(c) ==
    /\ phase[c] = "started"
    /\ to(c, "running")
    /\ up' = [up EXCEPT ![c] = step[c] = 0]
    /\ backoff' = [backoff EXCEPT ![c] = 0]
    /\ UNCHANGED <<stopping, main, alive, step, timer, runtime, crashes, bridgeUp, reportVars,
                   down, rest, faults, losses>>

(* The started child is published as up. *)
Publish(c) ==
    /\ phase[c] = "started"
    /\ to(c, "running")
    /\ up' = [up EXCEPT ![c] = TRUE]
    /\ backoff' = [backoff EXCEPT ![c] = 0]
    /\ UNCHANGED <<stopping, main, alive, step, timer, runtime, crashes, bridgeUp, reportVars,
                   down, rest, faults, losses>>

(* cmd.Wait has returned, and no shutdown is under way. *)
Restart(c) ==
    /\ phase[c] = "running" /\ ~alive[c] /\ ~stopping
    /\ schedule(c, runtime[c])
    /\ UNCHANGED <<stopping, main, alive, runtime, bridgeUp, reportVars, down, rest, faults, losses>>

(* The delay is over, or the shutdown ends it. *)
WaitEnds(c) ==
    /\ phase[c] = "waiting"
    /\ \/ timer[c] = 0 /\ to(c, "spawn")
       \/ stopping /\ to(c, "done")
    /\ UNCHANGED <<stopping, main, alive, step, timer, runtime, crashes, stateVars, reportVars,
                   down, rest, faults, losses>>

(* The shutdown reaches a running child: SIGTERM to its process group. *)
Terminate(c) ==
    /\ phase[c] = "running" /\ stopping
    /\ to(c, "terminating")
    /\ timer' = [timer EXCEPT ![c] = shutdownGrace]
    /\ UNCHANGED <<stopping, main, alive, step, runtime, crashes, stateVars, reportVars, down, rest,
                   faults, losses>>

(* Mutant: superviseChild returns after SIGKILL without waiting. *)
KillAndLeave(c) ==
    /\ phase[c] = "terminating" /\ alive[c] /\ timer[c] = 0
    /\ to(c, "done")
    /\ up' = [up EXCEPT ![c] = FALSE]
    /\ UNCHANGED <<stopping, main, alive, step, timer, runtime, crashes, backoff, bridgeUp,
                   reportVars, down, rest, faults, losses>>

(* Mutant: the grace period has no end. *)
KillNever(c) == FALSE /\ UNCHANGED vars

(* The grace period is over: SIGKILL. *)
Kill(c) ==
    /\ phase[c] = "terminating" /\ alive[c] /\ timer[c] = 0
    /\ to(c, "killing")
    /\ UNCHANGED <<stopping, main, alive, step, timer, runtime, crashes, stateVars, reportVars,
                   down, rest, faults, losses>>

(* The child has ended during the shutdown. *)
Reap(c) ==
    /\ stopping /\ ~alive[c]
    /\ phase[c] \in {"running", "terminating", "killing"}
    /\ to(c, "done")
    /\ up' = [up EXCEPT ![c] = FALSE]
    /\ UNCHANGED <<stopping, main, alive, step, timer, runtime, crashes, backoff, bridgeUp,
                   reportVars, down, rest, faults, losses>>

superviseChild(c) ==
    \/ Leave(c) \/ Spawn(c) \/ SpawnFails(c) \/ Publish(c) \/ Restart(c) \/ WaitEnds(c)
    \/ Terminate(c) \/ Kill(c) \/ Reap(c)

-----------------------------------------------------------------------------
(* The children.                                                           *)

(* A process ends: by itself, on SIGTERM or on SIGKILL.  The plugin inside *)
(* MosDNS ends with it, and with the plugin its socket and what it knew.   *)
Die(c) ==
    /\ alive[c]
    /\ IF phase[c] \in {"terminating", "killing"} THEN UNCHANGED faults
       ELSE faults < MaxFaults /\ faults' = faults + 1
    /\ alive' = [alive EXCEPT ![c] = FALSE]
    /\ IF c = mosdns
       THEN listening' = FALSE /\ wire' = NoState /\ snapshot' = NoState /\ age' = 0
       ELSE UNCHANGED <<listening, wire, snapshot, age>>
    /\ UNCHANGED <<stopping, main, phase, step, timer, runtime, crashes, stateVars, sendDue,
                   down, rest, losses>>

(* MosDNS has started far enough for initPlugin to bind the socket. *)
Listen ==
    /\ alive[mosdns] /\ ~listening
    /\ listening' = TRUE
    /\ UNCHANGED <<stopping, main, childVars, stateVars, sendDue, wire, snapshot, age, down, rest,
                   faults, losses>>

-----------------------------------------------------------------------------
(* The state report.                                                       *)

current == [p \in Part |-> IF p = "bridge" THEN bridgeUp ELSE up[p]]

(* sendState: nobody listens, the datagram is lost, or it is on its way. *)
Send ==
    /\ sendDue /\ wire = NoState
    /\ sendDue' = FALSE
    /\ \/ listening /\ wire' = current /\ UNCHANGED losses
       \/ ~listening /\ UNCHANGED <<wire, losses>>
       \/ listening /\ losses < MaxLosses /\ losses' = losses + 1 /\ UNCHANGED wire
    /\ UNCHANGED <<stopping, main, childVars, stateVars, listening, snapshot, age, down, rest, faults>>

(* readLoop takes the datagram. *)
Receive ==
    /\ wire # NoState
    /\ wire' = NoState
    /\ snapshot' = wire
    /\ age' = 0
    /\ UNCHANGED <<stopping, main, childVars, stateVars, sendDue, listening, down, rest, faults, losses>>

(* Mutant: a stale snapshot is as good as a fresh one. *)
liveEvenIfStale == snapshot # NoState /\ snapshot[mosdns]

live == snapshot # NoState /\ age <= staleAfter /\ snapshot[mosdns]

(* readyStatus. *)
ready ==
    IF ~live \/ ~snapshot["bridge"] THEN "unhealthy"
    ELSE IF \E r \in Resolver : ~snapshot[r] THEN "degraded"
    ELSE "ok"

(* The container's health check also accepts a degraded service. *)
checkSupervisorHealth == ready \in {"ok", "degraded"}

-----------------------------------------------------------------------------
(* Time.                                                                   *)

(* A goroutine of the supervisor or the plugin has something to do now. *)
busy(c) ==
    \/ phase[c] \in {"spawn", "started"}
    \/ phase[c] \in {"running", "terminating", "killing"} /\ ~alive[c]
    \/ phase[c] \in {"waiting", "terminating"} /\ timer[c] = 0
    \/ phase[c] \in {"running", "waiting"} /\ stopping
    \/ phase[c] = "killing"

Tick ==
    /\ \A c \in Child : ~busy(c)
    /\ wire = NoState /\ (sendDue => stopping) /\ (stopping => ~bridgeUp)
    /\ main # "exited"
    /\ sendDue' = TRUE
    /\ timer' = [c \in Child |-> IF timer[c] > 0 THEN timer[c] - 1 ELSE 0]
    /\ runtime' = [c \in Child |-> IF alive[c] THEN Smaller(runtime[c] + 1, stableRuntime)
                                   ELSE runtime[c]]
    /\ age' = IF snapshot = NoState THEN 0 ELSE Smaller(age + 1, staleAfter + 1)
    /\ down' = [p \in Part |->
                    IF (IF p = "bridge" THEN bridgeUp ELSE alive[p]) THEN 0
                    ELSE Smaller(down[p] + 1, Long)]
    /\ rest' = [c \in Child |-> IF alive[c] THEN 0 ELSE Smaller(rest[c] + 1, Long)]
    /\ UNCHANGED <<stopping, main, phase, alive, step, crashes, stateVars, wire, listening,
                   snapshot, faults, losses>>

Exited == main = "exited" /\ UNCHANGED vars

Next ==
    \/ StartBridge \/ ListenFails \/ StartMosdns \/ BridgeEnds \/ Stop \/ Exit
    \/ \E c \in Child : superviseChild(c) \/ Die(c)
    \/ Listen \/ Send \/ Receive
    \/ Tick
    \/ Exited

Spec == Init /\ [][Next]_vars

(* main, the managers, sender and plugin run, MosDNS binds its socket,     *)
(* time passes, and a process that got SIGKILL ends.  Nothing is assumed   *)
(* of SIGTERM, of crashes or of the arrival of the shutdown.               *)
Fairness ==
    /\ WF_vars(StartBridge) /\ WF_vars(StartMosdns) /\ WF_vars(stopping /\ BridgeEnds)
    /\ WF_vars(Exit) /\ WF_vars(Listen) /\ WF_vars(Send) /\ WF_vars(Receive) /\ WF_vars(Tick)
    /\ \A c \in Child : WF_vars(superviseChild(c)) /\ WF_vars(phase[c] = "killing" /\ Die(c))

FairSpec == Spec /\ Fairness

-----------------------------------------------------------------------------
(* Properties.                                                             *)

(* /readyz says "ok" only if no child and no listener of the bridge has    *)
(* been down for longer than a snapshot is trusted, whatever datagrams     *)
(* were lost and whatever restarted in between; and the health check       *)
(* passes only if that holds of MosDNS and of the bridge.                  *)
HonestHealth ==
    /\ ready = "ok" => \A p \in Part : down[p] <= staleAfter
    /\ checkSupervisorHealth => \A p \in {mosdns, "bridge"} : down[p] <= staleAfter

(* A child that keeps ending before it was stable, or cannot be started at *)
(* all, is not started again before four fifths of the capped exponential  *)
(* delay for the number of these failures have passed since the last one.  *)
RestartPaced ==
    \A c \in Child : phase[c] = "spawn" /\ crashes[c] > 0 =>
        5 * rest[c] >= 4 * exponentialDelay(restartInitial, restartMaximum, crashes[c])

(* The supervisor leaves no process behind: a manager that has returned    *)
(* has no child, and says so; an exited supervisor has none at all.        *)
NoOrphans ==
    \A c \in Child : phase[c] = "done" \/ main = "exited" => ~alive[c] /\ ~up[c]

(* A requested shutdown is completed, even if a child ignores SIGTERM or   *)
(* is being restarted at that moment.                                      *)
ShutsDown == stopping ~> main = "exited"

(* After the last failure the report becomes "ok" again and stays so,      *)
(* unless the supervisor is told to stop or has lost its bridge, which     *)
(* nothing restarts.                                                       *)
BecomesReady == <>[](stopping \/ ~bridgeUp \/ ready = "ok")
=============================================================================
