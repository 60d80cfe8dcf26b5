# VelaDNS in TLA+

A verification project for VelaDNS: TLA+ modules that model the concurrent and
failure-prone parts of the program, TLC configurations that check them on small
instances, and TLAPS proofs of the properties that matter most. `PROJECT.json`
lists the components, the runs, the source lines behind every definition, the
mutants that show each property can fail, the hazards, the findings and the
theorems.

    tlc -workers 2 -config MCCircuit.cfg MCCircuit     # one run
    tlapm CircuitProofs.tla                            # one proof module

## The system

| Component | State | Operations | Interacts with |
|---|---|---|---|
| AUTO_FORWARD circuit (`internal/circuitplugin`) | consecutive failures, backoff step, retry time, probing flag, two gauges; per query: permit, attempt, worker | `acquire`, `succeed`, `fail`, `Exec`, `attemptOnce` | runs in every MosDNS request of the foreign path; calls the forward plugin to Mihomo |
| DoH bridge (`cmd/veladns/dohbridge.go`) | per provider: backoff step, failures, retry time, probing | `ServeDNS`, `exchange`, `acquire`, `succeed`, `fail`, `record` | asked by Unbound; publishes observations into the runtime state |
| Dial-address cache (same file) | addresses, expiry | `get`, `invalidate`, `DialContext` | resolves through Mihomo; emptied by failed exchanges |
| Rule files (`internal/rulesplugin`) | the file on disk, matcher, last valid content, watcher, debounce timer | `newRuleFile`, `watch`, `reload`, `restoreOrClear`, `writeFileAtomic` | the operator edits the same files |
| Supervisor (`cmd/veladns/process.go`, `main.go`) | per child: process, restart step, delay | `superviseChild` | publishes into the runtime state |
| Runtime state and health plugin (`state.go`, `internal/supervisorplugin`) | published components; the last snapshot received and its age | `update`, `sendStateLoop`, `readLoop`, `liveStatus`, `readyStatus` | datagrams from the supervisor to the plugin inside MosDNS |
| Request path (`config/*.tmpl`, the fragment choice in `config.go`, `decisionplugin`) | per request: stage, response in hand, branches and timer of the current fallback, decisions counted | MosDNS sequences, fallback | calls the circuit and the resolvers |
| Request reporting (`requestmetricsplugin`, `cancelclassify`, the log filter of `tcpserverplugin`, the log writers of `process.go`) | gauge and counters; reports seen by the deduper; partial lines | `Exec`, `Expected`, `childLogWriter.Write`, `Flush`, `suppress` | MosDNS logs into two pipes that the supervisor reads |
| Domain lists at startup (`config.go`) | the file on disk | `prepareDomainLists`, `copyFile` | writes the files of the rule plugin before it runs |
| Health check (`healthcheck.go`) | none | `checkSupervisorHealth` | reads the health report |
| Rest of the configuration, TCP listener, logger, MosDNS build | none worth a model | | |

What is hard here: queries of different backoff episodes overlap in one circuit
breaker; workers outlive the attempt that started them; a request's deadline
can end a probe; caches and metrics are read and written in separate critical
sections; the rule plugin and the operator write the same file; children crash
while the supervisor shuts down; health is judged from datagrams that may be
lost; fallback branches, attempts and deadlines run against each other in one
request; one query's log lines come out of two pipes in any order. `PROJECT.json`
lists each hazard at its line.

## Modules

| Module | Models |
|---|---|
| `Backoff` | the retry delays of both breakers, as pure operators; `MCBackoff` checks them; proofs in `BackoffProofs` |
| `Breaker` | the abstract specification: what a circuit breaker promises |
| `Circuit` | the AUTO_FORWARD circuit; proofs in `CircuitProofs` |
| `DoHBridge` | the DoH bridge; proofs in `DoHBridgeProofs` |
| `DialCache` | the dial-address cache and the dials that use it; proofs in `DialCacheProofs` |
| `Supervisor` | children, restarts, shutdown, state datagrams, health verdict; proofs in `SupervisorProofs` |
| `RuleFile` | one rule file: its installation, its plugin, its operator and its restarts; proofs in `RuleFileProofs` |
| `RequestPath` | a request's way through the MosDNS sequences, composed with the circuit; proofs in `RequestPathProofs` |
| `RequestLog` | how a failed request reaches metrics and log; proofs in `RequestLogProofs` |

`Circuit`, `DoHBridge` and `Supervisor` extend `Backoff`. `Circuit` and
`DoHBridge` instantiate `Breaker` with a refinement mapping; `RequestPath`
instantiates it as the circuit itself. Each `MC` module extends its component and
defines the constants that a `.cfg` cannot write; the `.cfg` files fix the rest.
`MCRuleFile` also has a symmetry set, used by the two violation runs only.

Conventions shared by all modules:

* A critical section of a mutex is atomic; everything private to a goroutine up
  to its next access to shared state is merged into the same step.
* A point in time is the time left until it, and `Tick` counts it down. A
  random delay is a choice from the set of delays the code can draw.
* Failures of the environment are bounded by `MaxFaults` (and `MaxLosses`,
  `MaxEdits`, `MaxStops`, `MaxIOErrors`, `MaxRebuilds`). Nothing else is, except
  requests and processes in `RequestLog` (`MaxRequests`, `MaxGen`); the systems run
  on after the last failure, which is what the liveness properties are about.
  `RequestPath` bounds no failures: it has no liveness property.
* Counters that only feed metrics (totals of requests, failures, restarts), log
  lines and message contents are left out, except where reporting is the subject
  (`RequestLog`, the decisions of `RequestPath`).
* A definition whose comment starts with "Mutant" is not part of the model: it
  is a plausible bug, and a property must fail when it replaces the definition
  that follows it.

### Circuit

`consecutiveFailures`, `backoffStep`, `retryIn`, `probing` and the two gauges
are the struct's fields. A query is idle, inside `Exec`, or returned; inside
`Exec` it waits in the `select` of `attemptOnce`. `Admit` and `Bypass` are
`acquire`; `WorkerReturns` is the forward plugin; `Answered`, `Refused`,
`AttemptFailed`, `AttemptTimesOut` and `ContextEnded` are the ways the loop body
goes on, each with the `succeed` or `fail` it calls; `OrphanReturns` is a worker
that comes home after its attempt was given up. A query may carry the permit of
an earlier episode, so two probes can be in flight.

*Properties.* `CircuitCoherent`: fields and gauges never contradict each other.
`ResponseMatchesVerdict` and `WorkersAccounted`: late workers change nothing for
the caller and are all accounted for. `ProbeLostOnlyByContext`: the only way to
lose the probe of a half-open circuit is the end of a probe's own context.
`RecoversUnlessStranded`: a circuit that is not closed closes again, or has lost
its probe (`~ProbeHeld`); together with the previous property, only the end of a
probe's context can keep it from closing. `ImplementsBreaker`: the circuit
refines `Breaker`.

*Runs.* `circuit` has three queries (two probes and a query admitted before the
circuit opened are the interesting trio), one of which may lose its context, two
attempts, threshold 2 and the delays 3 and 5, so that the second step has a
jitter to choose from. Four faults open the circuit and fail a probe with all of
its attempts; the proofs cover any number. `circuit_stranded` asks for `Recovers`,
recovery without exception, and TLC finds the circuit half-open for ever.

*Fairness.* Time passes; `Exec` runs and the forward plugin ends every exchange
at its own five-second deadline; clients keep asking. Nothing is assumed about
contexts or about Mihomo, whose failures are only bounded in number.

### DoHBridge

Per provider the backoff fields, per query the position in the loop of
`ServeDNS`, the permit and what is left of the request's five seconds (`budget`;
an exchange spends at most `ClientTimeout` of it). `Skip`, `Acquire`,
`ExchangeSucceeds` and `ExchangeFails` are `exchange`; `Record` and `observe` are
the two critical sections of `record`; `Answer`, `TryNext` and `GiveUp` are the
rest of the loop. `Deadline` is a process that is held up until the request's time is
over, anywhere in the loop (`late` remembers it). The initial states include every
outcome of the startup probe.

*Properties.* `UpstreamsCoherent`; `EveryProbeReports`: an ended context is a
failure here, so no provider stays in its probe; `PreferenceRespected`: nobody is
passed over; `OneHangLeavesTime`: although all providers share one deadline, a single
one that hangs does not use it up, because the client's own timeout ends its exchange
first; `ImplementsBreaker` per provider; `PreferredRecovers`; all in the run
`dohbridge`. That two hanging providers leave no time for a third, and that a later
one may fail because too little is left, is how the code shares its deadline; no
property forbids it. The run `dohbridge_metric` shows that the published retry time
can be an old one.

*Bounds.* Two queries give every overlap of two permits at one provider. Three
providers let the time run out before the end of the list. With a threshold of 2 and
the failed startup probe of the first provider, three faults park two providers, or
park one and fail its probe. A budget of 2 and a client timeout of 1 stand for five
and three seconds: one hanging provider leaves some time, two leave none.

*Fairness.* Time passes, `ServeDNS` runs to its end because every exchange has a
timeout, and queries keep coming. Providers fail a bounded number of times.

### DialCache

An address is the number of the fake-IP pool it comes from. `get` is `Hit`, or
`Miss`, `Resolve` and `Store` with the mutex released in between. The HTTP
transport runs a dial on when its exchange is gone (`waited`); this is external
code, modelled by what `exchange` and `DialContext` rely on. An exchange fails with its
dial, while it waits for one (`ExchangeTimesOut`), or over a connection it found
(`ExchangeFails`), and empties the cache each time. A dial to an old pool's address
must fail, because the certificate is another domain's.

The run `dialcache` asks whether dials come to use the current address after the
last rebuild, for two independent reasons. `ExpiryConverges`: if time passes, the
TTL is enough, even if other connections hide every failure. `FailureConverges`:
if they stop doing so, failed exchanges are enough, even if time stands still.
Without either condition it is false. Both hold although an address resolved
before a failure can be stored after the invalidation, which discards nothing
newer (the comment at `dohbridge.go:29` says that addresses are discarded as soon
as an exchange fails; such an address is used once more, then discarded again).
Three dials and two rebuilds let a dial of each pool be under way at once.
*Fairness:* dials proceed, as each step has a timeout, and exchanges keep coming.

### Supervisor

Per child the program counter of `superviseChild`, its process, the restart step
and the timer; the published state; the datagram on its way; what the plugin
knows. The plugin lives in MosDNS and loses everything when MosDNS dies. Time is
in seconds and the goroutines' own reactions take none: `Tick` waits for them.
This matches delays of a second and more against reactions of milliseconds; the
children themselves are not bound by it. A bridge that cannot listen ends the process
before it has a child (`ListenFails`); the container's restart policy then starts a
new one, which is `Init` again.

*Properties.* `HonestHealth`: a report "ok" is never older than `staleAfter`,
whatever is lost, and the container's health check, which also accepts "degraded",
never passes longer than that without MosDNS or the bridge; `RestartPaced`: after
each crash and each failed start (`rest` counts the time since the last of either) at
least four fifths of the capped exponential delay pass; `NoOrphans` and
`ShutsDown`: the shutdown leaves nothing behind and ends; `BecomesReady`: the
report recovers, unless the bridge is lost, which nothing restarts.

The run `supervisor` checks all of them for MosDNS and one resolver, which
share the published state and the shutdown but nothing else; delays 2 and 3 reach
the cap at the second crash, and two lost datagrams make a snapshot outdated.
*Fairness:* the goroutines run, time passes, MosDNS binds its socket, a killed
process ends.

### RuleFile

A content is a set of rules in typed form, a set in short form, and whether it
has an invalid line or comments; sizes are counted in units so that the typed
form is longer than the short one. `Boot`, `Seed` and `BootFails` are
`prepareDomainLists`, which puts the shipped list (`Default`) where none is; `Read`,
`Write` and `Swap` are the steps of `reload`. The operator may `Save` between any of
them, MosDNS or the whole container may `Stop` anywhere, reads, writes and watches
may fail, and the watcher's queue may overflow (`EventLost`).

*Properties.* `PolicyNotLost`: within a process nothing but an acceptable content
changes the policy. `FileIsPolicy`: at rest the file is the policy.
`UnracedSaveIsPolicy`: at rest the last acceptable save is in force, if it fell
into neither of the program's two windows, between a look at the file and the
write it leads to (a reload's write-back, or the installation of a missing list)
and between the first read and the watcher (`window`, remembered in `fell`);
earlier saves may have. At rest includes that the last reload did not fail and no
event was lost since: the code repairs neither before the next event. `Settles`:
the plugin does not answer its own writes for ever. The run `rulefile` checks them
with two rules and a limit of 4 units: the typed form of both rules just fits,
while contents with comments or invalid lines can exceed it. Two edits, a stop and
an I/O error, at any moment, are enough for an edit to race the reload of another
and for a restart in either's middle.

`SavedIsPolicy` drops the condition about windows. `rulefile_lost_save` shows that
a save inside the first window is overwritten (one inside the second raises no
event and waits for the next change, which is why `window` has to name it); with a
limit that the typed form can exceed, `rulefile_growth` shows that a list nobody
touched is cleared at the next start. Until then the plugin is not at rest either:
it finds its own file too large, writes the last good content, which is that same
file, back without comparing, and its watcher reports the write. `Settles` is false
with that limit, which is why the theorem about it has a hypothesis. Deadlock is not checked: once the edits are
used up, a plugin at rest has nothing to do. *Fairness:* the plugin's goroutine
runs, its timer fires, the supervisor starts a stopped MosDNS again, and the
container's restart policy the container.

A restart before an unacceptable edit was undone clears the policy, because the
last valid content is in memory only and the code clears an unusable file on its
first load; no property here forbids it.

### RequestPath

Each request has a stage: the classifier's fallback, one of the single encrypted
lookups, the fake-IP fallback, or over. `route`, `classified`, `validated` and
`startStandby` are the sequences of the templates between two lookups, merged into
the step that starts or ends a lookup; each counts the decisions that
`veladns_decision` counts there. `auto` chooses between the two foreign-path
fragments, once. Requests share only the circuit, which appears as `Breaker`: that
the code's circuit implements it is `ImplementsBreaker`, proved as `RefinesBreaker`.
Which failure opens a closed circuit is left open.

External, and modelled from how the templates rely on it: a fallback returns the
first branch that brings a response, starts its stand-by when the primary fails or
the threshold has passed, and fails when both did; a sequence that ends in an
error is answered SERVFAIL; the entry handler gives a request five seconds and
ends its context when a TCP client goes. Whether that end reaches a circuit call
that is still running is left open, so the call may go on and report, or return in silence.

A lookup replaces the response in the query context, and an error is answered
SERVFAIL whatever response is there. So the plaintext response that `drop_resp` takes
out of the context (`mosdns.yaml.tmpl:113`) could not reach a client without it
either, and `classified` does not keep it: what the model tests is the CN check in
front of `accept`, not that second line of defence.

Every lookup may answer, fail or stay silent at any time. The unit of time is
400 ms, which makes the circuit's two attempts of 800 ms, the thresholds of two
seconds and the circuit call's 1.6 seconds whole numbers; the five seconds round
down to 12 units, against the properties. `Tick` waits for reactions that are due, as
these take microseconds.

*Properties.* `NoPlaintextAnswer`, `RoutedByPolicy`: no failure or race hands out an
answer of the wrong resolver. `OnlyEncryptedIsVital`: no behaviour of the recursive
resolver and of Mihomo alone refuses a request. `CountsTellReply`: the stand-by
never pre-empts a circuit call, and the decision counters tell what the client
got. `ProbeLostOnlyIfSlowOrGone`: which requests can strand the circuit. This is
the composed counterpart of `ProbeLostOnlyByContext`: in a request nobody leaves,
the context ends a probe only if the encrypted resolver failed it or took time before. The
run `requestpath` has one request that may ask anything and leave, and one that
goes to Mihomo, which is where two requests meet.

An encrypted answer is not tested for CN addresses: the templates treat an unknown
name whose plaintext answer was not CN as foreign whatever the encrypted one says.

### RequestLog

`Begin` and `Finish` are `collector.Exec` around the rest of the sequence, together
with what the handler and the branches log; `withheld` is the TCP server's filter;
`Log` puts a line into a pipe; `Write`, `Flush` and `Emit` are the child log writers,
which judge a line under the deduper's mutex and print it afterwards; `Die` and
`Restart` change the process, its query numbers and its deduper. An error is a
deadline, a client's departure or another one: `Expected` looks for texts, and any
error that carries one of them counts as a departure. After a failed write the
lines behind it count as lost. A line cut by the end of its process matches nothing
in the deduper; in the code one cut behind the words it looks for still would, and be
judged like a whole line. The filters for failed response writes and for
Unbound's startup notice are left out.

*Properties.* `SuppressedOnlyIfReported`: a warning is left out only if the report
of the same query of the same process is there. It may not be printed yet: the
deduper knows a report before its writer prints it. `FailureReported`: what
`err_total` counts can be read in the log, unless the process or its output is
lost. That takes a log level that shows warnings; with `error` MosDNS writes none. The run `requestlog` has two requests, over at most two processes, on a TCP
listener of the main path and a UDP listener of the secure path: one whose
reports make warnings redundant and can be withheld, and one of neither kind. A
window of one unit lets a report expire between two lines. Deadlock is not
checked, as requests are bounded. *Fairness:* MosDNS and the writers run.

## Findings

| Run | Shows |
|---|---|
| `circuit_stranded` | a probe whose context ends leaves the circuit half-open for good |
| `dohbridge_metric` | the published retry time can be older than the one it replaces |
| `rulefile_lost_save` | a save between a reload's read and its write-back is overwritten |
| `rulefile_growth` | a list can outgrow the limit by being cleaned; it is then rewritten after every debounce, and cleared at the next start |

## Proofs

All theorems hold for every value of the constants that satisfies the named
assumptions: any set of queries, any number of providers, any threshold, number
of attempts and delays. The delays' only assumption is that the step cap is
large enough for the delay to have reached the maximum; `StepCapLosesNothing`
proves that capping the step there loses nothing.

Liveness under fairness is out of the prover's reach, but what such a property
rests on is not: a rank, a number that every step of the actor lowers, that no other
step raises, that is bounded, and that is zero only at the goal. The theorems below
whose names end in `RunsDown` or `RunsOut`, and `ComesToRest`, prove that much for
all constants. What they leave to TLC is that the actor's step is enabled until
then and that fairness makes it happen. The ranks were checked with TLC first.

`BackoffProofs`, which extends `MCBackoff`: what the doubling loops compute, for
every initial delay, maximum and step (`LoopIsCappedPower`, `SpreadIsBounded`,
`CopiesAlwaysAgree`, `StepCapLosesNothing`). The loops are recursive functions, so
this needs induction over the naturals, and an induction theorem with an operator
as parameter is out of the prover's reach. A set does in its place:
`NatSetInduction` says that a set with 0 and all successors of its members contains
every natural, since the rest would have a least element. `LoopExists` then shows
that the recursive definition has a solution, and the closed form follows one
iteration at a time. The provers do not know powers either: `PowerDoubles` counts
subsets, of which n elements have 2^n.

`CircuitProofs`: the inductive invariant `IInv` has two parts. `CircuitIInv`
relates the fields: open exactly at the threshold, no wait while closed or
probing, gauges in step. `QueryIInv` relates each query's variables: a response
exactly with the verdict "answered", fewer abandoned workers than attempts. The
first is needed because `fail` decides on one field what it writes into the
others; the second because a worker may return in any phase. From `IInv` follow
`TypeCorrect`, `AlwaysCoherent`, `NoLateMutation`, `WorkersBounded`,
`OnlyContextStrands` (an action property), `ProbeNeverLost` (for `Expiring = {}`),
and `RefinesBreaker`, which maps every action to a step of `Breaker` or a stutter.
`QueryRunsDown` ranks a query with its workers: an attempt costs two steps, since
either its worker returns and the loop goes on, or the loop goes on and the worker
returns as an orphan, so Exec and everything it started are gone after
2 * attempts + 1 steps.

`DoHBridgeProofs`: the same plan per provider: `TypeCorrect`, `AlwaysCoherent`,
`NoProbeLost`, `AlwaysByPreference`, `NoSingleHang` and `RefinesBreaker`. `AlwaysByPreference` rests on
the fact that a query at provider n has been refused or failed by all providers
before it. In the refinement a step of one provider is a stutter of the others.
`NoSingleHang` needs `TimeInv`: what a request has spent is accounted for by the
providers that failed it, at most the client's timeout each, so that with
`ClientTimeout < RequestBudget` (`TimeoutAssumption`, three and five seconds) an empty
budget means two failures. `RequestRunsDown` ranks a request: four steps per provider
still to come, and a budget that never grows, so every query is replied to.

`DialCacheProofs`: `TypeCorrect`, `OldAddressRunsOut`, `StaysFresh`. After a rebuild
an old address is in the cache, with a dial that has resolved but not stored (a
laggard), or with a dial that is connecting. Only a rebuild makes laggards, and one
is gone when it stores; so one TTL per laggard plus what is left of the cached
address's own TTL (`Allowance`) bounds the time for which `get` hands out old
addresses. Nothing but a rebuild raises it, every tick with an old address in the
cache lowers it, and a dial starts at an old address only while it is positive.
That needs finitely many dials, which `DialCacheAssumption` says. Once no old
address is left that `get` would hand out or a dial has, none comes back
(`StaysFresh`); an expired one may stay in the cache, as nothing reads it.

`SupervisorProofs`: `TypeCorrect`, `HealthIsHonest`, `NothingLeftBehind`,
`RestartsArePaced`. The key to the second is
`DownInv`: what runs, is published or is on the wire has a downtime of zero, because
time does not pass while a manager has a dead child to report or a datagram is on
its way; so a component that a snapshot calls up has been down no longer than the
snapshot is old. `ManagerInv` says in which phases a manager has no process.
`RestartsArePaced` needs a second invariant, `PaceInv`: while a manager waits, the
time since the last crash or failed start plus what is left of the delay is at least
four fifths of the nominal delay for these failures in a row, which the restart step
counts exactly; each second moves one unit from the timer to that time. The facts about the delays come from
an instance of `BackoffProofs`. `ShutdownRunsDown` ranks each child in a shutdown: the
steps its manager has ahead, the seconds of grace it may still wait, and whether its
process lives. Time passes only while a manager waits out the grace, so after
`shutdownGrace` seconds nobody waits any longer (`GraceInv`).

`RuleFileProofs`: `TypeCorrect`, `FileTellsPolicy`, `PolicyKept`. The invariant
follows a content through reload: `DecisionInv` relates what was read to what will
be written and put in force, `FileInv` says that the file is exactly that as long
as no event is pending, lost or was never raised. Nothing is assumed of the size
limit, so these proofs cover the lists of `rulefile_growth` too. `UnracedSaveInForce`
does have a hypothesis, `CleaningFits`: an acceptable list stays acceptable when it
is cleaned. `rulefile_growth` shows that it cannot be dropped, and `TypedRulesFit`
that it holds whenever all rules fit in their typed form. Its invariant `SavedInv`
says that until the next save the file is the saved list or its cleaned form, and
that nothing else is about to be written. `ComesToRest` needs the same hypothesis.
Its rank adds up what is left of a start, of a reload, of the watcher's debounce and
of a write that is due (`WriteDue`); a write raises an event, so it pays for the
reload that follows, and that reload finds a file which is `Settled` and writes
nothing. Steps that fail are not counted: the code gives up there and waits for the
next event.

`RequestPathProofs`: for `TypeCorrect`, `PlaintextOnlyClassifies` and
`PolicyAlwaysRoutes` the invariant (`Sound`) is about one request, since requests
share only the circuit: which questions can be at which stage, which response can
be in hand there, and that Mihomo's attempt is counted before any stand-by starts.
One lemma per sequence of the templates shows that it leads from sound to sound.
The timings play no part, so these hold for any thresholds and deadlines.

`RefusedOnlyForEncrypted`, `CountersTellTheReply` and `ProbeSurvivesMihomo` are about
time. They rest on `PaceAssumption`, the order of the times in the templates: all
attempts of a circuit call (2 of 800 ms) are over before a stand-by's threshold
(2 s), and the two together fit the handler's limit (5 s). Any times in that order
will do. The invariant (`Paced`) adds to `Sound` which branches of a fallback run at
which stage (`Branches`), that the stand-by's timer is ahead of the circuit call's
budget by a constant (`Lasting`), how much time a request has left at each stage
unless the encrypted resolver was slow (`Room`, used by `Vital`), and what has been
counted so far (`Told`). `RepliedOnce` follows from it: a request that is over has no
branch left but its circuit call, which changes neither reply nor question.

`RequestLogProofs`: `TypeCorrect`, `GaugeCountsRequests`, `NothingSilentlyDropped`. A
warning is suppressed because the deduper knows a boundary report. The invariant
says that it only knows reports of the running process that are printed, lost or in
a writer's hand (`BoundariesKnown`), and that the lines on their way are of the
running process (`LinesCurrent`), so that no query number of an earlier process is
mistaken for one of this. `CountedFailuresTraced` and `ReportsConserved` follow a
boundary report from the counter to the output: it is with the process, in a pipe,
in a writer's hand, printed, lost, or died with the process (`Traced`), and no step
takes it out of all of them. Only warnings are ever suppressed.

Only model-checked: the liveness properties themselves (`RecoversUnlessStranded`,
`PreferredRecovers`, `ShutsDown`, `BecomesReady`, `Settles`,
`FailureReported`, `ExpiryConverges` and `FailureConverges`), since the prover reaches
neither fairness nor ENABLED. Every invariant and every action property that a
passing run checks is also a theorem.

## Not modelled, and the plan

Not modelled, because they keep no state and only format, parse or wire things up:
the validation of the two environment variables and the substitution of templates;
the DNS query of the health check, which is a request like any other; the set-up of the TCP
listener; the logger; the latency histogram and the metrics endpoints; the MosDNS
build. Unbound, Mihomo and MosDNS itself appear as the environment's choices.

Left, in this order:

1. `RuleLines`: `sanitizeRules` and `normalizeRule` on bounded lines, with the
   idempotence that `RuleFile` takes for granted.
2. A composition of `DoHBridge` and `DialCache`: how many failures a pool rebuild
   costs a provider.
