------------------------------ MODULE DialCache ------------------------------
(***************************************************************************)
(* The dial addresses of a bootstrapped DoH provider: dialAddressCache and *)
(* the DialContext that uses it, in cmd/veladns/dohbridge.go.              *)
(*                                                                         *)
(* Mihomo resolves the provider to a fake IP.  The fake IP is good until   *)
(* Mihomo rebuilds its pool, so a resolved address is abstracted to the    *)
(* number of the pool it comes from.  get releases the mutex while it      *)
(* resolves; a dial runs in a goroutine of the HTTP transport that goes on *)
(* when the exchange that asked for it has failed or was served otherwise. *)
(***************************************************************************)
EXTENDS Integers, FiniteSets

CONSTANTS
    Dial,               \* the dials that may be under way at once
    dialAddressTTL,     \* in time units
    MaxRebuilds,        \* bound: rebuilds of Mihomo's fake-IP pool
    MaxFaults           \* bound: failures not caused by a stale address

ASSUME DialCacheAssumption ==
    /\ IsFiniteSet(Dial)
    /\ dialAddressTTL \in Nat \ {0}
    /\ MaxRebuilds \in Nat /\ MaxFaults \in Nat

Pool == 0 .. MaxRebuilds
None == -1

VARIABLES
    pool,                   \* Mihomo's current fake-IP pool
    addresses, expiresIn,   \* struct dialAddressCache
    phase,      \* per dial: "idle", "resolving", "resolved" (not stored yet) or "dialing"
    held,       \* per dial: the addresses it has
    waited,     \* per dial: whether an exchange still waits for it
    faults

cacheVars == <<addresses, expiresIn>>
dialVars == <<phase, held, waited>>
vars == <<pool, cacheVars, dialVars, faults>>

TypeOK ==
    /\ pool \in Pool
    /\ addresses \in Pool \cup {None}
    /\ expiresIn \in 0 .. dialAddressTTL
    /\ phase \in [Dial -> {"idle", "resolving", "resolved", "dialing"}]
    /\ held \in [Dial -> Pool]
    /\ waited \in [Dial -> BOOLEAN]
    /\ faults \in 0 .. MaxFaults

Init ==
    /\ pool = 0
    /\ addresses = None /\ expiresIn = 0
    /\ phase = [x \in Dial |-> "idle"]
    /\ held = [x \in Dial |-> 0]
    /\ waited = [x \in Dial |-> FALSE]
    /\ faults = 0

-----------------------------------------------------------------------------
(* The cache.                                                              *)

(* Mutant: get looks at the addresses only, not at their expiry. *)
cachedForEver == addresses # None

(* The test of get. *)
cached == addresses # None /\ expiresIn > 0

(* Mutant: a failed exchange leaves the cache alone. *)
invalidateNothing == UNCHANGED cacheVars

(* Every failed exchange empties the cache. *)
invalidate == addresses' = None /\ expiresIn' = 0

-----------------------------------------------------------------------------
(* DialContext, per dial.                                                  *)

to(x, step) == phase' = [phase EXCEPT ![x] = step]

(* An exchange finds no idle connection: a dial starts, and get hits. *)
Hit(x) ==
    /\ phase[x] = "idle" /\ cached
    /\ to(x, "dialing")
    /\ held' = [held EXCEPT ![x] = addresses]
    /\ waited' = [waited EXCEPT ![x] = TRUE]
    /\ UNCHANGED <<pool, cacheVars, faults>>

(* get misses and unlocks, to resolve. *)
Miss(x) ==
    /\ phase[x] = "idle" /\ ~cached
    /\ to(x, "resolving")
    /\ waited' = [waited EXCEPT ![x] = TRUE]
    /\ UNCHANGED <<pool, cacheVars, held, faults>>

(* Mihomo answers the bootstrap query out of its current pool. *)
Resolve(x) ==
    /\ phase[x] = "resolving"
    /\ to(x, "resolved")
    /\ held' = [held EXCEPT ![x] = pool]
    /\ UNCHANGED <<pool, cacheVars, waited, faults>>

(* Mutant: the addresses are kept longer than the TTL. *)
StoreTooLong(x) ==
    /\ phase[x] = "resolved"
    /\ to(x, "dialing")
    /\ addresses' = held[x]
    /\ expiresIn' = dialAddressTTL + 1
    /\ UNCHANGED <<pool, held, waited, faults>>

(* get locks again and stores what it has resolved. *)
Store(x) ==
    /\ phase[x] = "resolved"
    /\ to(x, "dialing")
    /\ addresses' = held[x]
    /\ expiresIn' = dialAddressTTL
    /\ UNCHANGED <<pool, held, waited, faults>>

(* The dial ends in an error; the exchange that waits for it, if any, fails. *)
dialError(x) ==
    /\ to(x, "idle")
    /\ waited' = [waited EXCEPT ![x] = FALSE]
    /\ IF waited[x] THEN invalidate ELSE UNCHANGED <<cacheVars>>
    /\ UNCHANGED <<pool, held>>

(* The bootstrap query fails. *)
ResolveFails(x) ==
    /\ phase[x] = "resolving"
    /\ faults < MaxFaults
    /\ faults' = faults + 1
    /\ dialError(x)

(* A fake IP of an old pool leads to another domain, whose certificate is  *)
(* refused; one of the current pool may be unreachable, too.               *)
ConnectFails(x) ==
    /\ phase[x] = "dialing"
    /\ IF held[x] = pool THEN faults < MaxFaults /\ faults' = faults + 1
       ELSE UNCHANGED faults
    /\ dialError(x)

Connect(x) ==
    /\ phase[x] = "dialing" /\ held[x] = pool
    /\ to(x, "idle")
    /\ waited' = [waited EXCEPT ![x] = FALSE]
    /\ UNCHANGED <<pool, cacheVars, held, faults>>

-----------------------------------------------------------------------------
(* Exchanges, time and Mihomo.                                             *)

(* An exchange fails at its deadline; the dial it asked for goes on. *)
ExchangeTimesOut(x) ==
    /\ phase[x] # "idle" /\ waited[x]
    /\ faults < MaxFaults
    /\ faults' = faults + 1
    /\ waited' = [waited EXCEPT ![x] = FALSE]
    /\ invalidate
    /\ UNCHANGED <<pool, phase, held>>

(* An exchange over a connection that was there already fails: no dial is  *)
(* its own, yet the addresses are discarded.                               *)
ExchangeFails ==
    /\ faults < MaxFaults
    /\ faults' = faults + 1
    /\ invalidate
    /\ UNCHANGED <<pool, dialVars>>

(* A connection that became idle serves the waiting exchange. *)
ServedByOther(x) ==
    /\ phase[x] # "idle" /\ waited[x]
    /\ waited' = [waited EXCEPT ![x] = FALSE]
    /\ UNCHANGED <<pool, cacheVars, phase, held, faults>>

Tick ==
    /\ expiresIn > 0
    /\ expiresIn' = expiresIn - 1
    /\ UNCHANGED <<pool, addresses, dialVars, faults>>

(* Mihomo rebuilds its pool of fake IPs. *)
Rebuild ==
    /\ pool < MaxRebuilds
    /\ pool' = pool + 1
    /\ UNCHANGED <<cacheVars, dialVars, faults>>

get(x) == Hit(x) \/ Miss(x)

dial(x) == Resolve(x) \/ ResolveFails(x) \/ Store(x) \/ ConnectFails(x) \/ Connect(x)

Next ==
    \/ Tick
    \/ Rebuild
    \/ ExchangeFails
    \/ \E x \in Dial : get(x) \/ dial(x) \/ ExchangeTimesOut(x) \/ ServedByOther(x)

Spec == Init /\ [][Next]_vars

(* Every step of a dial has a timeout, and new exchanges keep coming. *)
FairSpec == Spec /\ \A x \in Dial : WF_vars(get(x)) /\ WF_vars(dial(x))

-----------------------------------------------------------------------------
(* Properties.                                                             *)

(* Some time after the last rebuild of the pool, and from then on, the     *)
(* provider is dialed at its current address only.                         *)
Converges == <>[](\A x \in Dial : phase[x] = "dialing" => held[x] = pool)

(* The TTL of get is enough for that: if time passes, then even failures   *)
(* that nobody notices, because other connections serve every exchange,    *)
(* and dials that store an address after it was discarded do not keep an   *)
(* old address in use.                                                     *)
ExpiryConverges == WF_vars(Tick) => Converges

(* So is invalidate on a failed exchange: if other connections stop        *)
(* serving exchanges that wait for a dial, then a failing address is       *)
(* discarded however long its TTL, although a dial that resolved before    *)
(* the rebuild can store the old address once more afterwards.             *)
FailureConverges == <>[][\A x \in Dial : ~ServedByOther(x)]_vars => Converges
=============================================================================
