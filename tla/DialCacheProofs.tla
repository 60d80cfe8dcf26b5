--------------------------- MODULE DialCacheProofs ---------------------------
(***************************************************************************)
(* Theorems about DialCache, for any finite number of dials, any TTL and   *)
(* any number of rebuilds and failures.                                    *)
(***************************************************************************)
EXTENDS DialCache, FiniteSetTheorems, TLAPS

-----------------------------------------------------------------------------
(* Types.  Each step sets a few of the variables, each within its range.   *)

LEMMA ToTyped ==
    ASSUME TypeOK, NEW x \in Dial, NEW s \in {"idle", "resolving", "resolved", "dialing"},
           to(x, s)
    PROVE  phase' \in [Dial -> {"idle", "resolving", "resolved", "dialing"}]
BY DEF TypeOK, to

LEMMA InvalidateTyped ==
    ASSUME invalidate
    PROVE  addresses' \in Pool \cup {None} /\ expiresIn' \in 0 .. dialAddressTTL
BY DialCacheAssumption DEF invalidate

LEMMA DialErrorTyped ==
    ASSUME TypeOK, NEW x \in Dial, dialError(x), faults' \in 0 .. MaxFaults
    PROVE  TypeOK'
<1>1. phase' \in [Dial -> {"idle", "resolving", "resolved", "dialing"}]
  BY ToTyped DEF dialError
<1>2. addresses' \in Pool \cup {None} /\ expiresIn' \in 0 .. dialAddressTTL
  BY InvalidateTyped DEF dialError, TypeOK, cacheVars
<1> QED BY <1>1, <1>2 DEF dialError, TypeOK

LEMMA GetTyped ==
    ASSUME TypeOK, NEW x \in Dial, get(x)
    PROVE  TypeOK'
<1>1. CASE Hit(x)
  <2>1. phase' \in [Dial -> {"idle", "resolving", "resolved", "dialing"}]
    BY <1>1, ToTyped DEF Hit
  <2>2. addresses \in Pool
    BY <1>1 DEF Hit, cached, TypeOK
  <2> QED BY <1>1, <2>1, <2>2 DEF Hit, TypeOK, cacheVars
<1>2. CASE Miss(x)
  <2>1. phase' \in [Dial -> {"idle", "resolving", "resolved", "dialing"}]
    BY <1>2, ToTyped DEF Miss
  <2> QED BY <1>2, <2>1 DEF Miss, TypeOK, cacheVars
<1> QED BY <1>1, <1>2 DEF get

LEMMA DialTyped ==
    ASSUME TypeOK, NEW x \in Dial, dial(x)
    PROVE  TypeOK'
<1>1. CASE Resolve(x)
  <2>1. phase' \in [Dial -> {"idle", "resolving", "resolved", "dialing"}]
    BY <1>1, ToTyped DEF Resolve
  <2> QED BY <1>1, <2>1 DEF Resolve, TypeOK, cacheVars
<1>2. CASE ResolveFails(x)
  BY <1>2, DialErrorTyped, DialCacheAssumption DEF ResolveFails, TypeOK
<1>3. CASE Store(x)
  <2>1. phase' \in [Dial -> {"idle", "resolving", "resolved", "dialing"}]
    BY <1>3, ToTyped DEF Store
  <2> QED BY <1>3, <2>1, DialCacheAssumption DEF Store, TypeOK
<1>4. CASE ConnectFails(x)
  BY <1>4, DialErrorTyped, DialCacheAssumption DEF ConnectFails, TypeOK
<1>5. CASE Connect(x)
  <2>1. phase' \in [Dial -> {"idle", "resolving", "resolved", "dialing"}]
    BY <1>5, ToTyped DEF Connect
  <2> QED BY <1>5, <2>1 DEF Connect, TypeOK, cacheVars
<1> QED BY <1>1, <1>2, <1>3, <1>4, <1>5 DEF dial

LEMMA TypedStep ==
    ASSUME TypeOK, [Next]_vars
    PROVE  TypeOK'
<1>1. CASE Tick
  BY <1>1, DialCacheAssumption DEF Tick, TypeOK, dialVars
<1>2. CASE Rebuild
  BY <1>2, DialCacheAssumption DEF Rebuild, TypeOK, cacheVars, dialVars, Pool
<1>3. ASSUME NEW x \in Dial, get(x) PROVE TypeOK'
  BY <1>3, GetTyped
<1>4. ASSUME NEW x \in Dial, dial(x) PROVE TypeOK'
  BY <1>4, DialTyped
<1>5. ASSUME NEW x \in Dial, ExchangeTimesOut(x) PROVE TypeOK'
  BY <1>5, InvalidateTyped, DialCacheAssumption DEF ExchangeTimesOut, TypeOK
<1>6. ASSUME NEW x \in Dial, ServedByOther(x) PROVE TypeOK'
  BY <1>6 DEF ServedByOther, TypeOK, cacheVars
<1>7. CASE ExchangeFails
  BY <1>7, InvalidateTyped, DialCacheAssumption DEF ExchangeFails, TypeOK, dialVars
<1>8. CASE UNCHANGED vars
  BY <1>8 DEF vars, cacheVars, dialVars, TypeOK
<1> QED BY <1>1, <1>2, <1>3, <1>4, <1>5, <1>6, <1>7, <1>8 DEF Next

(* The struct dialAddressCache and the dials of the transport in           *)
(* dohbridge.go keep their types: a dial never starts with the empty       *)
(* address list, and no address is kept longer than dialAddressTTL.        *)
THEOREM TypeCorrect == Spec => []TypeOK
<1>1. Init => TypeOK
  BY DialCacheAssumption DEF Init, TypeOK, Pool
<1> QED BY <1>1, TypedStep, PTL DEF Spec

-----------------------------------------------------------------------------
(* Old addresses.  A step other than Rebuild leaves the pool alone.  Old   *)
(* addresses are then in the cache, or with a dial that has resolved but   *)
(* not stored yet, or with a dial that is connecting.                      *)

OldCached == addresses # None /\ addresses # pool

(* The dials that get unlocked for and that will store an old address. *)
Laggards == {x \in Dial : phase[x] = "resolved" /\ held[x] # pool}

(* The time for which the cache still hands out an old address. *)
OldTime == IF OldCached THEN expiresIn ELSE 0

(* The time for which it may do so in all, each laggard storing once. *)
Allowance == Cardinality(Laggards) * dialAddressTTL + OldTime

(* No old address is left that get would hand out or a dial has. *)
Fresh ==
    /\ cached => addresses = pool
    /\ \A x \in Dial : phase[x] \in {"resolved", "dialing"} => held[x] = pool

(* What a step does to the old addresses: it adds none, or a laggard       *)
(* stores the one it has.                                                  *)
AddsNone == Laggards' \subseteq Laggards /\ OldTime' <= OldTime

LaggardStores ==
    \E x \in Laggards : Laggards' = Laggards \ {x} /\ OldTime' <= dialAddressTTL

LEMMA OldTimeTyped ==
    ASSUME TypeOK
    PROVE  OldTime \in 0 .. dialAddressTTL
BY DialCacheAssumption DEF TypeOK, OldTime

LEMMA InvalidateForgets ==
    ASSUME TypeOK, invalidate
    PROVE  OldTime' <= OldTime
BY OldTimeTyped, DialCacheAssumption DEF invalidate, OldTime, OldCached

LEMMA CacheKept ==
    ASSUME TypeOK, UNCHANGED <<pool, cacheVars>>
    PROVE  OldTime' <= OldTime
BY OldTimeTyped, DialCacheAssumption DEF cacheVars, OldTime, OldCached

(* A dial that leaves "resolved", or that does not enter it, is no new     *)
(* laggard; the other dials are left alone.                                *)
LEMMA OtherDialsKept ==
    ASSUME TypeOK, NEW x \in Dial, pool' = pool,
           \A y \in Dial \ {x} : phase'[y] = phase[y] /\ held'[y] = held[y],
           phase'[x] = "resolved" => held'[x] = pool
    PROVE  Laggards' \subseteq Laggards
BY DEF Laggards

LEMMA LaggardsKept ==
    ASSUME TypeOK, UNCHANGED <<pool, phase, held>>
    PROVE  Laggards' = Laggards
BY DEF Laggards

LEMMA DialErrorAddsNone ==
    ASSUME TypeOK, NEW x \in Dial, dialError(x)
    PROVE  AddsNone
<1>1. Laggards' \subseteq Laggards
  BY OtherDialsKept DEF dialError, to, TypeOK
<1>2. OldTime' <= OldTime
  BY InvalidateForgets, CacheKept DEF dialError
<1> QED BY <1>1, <1>2 DEF AddsNone

LEMMA GetAddsNone ==
    ASSUME TypeOK, NEW x \in Dial, get(x)
    PROVE  AddsNone
<1>1. UNCHANGED <<pool, cacheVars>>
  BY DEF get, Hit, Miss
<1>2. Laggards' \subseteq Laggards
  BY <1>1, OtherDialsKept DEF get, Hit, Miss, to, TypeOK
<1> QED BY <1>1, <1>2, CacheKept DEF AddsNone

LEMMA StoreSpends ==
    ASSUME TypeOK, NEW x \in Dial, Store(x)
    PROVE  AddsNone \/ LaggardStores
<1>1. /\ pool' = pool /\ held' = held
      /\ phase[x] = "resolved" /\ phase' = [phase EXCEPT ![x] = "dialing"]
  BY DEF Store, to
<1>2. OldTime' \in 0 .. dialAddressTTL /\ OldTime \in 0 .. dialAddressTTL
  <2>1. TypeOK'
    BY DialTyped DEF dial
  <2>2. OldTime' \in 0 .. dialAddressTTL
    BY <2>1, DialCacheAssumption DEF TypeOK, OldTime
  <2> QED BY <2>2, OldTimeTyped
<1>3. CASE held[x] = pool
  <2>1. Laggards' \subseteq Laggards
    BY <1>1, OtherDialsKept DEF TypeOK
  <2>2. OldTime' = 0
    BY <1>1, <1>3 DEF Store, OldTime, OldCached
  <2> QED BY <1>2, <2>1, <2>2 DEF AddsNone
<1>4. CASE held[x] # pool
  <2>1. x \in Laggards /\ Laggards' = Laggards \ {x}
    BY <1>1, <1>4 DEF Laggards, TypeOK
  <2> QED BY <1>2, <2>1 DEF LaggardStores
<1> QED BY <1>3, <1>4

LEMMA DialSpends ==
    ASSUME TypeOK, NEW x \in Dial, dial(x)
    PROVE  AddsNone \/ LaggardStores
<1>1. CASE Resolve(x)
  <2>1. UNCHANGED <<pool, cacheVars>>
    BY <1>1 DEF Resolve
  <2>2. Laggards' \subseteq Laggards
    BY <1>1, OtherDialsKept DEF Resolve, to, TypeOK
  <2> QED BY <2>1, <2>2, CacheKept DEF AddsNone
<1>2. CASE ResolveFails(x) \/ ConnectFails(x)
  BY <1>2, DialErrorAddsNone DEF ResolveFails, ConnectFails
<1>3. CASE Store(x)
  BY <1>3, StoreSpends
<1>4. CASE Connect(x)
  <2>1. UNCHANGED <<pool, cacheVars>>
    BY <1>4 DEF Connect
  <2>2. Laggards' \subseteq Laggards
    BY <1>4, OtherDialsKept DEF Connect, to, TypeOK
  <2> QED BY <2>1, <2>2, CacheKept DEF AddsNone
<1> QED BY <1>1, <1>2, <1>3, <1>4 DEF dial

LEMMA StepSpends ==
    ASSUME TypeOK, [Next]_vars, ~Rebuild
    PROVE  AddsNone \/ LaggardStores
<1>1. CASE Tick
  <2>1. Laggards' = Laggards
    BY <1>1, LaggardsKept DEF Tick, dialVars
  <2>2. OldTime' <= OldTime
    BY <1>1, DialCacheAssumption DEF Tick, OldTime, OldCached, TypeOK
  <2> QED BY <2>1, <2>2 DEF AddsNone
<1>2. ASSUME NEW x \in Dial, get(x) PROVE AddsNone
  BY <1>2, GetAddsNone
<1>3. ASSUME NEW x \in Dial, dial(x) PROVE AddsNone \/ LaggardStores
  BY <1>3, DialSpends
<1>4. ASSUME NEW x \in Dial, ExchangeTimesOut(x) PROVE AddsNone
  BY <1>4, LaggardsKept, InvalidateForgets DEF ExchangeTimesOut, AddsNone
<1>5. ASSUME NEW x \in Dial, ServedByOther(x) PROVE AddsNone
  BY <1>5, LaggardsKept, CacheKept DEF ServedByOther, AddsNone
<1>6. CASE ExchangeFails
  BY <1>6, LaggardsKept, InvalidateForgets DEF ExchangeFails, dialVars, AddsNone
<1>7. CASE UNCHANGED vars
  BY <1>7, LaggardsKept, CacheKept DEF vars, dialVars, AddsNone
<1> QED BY <1>1, <1>2, <1>3, <1>4, <1>5, <1>6, <1>7 DEF Next

(* The laggards are among the dials, so they can be counted. *)
LEMMA LaggardsCounted ==
    /\ IsFiniteSet(Laggards) /\ Cardinality(Laggards) \in Nat
    /\ Cardinality(Dial) \in Nat /\ Cardinality(Laggards) <= Cardinality(Dial)
<1>1. Laggards \subseteq Dial /\ IsFiniteSet(Dial)
  BY DialCacheAssumption DEF Laggards
<1> QED BY <1>1, FS_Subset, FS_CardinalityType

(* Each laggard counts for one TTL. *)
LEMMA Product ==
    ASSUME NEW m \in Nat, NEW n \in Nat, NEW t \in Nat
    PROVE  /\ m * t \in Nat
           /\ m <= n => m * t <= n * t
           /\ (n + 1) * t = n * t + t
OBVIOUS

LEMMA StepWithinAllowance ==
    ASSUME TypeOK, TypeOK', [Next]_vars, ~Rebuild
    PROVE  Allowance' <= Allowance
<1> DEFINE T == dialAddressTTL
           m == Cardinality(Laggards)
           n == Cardinality(Laggards')
<1>1. m \in Nat /\ n \in Nat /\ IsFiniteSet(Laggards) /\ T \in Nat
  <2>1. IsFiniteSet(Laggards) /\ m \in Nat
    BY LaggardsCounted
  <2>2. Laggards' \subseteq Dial
    BY DEF Laggards
  <2> QED BY <2>1, <2>2, DialCacheAssumption, FS_Subset, FS_CardinalityType
<1>2. OldTime \in Nat /\ OldTime <= T /\ OldTime' \in Nat /\ OldTime' <= T
  <2>1. OldTime' \in 0 .. dialAddressTTL
    BY DialCacheAssumption DEF TypeOK, OldTime
  <2> QED BY <2>1, OldTimeTyped, DialCacheAssumption
<1>3. Allowance = m * T + OldTime /\ Allowance' = n * T + OldTime'
  BY DEF Allowance
<1>4. CASE AddsNone
  <2>1. n <= m /\ OldTime' <= OldTime
    BY <1>1, <1>4, FS_Subset DEF AddsNone
  <2> HIDE DEF m, n, T
  <2>2. n * T \in Nat /\ m * T \in Nat /\ n * T <= m * T
    BY <1>1, <2>1, Product
  <2> QED BY <1>2, <1>3, <2>1, <2>2
<1>5. CASE LaggardStores
  <2>1. PICK x \in Laggards : Laggards' = Laggards \ {x} /\ OldTime' <= T
    BY <1>5 DEF LaggardStores
  <2>2. m = n + 1
    BY <1>1, <2>1, FS_RemoveElement
  <2> HIDE DEF m, n, T
  <2>3. n * T \in Nat /\ m * T = n * T + T
    BY <1>1, <2>2, Product
  <2>4. \A a, b, c, t \in Nat : b <= t => a + b <= (a + t) + c
    OBVIOUS
  <2> QED BY <1>1, <1>2, <1>3, <2>3, <2>4
<1> QED BY <1>4, <1>5, StepSpends

LEMMA AllowanceTyped ==
    ASSUME TypeOK
    PROVE  Allowance \in 0 .. (Cardinality(Dial) + 1) * dialAddressTTL
<1> DEFINE T == dialAddressTTL
           m == Cardinality(Laggards)
           n == Cardinality(Dial)
<1>1. m \in Nat /\ n \in Nat /\ m <= n /\ T \in Nat
  BY LaggardsCounted, DialCacheAssumption
<1>2. OldTime \in Nat /\ OldTime <= T
  BY OldTimeTyped, DialCacheAssumption
<1>3. Allowance = m * T + OldTime
  BY DEF Allowance
<1> HIDE DEF m, n, T
<1>4. m * T \in Nat /\ n * T \in Nat /\ m * T <= n * T /\ (n + 1) * T = n * T + T
  BY <1>1, Product
<1>5. Allowance \in 0 .. (n + 1) * T
  BY <1>1, <1>2, <1>3, <1>4
<1> QED BY <1>5 DEF n, T

LEMMA TickSpends ==
    ASSUME TypeOK, Tick, OldCached
    PROVE  Allowance' = Allowance - 1
<1>1. Laggards' = Laggards
  BY LaggardsKept DEF Tick, dialVars
<1>2. OldTime' = OldTime - 1 /\ OldTime \in Int
  BY DialCacheAssumption DEF Tick, OldTime, OldCached, TypeOK
<1> DEFINE p == Cardinality(Laggards) * dialAddressTTL
<1>3. p \in Nat
  BY LaggardsCounted, DialCacheAssumption, Product
<1>4. Allowance = p + OldTime /\ Allowance' = p + OldTime'
  BY <1>1 DEF Allowance
<1> HIDE DEF p
<1> QED BY <1>2, <1>3, <1>4

LEMMA OldHitAllowed ==
    ASSUME TypeOK, NEW x \in Dial, Hit(x), held'[x] # pool
    PROVE  Allowance > 0
<1>1. held'[x] = addresses
  BY DEF Hit, TypeOK
<1>2. OldTime > 0 /\ OldTime \in Nat
  BY <1>1, DialCacheAssumption DEF Hit, cached, OldTime, OldCached, TypeOK
<1> DEFINE p == Cardinality(Laggards) * dialAddressTTL
<1>3. p \in Nat
  BY LaggardsCounted, DialCacheAssumption, Product
<1>4. Allowance = p + OldTime
  BY DEF Allowance
<1> HIDE DEF p
<1> QED BY <1>2, <1>3, <1>4

(* After a rebuild of Mihomo's pool, get of dohbridge.go hands out an old  *)
(* address for at most dialAddressTTL in all, and as long again for each   *)
(* dial that had resolved but not stored when the pool changed.  No        *)
(* failure, timeout or order of the stores adds to that; every tick with   *)
(* an old address in the cache uses some of it up; and once nothing is     *)
(* left no dial starts at an old address until the next rebuild.  This is  *)
(* the part of ExpiryConverges that does not need fairness.                *)
THEOREM OldAddressRunsOut ==
    Spec => /\ [](Allowance \in 0 .. (Cardinality(Dial) + 1) * dialAddressTTL)
            /\ [][~Rebuild =>
                    /\ Allowance' <= Allowance
                    /\ Tick /\ OldCached => Allowance' < Allowance
                    /\ \A x \in Dial : Hit(x) /\ held'[x] # pool => Allowance > 0]_vars
<1>1. TypeOK => Allowance \in 0 .. (Cardinality(Dial) + 1) * dialAddressTTL
  BY AllowanceTyped
<1>2. ASSUME TypeOK, TypeOK', [Next]_vars
      PROVE  [~Rebuild =>
                /\ Allowance' <= Allowance
                /\ Tick /\ OldCached => Allowance' < Allowance
                /\ \A x \in Dial : Hit(x) /\ held'[x] # pool => Allowance > 0]_vars
  <2> SUFFICES ASSUME ~Rebuild
               PROVE  /\ Allowance' <= Allowance
                      /\ Tick /\ OldCached => Allowance' < Allowance
                      /\ \A x \in Dial : Hit(x) /\ held'[x] # pool => Allowance > 0
    OBVIOUS
  <2>1. Allowance' <= Allowance
    BY <1>2, StepWithinAllowance
  <2>2. ASSUME Tick, OldCached PROVE Allowance' < Allowance
    <3>1. Allowance \in Int
      BY <1>2, AllowanceTyped
    <3> QED BY <1>2, <2>2, <3>1, TickSpends
  <2>3. ASSUME NEW x \in Dial, Hit(x), held'[x] # pool PROVE Allowance > 0
    BY <1>2, <2>3, OldHitAllowed
  <2> QED BY <2>1, <2>2, <2>3
<1> QED BY <1>1, <1>2, TypeCorrect, PTL DEF Spec

-----------------------------------------------------------------------------
(* Once no old address is left.                                            *)

LEMMA DialErrorFresh ==
    ASSUME TypeOK, Fresh, NEW x \in Dial, dialError(x)
    PROVE  Fresh'
<1>1. cached' => addresses' = pool'
  BY DEF dialError, invalidate, cacheVars, cached, Fresh
<1> QED BY <1>1 DEF dialError, to, Fresh, TypeOK

(* Once get of dohbridge.go would hand out no old address and no dial has  *)
(* one, none gets one before Mihomo rebuilds its pool again: until then    *)
(* the provider is dialed at its current address only.  This is the part   *)
(* of Converges that says "from then on".                                  *)
THEOREM StaysFresh == Spec => [][Fresh /\ ~Rebuild => Fresh']_vars
<1>1. ASSUME TypeOK, [Next]_vars PROVE [Fresh /\ ~Rebuild => Fresh']_vars
  <2> SUFFICES ASSUME Fresh, ~Rebuild PROVE Fresh'
    OBVIOUS
  <2>1. CASE Tick
    BY <1>1, <2>1, DialCacheAssumption DEF Tick, dialVars, cached, Fresh, TypeOK
  <2>2. ASSUME NEW x \in Dial, Hit(x) PROVE Fresh'
    BY <1>1, <2>2 DEF Hit, to, cacheVars, cached, Fresh, TypeOK
  <2>3. ASSUME NEW x \in Dial, Miss(x) PROVE Fresh'
    BY <1>1, <2>3 DEF Miss, to, cacheVars, cached, Fresh, TypeOK
  <2>4. ASSUME NEW x \in Dial, Resolve(x) PROVE Fresh'
    BY <1>1, <2>4 DEF Resolve, to, cacheVars, cached, Fresh, TypeOK
  <2>5. ASSUME NEW x \in Dial, Store(x) PROVE Fresh'
    BY <1>1, <2>5 DEF Store, to, cached, Fresh, TypeOK
  <2>6. ASSUME NEW x \in Dial, ResolveFails(x) \/ ConnectFails(x) PROVE Fresh'
    BY <1>1, <2>6, DialErrorFresh DEF ResolveFails, ConnectFails
  <2>7. ASSUME NEW x \in Dial, Connect(x) PROVE Fresh'
    BY <1>1, <2>7 DEF Connect, to, cacheVars, cached, Fresh, TypeOK
  <2>8. ASSUME NEW x \in Dial, ExchangeTimesOut(x) PROVE Fresh'
    BY <1>1, <2>8 DEF ExchangeTimesOut, invalidate, cached, Fresh
  <2>9. ASSUME NEW x \in Dial, ServedByOther(x) PROVE Fresh'
    BY <1>1, <2>9 DEF ServedByOther, cacheVars, cached, Fresh
  <2>10. CASE ExchangeFails
    BY <1>1, <2>10 DEF ExchangeFails, dialVars, invalidate, cached, Fresh
  <2>11. CASE UNCHANGED vars
    BY <2>11 DEF vars, cacheVars, dialVars, cached, Fresh
  <2> QED BY <1>1, <2>1, <2>2, <2>3, <2>4, <2>5, <2>6, <2>7, <2>8, <2>9, <2>10, <2>11
          DEF Next, get, dial
<1> QED BY <1>1, TypeCorrect, PTL DEF Spec
=============================================================================
