---------------------------- MODULE BackoffProofs ----------------------------
(***************************************************************************)
(* What the delay operators of Backoff compute, for every initial delay,   *)
(* maximum and number of failures.                                         *)
(*                                                                         *)
(* The doubling loops are recursive functions, so the facts need induction *)
(* over the naturals.  It is done with sets in the place of predicates: a  *)
(* set of naturals that holds 0 and every successor of a member holds all  *)
(* of them, since the others would have a least element.                   *)
(***************************************************************************)
EXTENDS MCBackoff, FiniteSets, FiniteSetTheorems, WellFoundedInduction, TLAPS

-----------------------------------------------------------------------------
(* Induction and iteration.                                                *)

LEMMA NatSetInduction ==
    ASSUME NEW T, 0 \in T, \A n \in Nat : n \in T => n + 1 \in T
    PROVE  Nat \subseteq T
<1> DEFINE R == {ss \in Nat \X Nat : ss[1] < ss[2]}
<1>1. IsWellFoundedOn(R, Nat)
  BY NatLessThanWellFounded DEF OpToRel
<1>2. SUFFICES ASSUME Nat \ T # {} PROVE FALSE
  OBVIOUS
<1>3. PICK x \in Nat \ T : \A y \in Nat \ T : ~ (<<y, x>> \in R)
  <2> HIDE DEF R
  <2>1. Nat \ T \subseteq Nat
    OBVIOUS
  <2> QED BY <1>1, <1>2, <2>1, WFMin
<1>4. x # 0 /\ x - 1 \in Nat
  BY <1>3
<1>5. <<x - 1, x>> \in R
  BY <1>3, <1>4
<1>6. x - 1 \in T
  BY <1>3, <1>4, <1>5
<1> QED BY <1>3, <1>4, <1>6

(* h holds the first n + 1 values of the iteration of f from c. *)
Iterates(c, f, n, h) ==
    h \in [0 .. n -> Nat] /\ h[0] = c /\ \A k \in Nat : k < n => h[k + 1] = f[h[k]]

LEMMA IteratesExist ==
    ASSUME NEW c \in Nat, NEW f \in [Nat -> Nat], NEW n \in Nat
    PROVE  \E h : Iterates(c, f, n, h)
<1> DEFINE T == {m \in Nat : \E h : Iterates(c, f, m, h)}
<1>1. 0 \in T
  <2>1. Iterates(c, f, 0, [k \in 0 .. 0 |-> c])
    BY DEF Iterates
  <2> QED BY <2>1
<1>2. ASSUME NEW m \in Nat, m \in T PROVE m + 1 \in T
  <2>1. PICK h : Iterates(c, f, m, h)
    BY <1>2
  <2> DEFINE g == [k \in 0 .. m + 1 |-> IF k <= m THEN h[k] ELSE f[h[m]]]
  <2>2. /\ \A k \in 0 .. m : h[k] \in Nat
        /\ h[0] = c /\ (\A k \in Nat : k < m => h[k + 1] = f[h[k]])
    BY <2>1 DEF Iterates
  <2>3. f[h[m]] \in Nat
    BY <2>2
  <2>4. \A k \in 0 .. m + 1 : g[k] = (IF k <= m THEN h[k] ELSE f[h[m]]) /\ g[k] \in Nat
    BY <2>2, <2>3
  <2>5. g \in [0 .. m + 1 -> Nat]
    BY <2>4
  <2> HIDE DEF g
  <2>6. ASSUME NEW k \in Nat, k < m + 1 PROVE g[k + 1] = f[g[k]]
    <3>1. k \in 0 .. m + 1 /\ k + 1 \in 0 .. m + 1 /\ g[k] = h[k]
      BY <2>4, <2>6
    <3>2. CASE k < m
      BY <2>2, <2>4, <3>1, <3>2
    <3>3. CASE k = m
      BY <2>4, <3>1, <3>3
    <3> QED BY <2>6, <3>2, <3>3
  <2>7. g[0] = c
    BY <2>2, <2>4
  <2>8. Iterates(c, f, m + 1, g)
    BY <2>5, <2>6, <2>7 DEF Iterates
  <2> QED BY <2>8
<1> HIDE DEF T
<1>3. n \in T
  BY <1>1, <1>2, NatSetInduction
<1> QED BY <1>3 DEF T

LEMMA IteratesAgree ==
    ASSUME NEW c, NEW f, NEW n \in Nat, NEW m \in Nat, n <= m,
           NEW g, NEW h, Iterates(c, f, n, g), Iterates(c, f, m, h)
    PROVE  g[n] = h[n]
<1> DEFINE T == {k \in Nat : k <= n => g[k] = h[k]}
<1>1. 0 \in T
  BY DEF Iterates
<1>2. ASSUME NEW k \in Nat, k \in T PROVE k + 1 \in T
  <2>1. ASSUME k + 1 <= n PROVE g[k + 1] = h[k + 1]
    <3>1. g[k] = h[k] /\ k < n /\ k < m
      BY <1>2, <2>1
    <3> QED BY <3>1 DEF Iterates
  <2> QED BY <2>1
<1> HIDE DEF T
<1>3. n \in T
  BY <1>1, <1>2, NatSetInduction
<1> QED BY <1>3 DEF T

(* A loop that starts at c and replaces d by f[d] in each iteration, the   *)
(* first of which is number 2, has a value after every iteration.          *)
LoopOf(c, f, g) ==
    g \in [Nat -> Nat] /\ g[0] = c /\ g[1] = c /\ \A n \in Nat \ {0} : g[n + 1] = f[g[n]]

LEMMA LoopExists ==
    ASSUME NEW c \in Nat, NEW f \in [Nat -> Nat]
    PROVE  \E g : LoopOf(c, f, g)
<1> DEFINE H(n) == CHOOSE h : Iterates(c, f, n, h)
           g == [i \in Nat |-> IF i = 0 THEN c ELSE H(i - 1)[i - 1]]
<1>1. \A n \in Nat : Iterates(c, f, n, H(n))
  BY IteratesExist
<1> HIDE DEF H
<1>2. ASSUME NEW i \in Nat PROVE g[i] \in Nat
  <2>1. CASE i = 0
    BY <2>1
  <2>2. CASE i # 0
    <3>1. i - 1 \in Nat /\ Iterates(c, f, i - 1, H(i - 1))
      BY <1>1, <2>2
    <3> QED BY <2>2, <3>1 DEF Iterates
  <2> QED BY <2>1, <2>2
<1>3. g[0] = c /\ g[1] = c
  <2>1. Iterates(c, f, 0, H(0)) /\ g[1] = H(0)[0] /\ g[0] = c
    BY <1>1
  <2> QED BY <2>1 DEF Iterates
<1>4. ASSUME NEW n \in Nat \ {0} PROVE g[n + 1] = f[g[n]]
  <2>1. /\ n - 1 \in Nat /\ (n - 1) + 1 = n /\ g[n] = H(n - 1)[n - 1] /\ g[n + 1] = H(n)[n]
        /\ n - 1 <= n /\ n - 1 < n
    OBVIOUS
  <2>2. Iterates(c, f, n - 1, H(n - 1)) /\ Iterates(c, f, n, H(n))
    BY <1>1, <2>1
  <2>3. H(n - 1)[n - 1] = H(n)[n - 1]
    BY <2>1, <2>2, IteratesAgree
  <2>4. H(n)[n] = f[H(n)[n - 1]]
    BY <2>1, <2>2 DEF Iterates
  <2> HIDE DEF g
  <2> QED BY <2>1, <2>3, <2>4
<1>5. g \in [Nat -> Nat]
  BY <1>2
<1> HIDE DEF g
<1>6. LoopOf(c, f, g)
  BY <1>3, <1>4, <1>5 DEF LoopOf
<1> QED BY <1>6

-----------------------------------------------------------------------------
(* The doubling loops.                                                     *)

(* exponentialDelay doubles until it reaches the maximum. *)
Doubled(d, most) == IF d < most THEN Smaller(2 * d, most) ELSE d

LEMMA ExponentialLoop ==
    ASSUME NEW first \in Nat, NEW most \in Nat
    PROVE  /\ exponentialDelay(first, most, 1) = first
           /\ \A n \in Nat \ {0} : exponentialDelay(first, most, n + 1) =
                    Doubled(exponentialDelay(first, most, n), most)
<1> DEFINE f == [d \in Nat |-> Doubled(d, most)]
           Loop(g) == g = [i \in Nat |->
                IF i <= 1 THEN first
                ELSE IF g[i - 1] < most THEN Smaller(2 * g[i - 1], most) ELSE g[i - 1]]
<1>1. \E g : Loop(g)
  <2>1. f \in [Nat -> Nat]
    BY DEF Doubled, Smaller
  <2>2. \A d \in Nat : f[d] = IF d < most THEN Smaller(2 * d, most) ELSE d
    BY DEF Doubled
  <2> HIDE DEF f
  <2>3. PICK g : LoopOf(first, f, g)
    BY <2>1, LoopExists
  <2>4. ASSUME NEW i \in Nat
        PROVE  g[i] = IF i <= 1 THEN first
                      ELSE IF g[i - 1] < most THEN Smaller(2 * g[i - 1], most) ELSE g[i - 1]
    <3>1. CASE i <= 1
      BY <2>3, <3>1 DEF LoopOf
    <3>2. CASE i > 1
      <4>1. i - 1 \in Nat \ {0} /\ (i - 1) + 1 = i
        BY <3>2
      <4>2. g[i] = f[g[i - 1]] /\ g[i - 1] \in Nat
        BY <2>3, <4>1 DEF LoopOf
      <4> QED BY <2>2, <3>2, <4>2
    <3> QED BY <3>1, <3>2
  <2>5. Loop(g)
    BY <2>3, <2>4 DEF LoopOf
  <2> QED BY <2>5
<1>2. PICK g : Loop(g) /\ \A n \in Nat : exponentialDelay(first, most, n) = g[n]
  BY <1>1 DEF exponentialDelay
<1>3. g[1] = first
  BY <1>2
<1>4. ASSUME NEW n \in Nat \ {0} PROVE g[n + 1] = Doubled(g[n], most)
  BY <1>2 DEF Doubled
<1>5. exponentialDelay(first, most, 1) = first
  BY <1>2, <1>3
<1>6. ASSUME NEW n \in Nat \ {0}
      PROVE  exponentialDelay(first, most, n + 1) =
                Doubled(exponentialDelay(first, most, n), most)
  <2>1. /\ exponentialDelay(first, most, n) = g[n]
        /\ exponentialDelay(first, most, n + 1) = g[n + 1]
    BY <1>2
  <2> QED BY <1>4, <2>1
<1> QED BY <1>5, <1>6

LEMMA ExponentialBounds ==
    ASSUME NEW first \in Nat, NEW most \in Nat, first <= most, NEW n \in Nat \ {0}
    PROVE  exponentialDelay(first, most, n) \in first .. most
<1> DEFINE e(m) == exponentialDelay(first, most, m)
           T == {m \in Nat : e(m + 1) \in first .. most}
<1>1. e(1) = first /\ \A m \in Nat \ {0} : e(m + 1) = Doubled(e(m), most)
  BY ExponentialLoop
<1> HIDE DEF e
<1>2. 0 \in T
  BY <1>1
<1>3. ASSUME NEW m \in Nat, m \in T PROVE m + 1 \in T
  <2>1. e(m + 1) \in first .. most /\ e((m + 1) + 1) = Doubled(e(m + 1), most)
    BY <1>1, <1>3
  <2> QED BY <2>1 DEF Doubled, Smaller
<1> HIDE DEF T
<1>4. n - 1 \in T
  BY <1>2, <1>3, NatSetInduction
<1> QED BY <1>4 DEF T, e

(* The spread of a fifth in both directions, cut off at the maximum. *)
Spread(d, most) ==
    {w \in 0 .. most : \E j \in 0 .. 2 * (d \div 5) : w = Smaller(d - (d \div 5) + j, most)}

LEMMA JitterIsSpread ==
    ASSUME NEW mean \in Nat \ {0}, NEW most
    PROVE  jitterDelay(mean, most) = Spread(mean, most)
<1>1. ~ (mean <= 0)
  OBVIOUS
<1> QED BY ONLY <1>1, Zenon DEF jitterDelay, Spread

(* jitterDoHBackoff is the spread of a loop that agrees with exponentialDelay. *)
LEMMA DoHLoop ==
    ASSUME NEW first \in Nat, NEW most \in Nat, first <= most, NEW n \in Nat \ {0}
    PROVE  jitterDoHBackoff(first, most, n) =
                Spread(exponentialDelay(first, most, n), most)
<1> DEFINE f == [d \in Nat |-> IF 2 * d >= most THEN most ELSE 2 * d]
           Loop(g) == g = [i \in Nat |->
                IF i <= 1 THEN first
                ELSE IF 2 * g[i - 1] >= most THEN most ELSE 2 * g[i - 1]]
<1>1. \E g : Loop(g)
  <2>1. f \in [Nat -> Nat] /\ \A d \in Nat : f[d] = IF 2 * d >= most THEN most ELSE 2 * d
    OBVIOUS
  <2> HIDE DEF f
  <2>2. PICK g : LoopOf(first, f, g)
    BY <2>1, LoopExists
  <2>3. ASSUME NEW i \in Nat
        PROVE  g[i] = IF i <= 1 THEN first
                      ELSE IF 2 * g[i - 1] >= most THEN most ELSE 2 * g[i - 1]
    <3>1. CASE i <= 1
      BY <2>2, <3>1 DEF LoopOf
    <3>2. CASE i > 1
      <4>1. i - 1 \in Nat \ {0} /\ (i - 1) + 1 = i
        BY <3>2
      <4>2. g[i] = f[g[i - 1]] /\ g[i - 1] \in Nat
        BY <2>2, <4>1 DEF LoopOf
      <4> QED BY <2>1, <3>2, <4>2
    <3> QED BY <3>1, <3>2
  <2>4. Loop(g)
    BY <2>2, <2>3 DEF LoopOf
  <2> QED BY <2>4
<1>2. PICK g : Loop(g) /\ \A m \in Nat : jitterDoHBackoff(first, most, m) = Spread(g[m], most)
  BY <1>1 DEF jitterDoHBackoff, Spread
<1> DEFINE e(m) == exponentialDelay(first, most, m)
           T == {m \in Nat : g[m + 1] = e(m + 1)}
<1>3. e(1) = first /\ \A m \in Nat \ {0} : e(m + 1) = Doubled(e(m), most)
  BY ExponentialLoop
<1>4. \A m \in Nat \ {0} : e(m) \in first .. most
  BY ExponentialBounds
<1> HIDE DEF e
<1>5. 0 \in T
  BY <1>2, <1>3
<1>6. ASSUME NEW m \in Nat, m \in T PROVE m + 1 \in T
  <2>1. g[m + 1] = e(m + 1) /\ e(m + 1) \in first .. most
    BY <1>4, <1>6
  <2>2. e((m + 1) + 1) = Doubled(e(m + 1), most)
    BY <1>3
  <2>3. g[(m + 1) + 1] = IF 2 * g[m + 1] >= most THEN most ELSE 2 * g[m + 1]
    BY <1>2
  <2>4. g[(m + 1) + 1] = e((m + 1) + 1)
    BY <2>1, <2>2, <2>3 DEF Doubled, Smaller
  <2> QED BY <2>4
<1> HIDE DEF T
<1>7. n - 1 \in T
  BY <1>5, <1>6, NatSetInduction
<1>8. g[n] = e(n)
  BY <1>7 DEF T
<1> QED BY <1>2, <1>8 DEF e

-----------------------------------------------------------------------------
(* Powers of two.  The provers know nothing of exponentiation, but a set   *)
(* of n elements has 2^n subsets.                                          *)

LEMMA PowerDoubles ==
    ASSUME NEW n \in Nat
    PROVE  2 ^ n \in Nat /\ 2 ^ (n + 1) = 2 * 2 ^ n /\ 2 ^ 0 = 1
<1> DEFINE A == SUBSET (1 .. n)
           B == {x \cup {n + 1} : x \in A}
           f == [x \in A |-> x \cup {n + 1}]
           P(m) == 2 ^ m
<1>1. ASSUME NEW m \in Nat PROVE IsFiniteSet(1 .. m) /\ Cardinality(1 .. m) = m
  <2>1. IsFiniteSet(1 .. m) /\ Cardinality(1 .. m) = IF 1 > m THEN 0 ELSE m - 1 + 1
    BY FS_Interval
  <2> QED BY <2>1
<1>2. ASSUME NEW m \in Nat
      PROVE  IsFiniteSet(SUBSET (1 .. m)) /\ Cardinality(SUBSET (1 .. m)) = P(m)
  <2> DEFINE I == 1 .. m
  <2>1. IsFiniteSet(I) /\ Cardinality(I) = m
    BY <1>1
  <2> HIDE DEF I
  <2>2. IsFiniteSet(SUBSET I) /\ Cardinality(SUBSET I) = 2 ^ Cardinality(I)
    BY <2>1, FS_SUBSET
  <2>3. IsFiniteSet(SUBSET I) /\ Cardinality(SUBSET I) = P(m)
    BY <2>1, <2>2
  <2> QED BY <2>3 DEF I
<1> HIDE DEF P
<1>3. IsFiniteSet(A) /\ Cardinality(A) = P(n) /\ Cardinality(SUBSET (1 .. n + 1)) = P(n + 1)
  <2>1. n + 1 \in Nat
    OBVIOUS
  <2> QED BY <1>2, <2>1
<1>4. Cardinality(A) \in Nat
  BY <1>3, FS_CardinalityType
<1>5. SUBSET (1 .. n + 1) = A \cup B
  <2>1. ASSUME NEW x \in SUBSET (1 .. n + 1) PROVE x \in A \cup B
    <3>1. CASE n + 1 \in x
      <4>1. x \ {n + 1} \in A /\ x = (x \ {n + 1}) \cup {n + 1}
        BY <3>1
      <4> QED BY <4>1
    <3>2. CASE n + 1 \notin x
      BY <3>2
    <3> QED BY <3>1, <3>2
  <2>2. ASSUME NEW x \in A \cup B PROVE x \in SUBSET (1 .. n + 1)
    BY <2>2
  <2> QED BY <2>1, <2>2
<1>6. A \cap B = {}
  OBVIOUS
<1>7. f \in Bijection(A, B)
  <2>1. f \in [A -> B] /\ \A y \in B : \E x \in A : f[x] = y
    OBVIOUS
  <2>2. ASSUME NEW x \in A, NEW y \in A, f[x] = f[y] PROVE x = y
    <3>1. n + 1 \notin x /\ n + 1 \notin y
      OBVIOUS
    <3>2. x \cup {n + 1} = y \cup {n + 1}
      BY <2>2
    <3>3. \A z : z \in x <=> z \in y
      <4> HIDE DEF A
      <4> QED BY <3>1, <3>2
    <3> QED BY <3>3
  <2> QED BY <2>1, <2>2 DEF Bijection, Injection, Surjection, IsInjective
<1>8. IsFiniteSet(B) /\ Cardinality(B) = Cardinality(A)
  <2> HIDE DEF A, B, f
  <2> QED BY <1>3, <1>7, FS_Bijection DEF ExistsBijection
<1>9. Cardinality(A \cup B) = Cardinality(A) + Cardinality(B)
  <2> HIDE DEF A, B, f
  <2>1. Cardinality(A \cup B) = Cardinality(A) + Cardinality(B) - Cardinality(A \cap B)
    BY <1>3, <1>8, FS_Union
  <2>2. Cardinality(A \cap B) = 0
    BY <1>6, FS_EmptySet
  <2>3. Cardinality(B) \in Nat
    BY <1>4, <1>8
  <2> QED BY <1>4, <2>1, <2>2, <2>3
<1>10. P(n) \in Nat /\ P(n + 1) = 2 * P(n)
  <2> HIDE DEF A, B, f
  <2>1. P(n + 1) = Cardinality(A) + Cardinality(A)
    BY <1>3, <1>5, <1>8, <1>9
  <2> QED BY <1>3, <1>4, <2>1
<1>11. 2 ^ 0 = 1
  OBVIOUS
<1> QED BY <1>10, <1>11 DEF P

-----------------------------------------------------------------------------
(* What the callers of the loops may rely on.                              *)

(* The loop computes initial * 2^(n-1), cut off at the maximum. *)
LEMMA ExponentialIsCappedPower ==
    ASSUME NEW first \in Nat \ {0}, NEW most \in Nat, first <= most,
           NEW n \in Nat \ {0}
    PROVE  exponentialDelay(first, most, n) = Smaller(first * 2 ^ (n - 1), most)
<1> DEFINE e(m) == exponentialDelay(first, most, m)
           P(m) == 2 ^ m
           T == {m \in Nat : e(m + 1) = Smaller(first * P(m), most)}
<1>1. e(1) = first /\ \A m \in Nat \ {0} : e(m + 1) = Doubled(e(m), most)
  BY ExponentialLoop
<1>2. P(0) = 1 /\ \A m \in Nat : P(m) \in Nat /\ P(m + 1) = 2 * P(m)
  BY PowerDoubles
<1> HIDE DEF e, P
<1>3. 0 \in T
  BY <1>1, <1>2 DEF Smaller
<1>4. ASSUME NEW m \in Nat, m \in T PROVE m + 1 \in T
  <2> DEFINE q == first * P(m)
  <2>1. q \in Nat /\ e(m + 1) = Smaller(q, most)
    BY <1>2, <1>4
  <2>2. first * P(m + 1) = 2 * q
    BY <1>2
  <2>3. e((m + 1) + 1) = Doubled(e(m + 1), most)
    BY <1>1
  <2> HIDE DEF q
  <2>4. e((m + 1) + 1) = Smaller(2 * q, most)
    BY <2>1, <2>3 DEF Doubled, Smaller
  <2> QED BY <2>2, <2>4
<1> HIDE DEF T
<1>5. n - 1 \in T
  BY <1>3, <1>4, NatSetInduction
<1>6. e((n - 1) + 1) = Smaller(first * P(n - 1), most) /\ (n - 1) + 1 = n
  BY <1>5 DEF T
<1> QED BY <1>6 DEF e, P

(* A spread delay stays within a fifth of the nominal one. *)
LEMMA JitterBounds ==
    ASSUME NEW mean \in Nat \ {0}, NEW most \in Nat, mean <= most,
           NEW d \in jitterDelay(mean, most)
    PROVE  d \in 0 .. most /\ 5 * d >= 4 * mean /\ 5 * d <= 6 * mean
<1> DEFINE q == mean \div 5
<1>1. q \in Nat /\ 5 * q <= mean
  OBVIOUS
<1> HIDE DEF q
<1>2. d \in {w \in 0 .. most : \E j \in 0 .. 2 * q : w = Smaller(mean - q + j, most)}
  BY JitterIsSpread, Zenon DEF Spread, q
<1>3. PICK j \in 0 .. 2 * q : d = Smaller(mean - q + j, most) /\ d \in 0 .. most
  BY <1>2
<1> QED BY <1>1, <1>3 DEF Smaller

LEMMA JitterTwoSided ==
    ASSUME NEW mean \in Nat \ {0}, NEW most \in Nat, mean <= most
    PROVE  /\ jitterDelay(mean, most) # {}
           /\ mean >= 5 => \E d \in jitterDelay(mean, most) : d < mean
<1> DEFINE q == mean \div 5
<1>1. q \in Nat /\ 5 * q <= mean /\ (mean >= 5 => q >= 1)
  OBVIOUS
<1> HIDE DEF q
<1>2. /\ mean - q \in 0 .. most /\ 0 \in 0 .. 2 * q
      /\ mean - q = Smaller(mean - q + 0, most)
  BY <1>1 DEF Smaller
<1>3. mean - q \in jitterDelay(mean, most)
  <2>1. jitterDelay(mean, most) =
            {w \in 0 .. most : \E j \in 0 .. 2 * q : w = Smaller(mean - q + j, most)}
    BY JitterIsSpread, Zenon DEF Spread, q
  <2> QED BY <1>2, <2>1
<1> QED BY <1>1, <1>3

(* A delay that has reached the maximum stays there with every further     *)
(* failure.  The breakers of circuit.go and dohbridge.go and superviseChild *)
(* of process.go count their steps without end; the models that stop       *)
(* counting at a step whose delay is the maximum draw the same delays.     *)
THEOREM StepCapLosesNothing ==
    ASSUME NEW first \in Nat, NEW most \in Nat, NEW cap \in Nat \ {0},
           exponentialDelay(first, most, cap) = most,
           NEW n \in Nat, n >= cap
    PROVE  exponentialDelay(first, most, n) = exponentialDelay(first, most, cap)
<1> DEFINE e(m) == exponentialDelay(first, most, m)
           T == {m \in Nat : e(cap + m) = most}
<1>1. \A m \in Nat \ {0} : e(m + 1) = Doubled(e(m), most)
  BY ExponentialLoop
<1>2. e(cap) = most
  OBVIOUS
<1> HIDE DEF e
<1>3. 0 \in T
  <2>1. cap + 0 = cap
    OBVIOUS
  <2> QED BY <1>2, <2>1
<1>4. ASSUME NEW m \in Nat, m \in T PROVE m + 1 \in T
  <2>1. cap + m \in Nat \ {0} /\ cap + (m + 1) = (cap + m) + 1
    OBVIOUS
  <2>2. e(cap + m) = most /\ e(cap + (m + 1)) = Doubled(e(cap + m), most)
    BY <1>1, <1>4, <2>1
  <2> QED BY <2>2 DEF Doubled
<1> HIDE DEF T
<1>5. n - cap \in T /\ cap + (n - cap) = n
  BY <1>3, <1>4, NatSetInduction
<1>6. e(n) = most
  BY <1>5 DEF T
<1> QED BY <1>6 DEF e

-----------------------------------------------------------------------------
(* The closed forms that MCBackoff checks up to its bounds hold for any   *)
(* bounds: every initial delay, every maximum that is not below it and     *)
(* every number of failures.                                               *)

(* What initPlugin of circuit.go guarantees of the delays, and what the    *)
(* callers guarantee of the step.                                          *)
Configured ==
    /\ initial \in Nat \ {0} /\ maximum \in Nat /\ initial <= maximum
    /\ step \in Nat \ {0}

LEMMA AlwaysConfigured == Spec => []Configured
<1>1. Init => Configured
  BY DEF Init, Configured
<1>2. Configured /\ [Next]_vars => Configured'
  BY DEF Configured, Next, NextStep, vars
<1> QED BY <1>1, <1>2, PTL DEF Spec

LEMMA NominalBounds ==
    ASSUME Configured
    PROVE  nominal \in Nat \ {0} /\ nominal <= maximum
<1>1. nominal \in initial .. maximum
  BY ExponentialBounds DEF Configured, nominal
<1> QED BY <1>1 DEF Configured

-----------------------------------------------------------------------------
(* The doubling loop of exponentialDelay in circuit.go returns the power   *)
(* of two it stands for, cut off at the maximum, after any number of       *)
(* failures.                                                               *)
THEOREM LoopIsCappedPower == Spec => []DelayIsCappedPower
<1>1. Configured => DelayIsCappedPower
  BY ExponentialIsCappedPower DEF Configured, DelayIsCappedPower, nominal
<1> QED BY <1>1, AlwaysConfigured, PTL

(* jitterDelay of circuit.go spreads every such delay by at most a fifth,  *)
(* in both directions, and never past the maximum.                         *)
THEOREM SpreadIsBounded == Spec => []JitterWithinFifth
<1>1. ASSUME Configured PROVE JitterWithinFifth
  <2>1. nominal \in Nat \ {0} /\ nominal <= maximum /\ maximum \in Nat
    BY <1>1, NominalBounds DEF Configured
  <2> HIDE DEF nominal
  <2>2. ASSUME NEW d \in jitterDelay(nominal, maximum)
        PROVE  d <= maximum /\ 5 * d >= 4 * nominal /\ 5 * d <= 6 * nominal
    BY <2>1, JitterBounds
  <2>3. /\ jitterDelay(nominal, maximum) # {}
        /\ nominal >= 5 => \E d \in jitterDelay(nominal, maximum) : d < nominal
    BY <2>1, JitterTwoSided
  <2> QED BY <2>2, <2>3 DEF JitterWithinFifth
<1> QED BY <1>1, AlwaysConfigured, PTL

(* The copy of the loop and of the spread in dohbridge.go, written with a  *)
(* different test for the cap, never departs from the pair in circuit.go.  *)
THEOREM CopiesAlwaysAgree == Spec => []BothCopiesAgree
<1>1. ASSUME Configured PROVE BothCopiesAgree
  <2>1. jitterDoHBackoff(initial, maximum, step) = Spread(nominal, maximum)
    BY <1>1, DoHLoop DEF Configured, nominal
  <2>2. jitterDelay(nominal, maximum) = Spread(nominal, maximum)
    BY <1>1, NominalBounds, JitterIsSpread
  <2> QED BY <2>1, <2>2 DEF BothCopiesAgree
<1> QED BY <1>1, AlwaysConfigured, PTL
=============================================================================
