-------------------------- MODULE RateLimiterProofs --------------------------
(***************************************************************************)
(* What RateLimiter guarantees for every number of clients, users and      *)
(* checks, and every limit.                                                *)
(***************************************************************************)
EXTENDS RateLimiter, FiniteSetTheorems, WellFoundedInduction, TLAPS

\* A table of at most n clients.
Small(b, n) == IsFiniteSet(Held(b)) /\ Cardinality(Held(b)) <= n

\* MemoryIsBounded, of tables that are functions on the keys and hold finitely many.
IInv ==
    /\ bucket = [l \in Limiter |-> bucket[l]]
    /\ \A l \in Limiter : /\ bucket[l] = [k \in Key |-> bucket[l][k]]
                          /\ Small(bucket[l], MaxKeys)

LEMMA FewerKeys ==
    ASSUME NEW b, NEW c, NEW n \in Nat, Small(b, n), Held(c) \subseteq Held(b)
    PROVE  Small(c, n)
<1>1. IsFiniteSet(Held(c)) /\ Cardinality(Held(c)) <= Cardinality(Held(b))
  BY FS_Subset DEF Small
<1>2. Cardinality(Held(c)) \in Nat /\ Cardinality(Held(b)) \in Nat
  BY <1>1, FS_CardinalityType DEF Small
<1> QED
  BY <1>1, <1>2 DEF Small

LEMMA InitBounded == Init => IInv
<1> SUFFICES ASSUME Init PROVE IInv
  OBVIOUS
<1>1. ASSUME NEW l \in Limiter PROVE Held(bucket[l]) = {}
  BY DEF Init, Held
<1>2. IsFiniteSet({}) /\ Cardinality({}) = 0
  BY FS_EmptySet
<1>3. \A l \in Limiter : Small(bucket[l], MaxKeys)
  BY <1>1, <1>2, LimitAssumption DEF Small
<1> QED
  BY <1>3 DEF Init, IInv

LEMMA SweptIsSmaller ==
    ASSUME NEW b
    PROVE  Held(RemoveStale(b)) \subseteq Held(b)
BY DEF Held, RemoveStale

\* What Room leaves is a table, with the key among max_keys or a place for it.
LEMMA RoomForTheKey ==
    ASSUME NEW key \in Key, NEW b, b = [k \in Key |-> b[k]], Small(b, MaxKeys),
           NEW c \in Room(b, key)
    PROVE  /\ c = [k \in Key |-> c[k]]
           /\ Small(c, MaxKeys)
           /\ key \in Held(c) \/ Cardinality(Held(c)) < MaxKeys
<1> DEFINE fresh == RemoveStale(b)
<1>1. MaxKeys \in Nat /\ Cardinality(Held(b)) \in Nat
  BY LimitAssumption, FS_CardinalityType DEF Small
<1>2. Small(fresh, MaxKeys) /\ Cardinality(Held(fresh)) \in Nat
  BY <1>1, FewerKeys, SweptIsSmaller, FS_CardinalityType DEF Small
<1>3. fresh = [k \in Key |-> fresh[k]]
  BY DEF RemoveStale
<1>4. CASE c = b /\ (b[key] # <<>> \/ ~Full(b))
  BY <1>1, <1>4 DEF Full, Held
<1>5. CASE c = fresh /\ ~Full(fresh)
  BY <1>1, <1>2, <1>3, <1>5 DEF Full
<1>6. ASSUME NEW k \in Oldest(fresh), c = [fresh EXCEPT ![k] = <<>>]
      PROVE  /\ c = [j \in Key |-> c[j]] /\ Small(c, MaxKeys)
             /\ Cardinality(Held(c)) < MaxKeys
  <2>1. k \in Held(fresh) /\ k \in Key
    BY <1>6 DEF Oldest, Held
  <2>2. Held(c) = Held(fresh) \ {k}
    BY <1>3, <1>6, <2>1 DEF Held
  <2>3. IsFiniteSet(Held(c)) /\ Cardinality(Held(c)) = Cardinality(Held(fresh)) - 1
    <3>1. IsFiniteSet(Held(fresh))
      BY <1>2 DEF Small
    <3>2. /\ IsFiniteSet(Held(fresh) \ {k})
          /\ Cardinality(Held(fresh) \ {k}) = Cardinality(Held(fresh)) - 1
      BY <2>1, <3>1, FS_RemoveElement
    <3> QED
      BY <2>2, <3>2
  <2>4. c = [j \in Key |-> c[j]]
    BY <1>3, <1>6
  <2> QED
    BY <1>1, <1>2, <2>3, <2>4 DEF Small
<1> QED
  BY <1>4, <1>5, <1>6 DEF Room

LEMMA StepBounded == IInv /\ [Next]_vars => IInv'
<1> SUFFICES ASSUME IInv, [Next]_vars PROVE IInv'
  OBVIOUS
<1>1. ASSUME NEW l \in Limiter, NEW key \in Key, Check(l, key) PROVE IInv'
  <2> DEFINE swept == IF (checks[l] + 1) % CleanEvery = 0 THEN RemoveStale(bucket[l])
                      ELSE bucket[l]
  <2>1. PICK b \in Room(swept, key) : Charge(l, b, key)
    BY <1>1 DEF Check
  <2>2. MaxKeys \in Nat
    BY LimitAssumption
  <2>3. bucket[l] = [k \in Key |-> bucket[l][k]] /\ Small(bucket[l], MaxKeys)
    BY DEF IInv
  <2>4. swept = [k \in Key |-> swept[k]] /\ Small(swept, MaxKeys)
    <3>1. RemoveStale(bucket[l]) = [k \in Key |-> RemoveStale(bucket[l])[k]]
      BY DEF RemoveStale
    <3>2. Small(RemoveStale(bucket[l]), MaxKeys)
      BY <2>2, <2>3, FewerKeys, SweptIsSmaller
    <3> QED
      BY <2>3, <3>1, <3>2
  <2> HIDE DEF swept
  <2>5. /\ b = [k \in Key |-> b[k]] /\ Small(b, MaxKeys)
        /\ key \in Held(b) \/ Cardinality(Held(b)) < MaxKeys
    BY <2>1, <2>4, RoomForTheKey
  <2>6. PICK times : bucket' = [bucket EXCEPT ![l] = [b EXCEPT ![key] = times]]
    BY <2>1 DEF Charge
  <2> DEFINE new == [b EXCEPT ![key] = times]
  <2>7. bucket' = [j \in Limiter |-> IF j = l THEN new ELSE bucket[j]]
    BY <2>6 DEF IInv
  <2>8. new = [k \in Key |-> new[k]]
    BY <2>5
  <2>9. Held(new) \subseteq Held(b) \cup {key}
    BY <2>5 DEF Held
  <2>10. /\ IsFiniteSet(Held(b) \cup {key})
         /\ Cardinality(Held(b) \cup {key}) =
              IF key \in Held(b) THEN Cardinality(Held(b)) ELSE Cardinality(Held(b)) + 1
    BY <2>5, FS_AddElement DEF Small
  <2>11. Cardinality(Held(b)) \in Nat
    BY <2>5, FS_CardinalityType DEF Small
  <2>12. Cardinality(Held(b) \cup {key}) <= MaxKeys
    BY <2>2, <2>5, <2>10, <2>11 DEF Small
  <2>13. IsFiniteSet(Held(new)) /\ Cardinality(Held(new)) <= Cardinality(Held(b) \cup {key})
    BY <2>9, <2>10, FS_Subset
  <2>14. Cardinality(Held(new)) \in Nat /\ Cardinality(Held(b) \cup {key}) \in Nat
    BY <2>10, <2>13, FS_CardinalityType
  <2>15. Small(new, MaxKeys)
    BY <2>2, <2>12, <2>13, <2>14 DEF Small
  <2> HIDE DEF new
  <2>16. \A j \in Limiter : /\ bucket'[j] = [k \in Key |-> bucket'[j][k]]
                            /\ Small(bucket'[j], MaxKeys)
    BY <2>7, <2>8, <2>15 DEF IInv
  <2> QED
    BY <2>7, <2>16 DEF IInv, Small, Held
<1>2. ASSUME NEW path \in {"auth", "other"}, NEW c \in Client, NEW u \in User \cup {None},
             Dispatch(path, c, u)
      PROVE  IInv'
  <2>1. c \in Key /\ (u # None => u \in Key) /\ {"auth", "general"} \subseteq Limiter
    BY DEF Key, Limiter
  <2>2. (IF u = None THEN c ELSE u) \in Key
    BY <2>1
  <2> QED
    BY <1>1, <1>2, <2>1, <2>2 DEF Dispatch
<1>3. CASE Tick
  BY <1>3 DEF Tick, IInv, Small, Held
<1>4. CASE UNCHANGED vars
  BY <1>4 DEF vars, IInv, Small, Held
<1> QED
  BY <1>2, <1>3, <1>4 DEF Next

\* Whatever the order of checks, sweeps, evictions and ticks of the clock, neither
\* limiter holds more than max_keys clients.
THEOREM LimitersAreBounded == Spec => []MemoryIsBounded
<1>1. IInv => MemoryIsBounded
  BY DEF IInv, Small, MemoryIsBounded
<1> QED
  BY <1>1, InitBounded, StepBounded, PTL DEF Spec

-----------------------------------------------------------------------------
(* Quotas *)

LEMMA LeastNumber ==
    ASSUME NEW T, T \subseteq Nat, T # {}
    PROVE  Min(T) \in T /\ \A y \in T : Min(T) <= y
<1>1. \A x, y \in Nat : y < x => <<y, x>> \in OpToRel(<, Nat)
  BY Zenon DEF OpToRel
<1>2. PICK x \in T : \A y \in T : ~ (<<y, x>> \in OpToRel(<, Nat))
  BY NatLessThanWellFounded, WFMin, Zenon
<1>3. \A y \in T : x <= y
  <2> SUFFICES ASSUME NEW y \in T PROVE x <= y
    OBVIOUS
  <2>1. x \in Nat /\ y \in Nat /\ ~ (y < x)
    BY <1>1, <1>2
  <2> QED
    BY <2>1
<1> QED
  BY <1>3, Zenon DEF Min

\* The times at which a client was let through, in order.
Times(g) ==
    /\ g \in Seq(Nat)
    /\ \A i \in 1..Len(g) : g[i] <= now
    /\ \A i, j \in 1..Len(g) : i <= j => g[i] <= g[j]

\* A bucket holds the last of them.
Latest(b, g) ==
    /\ b \in Seq(Nat) /\ Len(b) <= Len(g)
    /\ \A i \in 1..Len(b) : b[i] = g[(Len(g) - Len(b)) + i]

\* What a bucket of n requests does not hold has left the window, or was forgotten at d.
Forgotten(n, g, d) ==
    n < Len(g) => \/ now - g[Len(g) - n] > Window
                  \/ d # None /\ d >= g[Len(g) - n]

\* Quota, of one client.
Within(max, g, d) ==
    Len(g) > max => \/ g[Len(g)] - g[Len(g) - max] > Window
                    \/ d # None /\ d >= g[Len(g) - max]

Fits(max, b, g, d) ==
    /\ Latest(b, g) /\ Len(b) <= max
    /\ Forgotten(Len(b), g, d) /\ Within(max, g, d)
    /\ d # None => d \in 0..now

QInv ==
    /\ now \in 0..MaxTime
    /\ granted = [l \in Limiter |-> [k \in Key |-> granted[l][k]]]
    /\ dropped = [l \in Limiter |-> [k \in Key |-> dropped[l][k]]]
    /\ \A l \in Limiter, k \in Key :
         /\ Times(granted[l][k])
         /\ Fits(MaxRequests[l], bucket[l][k], granted[l][k], dropped[l][k])

\* What the popleft loop leaves, and what it has taken.
LEMMA Trimmed ==
    ASSUME now \in Nat, NEW g, NEW b, Times(g), Latest(b, g)
    PROVE  /\ Latest(Recent(b), g) /\ Len(Recent(b)) <= Len(b)
           /\ \A i \in 1..Len(Recent(b)) : now - Recent(b)[i] <= Window
           /\ Len(Recent(b)) < Len(b) => now - g[Len(g) - Len(Recent(b))] > Window
<1> DEFINE T == {i \in DOMAIN b : now - b[i] <= Window} \cup {Len(b) + 1}
           n == Min(T)
           c == SubSeq(b, n, Len(b))
<1>1. /\ b \in Seq(Nat) /\ Len(b) \in Nat /\ DOMAIN b = 1..Len(b)
      /\ g \in Seq(Nat) /\ Len(g) \in Nat /\ Len(b) <= Len(g)
  BY DEF Latest, Times
<1>2. Recent(b) = c
  BY DEF Recent
<1>3. T \subseteq 1..(Len(b) + 1) /\ T \subseteq Nat /\ T # {} /\ Len(b) + 1 \in T
  BY <1>1
<1>4. n \in T /\ \A y \in T : n <= y
  <2> HIDE DEF T
  <2> QED
    BY <1>3, LeastNumber
<1>5. n \in 1..(Len(b) + 1) /\ (n \in 1..Len(b) => now - b[n] <= Window)
      /\ \A i \in 1..Len(b) : i < n => ~(now - b[i] <= Window)
  <2>1. n \in 1..(Len(b) + 1)
    <3> HIDE DEF T, n
    <3> QED
      BY <1>3, <1>4
  <2>2. \A i \in 1..Len(b) : i < n => i \notin T
    <3>1. \A i \in 1..Len(b) : i < n => ~(n <= i)
      BY <1>1, <2>1
    <3> QED
      BY <1>4, <3>1
  <2>3. n \in 1..Len(b) => now - b[n] <= Window
    BY <1>1, <1>4
  <2> QED
    BY <1>1, <2>1, <2>2, <2>3
<1> HIDE DEF n
<1>6. /\ c \in Seq(Nat) /\ Len(c) = (Len(b) - n) + 1 /\ Len(c) \in Nat
      /\ \A i \in 1..Len(c) : c[i] = b[(n + i) - 1] /\ (n + i) - 1 \in 1..Len(b)
  BY <1>1, <1>5
<1> HIDE DEF c, T
<1>7. Latest(c, g) /\ Len(c) <= Len(b)
  <2>1. \A i \in 1..Len(c) : c[i] = g[(Len(g) - Len(c)) + i]
    <3> SUFFICES ASSUME NEW i \in 1..Len(c) PROVE c[i] = g[(Len(g) - Len(c)) + i]
      OBVIOUS
    <3>1. c[i] = g[(Len(g) - Len(b)) + ((n + i) - 1)]
      BY <1>6 DEF Latest
    <3>2. (Len(g) - Len(b)) + ((n + i) - 1) = (Len(g) - Len(c)) + i
      BY <1>1, <1>5, <1>6
    <3> QED
      BY <3>1, <3>2
  <2>2. Len(c) <= Len(b) /\ Len(c) <= Len(g)
    BY <1>1, <1>5, <1>6
  <2> QED
    BY <1>6, <2>1, <2>2 DEF Latest
<1>8. ASSUME NEW i \in 1..Len(c)
      PROVE  now - c[i] <= Window
  <2> DEFINE p == (Len(g) - Len(b)) + n
             q == (Len(g) - Len(b)) + ((n + i) - 1)
  <2>1. n \in 1..Len(b) /\ (n + i) - 1 \in 1..Len(b) /\ c[i] = b[(n + i) - 1]
    BY <1>1, <1>5, <1>6, SMTT(30)
  <2>2. b[n] = g[p] /\ c[i] = g[q]
    BY <2>1 DEF Latest
  <2>3. p \in 1..Len(g) /\ q \in 1..Len(g) /\ p <= q
    BY <1>1, <1>5, <2>1, SMTT(30)
  <2>4. g[p] \in Nat /\ g[q] \in Nat /\ g[p] <= g[q]
    BY <1>1, <2>3 DEF Times
  <2>5. now - g[p] <= Window
    BY <1>5, <2>1, <2>2
  <2>6. Window \in Nat
    BY LimitAssumption
  <2> HIDE DEF p, q
  <2> QED
    BY <2>2, <2>4, <2>5, <2>6
<1>9. ASSUME Len(c) < Len(b)
      PROVE  now - g[Len(g) - Len(c)] > Window
  <2>1. n - 1 \in 1..Len(b) /\ n - 1 < n
    BY <1>1, <1>5, <1>6, <1>9
  <2>2. ~(now - b[n - 1] <= Window)
    BY <1>5, <2>1
  <2>3. b[n - 1] = g[(Len(g) - Len(b)) + (n - 1)]
    BY <2>1 DEF Latest
  <2>4. (Len(g) - Len(b)) + (n - 1) = Len(g) - Len(c)
    BY <1>1, <1>5, <1>6
  <2>5. Len(g) - Len(c) \in 1..Len(g)
    BY <1>1, <1>6, <1>9
  <2>6. g[Len(g) - Len(c)] \in Nat
    BY <1>1, <2>5
  <2>7. Window \in Nat
    BY LimitAssumption
  <2> QED
    BY <2>2, <2>3, <2>4, <2>6, <2>7
<1> QED
  BY <1>2, <1>7, <1>8, <1>9

\* A client that a sweep or an eviction touches, or leaves alone.
LEMMA Evicted ==
    ASSUME now \in 0..MaxTime, NEW max \in Nat, NEW g, NEW b, NEW d, Times(g), Fits(max, b, g, d),
           NEW c \in {b, <<>>}, NEW e,
           e = IF b # <<>> /\ ~(now - Last(b) > Window) /\ c = <<>> THEN now ELSE d
    PROVE  Fits(max, c, g, e)
<1>1. /\ g \in Seq(Nat) /\ Len(g) \in Nat /\ b \in Seq(Nat) /\ Len(b) \in Nat
      /\ Len(b) <= Len(g) /\ now \in Nat /\ now # None /\ MaxTime \in Nat /\ Window \in Nat
  BY LimitAssumption, SMTT(30) DEF Times, Fits, Latest
<1>2. Latest(c, g) /\ Len(c) <= max
  <2>1. CASE c = b
    BY <2>1 DEF Fits
  <2>2. CASE c = <<>>
    <3>1. c \in Seq(Nat) /\ Len(c) = 0
      BY <2>2
    <3> QED
      BY <1>1, <3>1 DEF Latest
  <2> QED
    BY <2>1, <2>2
<1>3. e # None => e \in 0..now
  BY <1>1 DEF Fits
<1>4. ASSUME NEW i \in 1..Len(g) PROVE g[i] \in Nat /\ g[i] <= now
  BY <1>1 DEF Times
<1>5. Forgotten(Len(c), g, e)
  <2> SUFFICES ASSUME Len(c) < Len(g)
               PROVE  \/ now - g[Len(g) - Len(c)] > Window
                      \/ e # None /\ e >= g[Len(g) - Len(c)]
    BY DEF Forgotten
  <2>1. CASE b = <<>> \/ c # <<>>
    <3>1. c = b /\ e = d
      BY <2>1
    <3> QED
      BY <3>1 DEF Fits, Forgotten
  <2>2. CASE b # <<>> /\ c = <<>>
    <3>1. Len(c) = 0 /\ Len(b) \in 1..Len(b) /\ Len(g) \in 1..Len(g) /\ Len(g) - Len(c) = Len(g)
      BY <1>1, <2>2
    <3>2. Last(b) = g[Len(g)]
      <4>1. b[Len(b)] = g[(Len(g) - Len(b)) + Len(b)]
        BY <3>1 DEF Fits, Latest
      <4>2. (Len(g) - Len(b)) + Len(b) = Len(g)
        BY <1>1
      <4> QED
        BY <4>1, <4>2 DEF Last
    <3> QED
      BY <1>1, <1>4, <2>2, <3>1, <3>2
  <2> QED
    BY <2>1, <2>2
<1>6. Within(max, g, e)
  <2>1. CASE e = d
    BY <2>1 DEF Fits
  <2>2. CASE e = now
    <3>1. Len(g) > max => Len(g) - max \in 1..Len(g)
      BY <1>1
    <3> QED
      BY <1>1, <1>4, <2>2, <3>1 DEF Within
  <2> QED
    BY <2>1, <2>2
<1> QED
  BY <1>2, <1>3, <1>5, <1>6 DEF Fits

LEMMA TrimFits ==
    ASSUME now \in 0..MaxTime, NEW max \in Nat, NEW g, NEW b, NEW d, Times(g), Fits(max, b, g, d)
    PROVE  Fits(max, Recent(b), g, d)
<1>1. /\ Latest(b, g) /\ now \in Nat /\ b \in Seq(Nat) /\ Len(b) \in Nat /\ Len(b) <= max
  BY LimitAssumption DEF Fits, Latest
<1>2. /\ Latest(Recent(b), g) /\ Len(Recent(b)) <= Len(b)
      /\ Len(Recent(b)) < Len(b) => now - g[Len(g) - Len(Recent(b))] > Window
  BY <1>1, Trimmed
<1>3. Len(Recent(b)) \in Nat /\ Len(Recent(b)) <= max
  BY <1>1, <1>2 DEF Latest
<1>4. Forgotten(Len(Recent(b)), g, d)
  <2>1. CASE Len(Recent(b)) < Len(b)
    BY <1>2, <2>1 DEF Forgotten
  <2>2. CASE Len(Recent(b)) = Len(b)
    BY <2>2 DEF Fits, Forgotten
  <2> QED
    BY <1>1, <1>2, <1>3, <2>1, <2>2
<1> QED
  BY <1>2, <1>3, <1>4 DEF Fits

\* A request is let through: the first one that does not count any more is further
\* back than the quota reaches.
LEMMA LetThrough ==
    ASSUME now \in 0..MaxTime, NEW max \in Nat, NEW g, NEW b, NEW d, Times(g), Fits(max, b, g, d),
           Len(b) < max
    PROVE  Times(Append(g, now)) /\ Fits(max, Append(b, now), Append(g, now), d)
<1> DEFINE h == Append(g, now)
           c == Append(b, now)
           n == Len(g)
           m == Len(b)
<1>1. /\ g \in Seq(Nat) /\ n \in Nat /\ b \in Seq(Nat) /\ m \in Nat /\ m <= n
      /\ now \in Nat /\ Window \in Nat
  BY LimitAssumption DEF Times, Fits, Latest
<1>2. /\ h \in Seq(Nat) /\ Len(h) = n + 1 /\ h[n + 1] = now /\ \A i \in 1..n : h[i] = g[i]
      /\ c \in Seq(Nat) /\ Len(c) = m + 1 /\ c[m + 1] = now /\ \A i \in 1..m : c[i] = b[i]
  BY <1>1
<1>3. \A i \in 1..n : g[i] \in Nat /\ g[i] <= now
  BY <1>1 DEF Times
<1> HIDE DEF h, c
<1>4. Times(h)
  <2>1. \A i \in 1..(n + 1) : i \in 1..n \/ i = n + 1
    BY <1>1
  <2>2. \A i \in 1..Len(h) : h[i] <= now
    <3>1. h[n + 1] <= now /\ \A i \in 1..n : h[i] <= now
      <4>1. h[n + 1] = now /\ now <= now
        BY <1>1, <1>2
      <4>2. \A i \in 1..n : h[i] = g[i] /\ g[i] <= now
        BY <1>2, <1>3
      <4> QED
        BY <4>1, <4>2
    <3> QED
      BY <1>2, <2>1, <3>1
  <2>3. \A i, j \in 1..Len(h) : i <= j => h[i] <= h[j]
    <3> SUFFICES ASSUME NEW i \in 1..(n + 1), NEW j \in 1..(n + 1), i <= j PROVE h[i] <= h[j]
      BY <1>2
    <3>1. CASE j = n + 1
      BY <1>2, <2>2, <3>1
    <3>2. CASE j \in 1..n
      <4>1. i \in 1..n
        BY <1>1, <3>2
      <4> QED
        BY <1>2, <3>2, <4>1 DEF Times
    <3> QED
      BY <2>1, <3>1, <3>2
  <2> QED
    BY <1>2, <2>2, <2>3 DEF Times
<1>5. Latest(c, h) /\ Len(c) <= max
  <2>1. \A i \in 1..Len(c) : c[i] = h[(Len(h) - Len(c)) + i]
    <3> SUFFICES ASSUME NEW i \in 1..(m + 1) PROVE c[i] = h[(n - m) + i]
      <4>1. Len(h) - Len(c) = n - m
        BY <1>1, <1>2
      <4> QED
        BY <1>2, <4>1
    <3>1. CASE i = m + 1
      BY <1>1, <1>2, <3>1
    <3>2. CASE i \in 1..m
      <4>1. b[i] = g[(n - m) + i]
        BY <3>2 DEF Fits, Latest
      <4>2. (n - m) + i \in 1..n
        BY <1>1, <3>2
      <4> QED
        BY <1>2, <3>2, <4>1, <4>2
    <3> QED
      BY <1>1, <3>1, <3>2
  <2> QED
    BY <1>1, <1>2, <2>1 DEF Latest
<1>6. Forgotten(Len(c), h, d)
  <2> SUFFICES ASSUME m < n
               PROVE  now - h[n - m] > Window \/ (d # None /\ d >= h[n - m])
    <3>1. Len(h) - Len(c) = n - m /\ (Len(c) < Len(h) <=> m < n)
      BY <1>1, <1>2
    <3> QED
      BY <3>1 DEF Forgotten
  <2>1. n - m \in 1..n
    BY <1>1
  <2> QED
    BY <1>2, <2>1 DEF Fits, Forgotten
<1>7. Within(max, h, d)
  <2> SUFFICES ASSUME n + 1 > max
               PROVE  now - h[(n + 1) - max] > Window \/ (d # None /\ d >= h[(n + 1) - max])
    BY <1>2 DEF Within
  <2> DEFINE i == (n + 1) - max
             j == n - m
  <2>1. i \in 1..n /\ j \in 1..n /\ i <= j /\ m < n
    BY <1>1
  <2> HIDE DEF i, j
  <2>2. h[i] = g[i] /\ g[i] \in Nat /\ g[j] \in Nat /\ g[i] <= g[j]
    BY <1>2, <1>3, <2>1 DEF Times
  <2>3. now - g[j] > Window \/ (d # None /\ d >= g[j])
    BY <2>1 DEF Fits, Forgotten, j
  <2>4. d # None => d \in Nat
    BY <1>1 DEF Fits
  <2>5. now - h[i] > Window \/ (d # None /\ d >= h[i])
    <3>1. CASE now - g[j] > Window
      BY <1>1, <2>2, <3>1, SMTT(30)
    <3>2. CASE d # None /\ d >= g[j]
      BY <2>2, <2>4, <3>2
    <3> QED
      BY <2>3, <3>1, <3>2
  <2> QED
    BY <2>5 DEF i
<1> QED
  BY <1>4, <1>5, <1>6, <1>7 DEF Fits, h, c

\* The requests a check keeps of a client are in the window, all of them.
LEMMA KeptCount ==
    ASSUME now \in 0..MaxTime, NEW max \in Nat, NEW g, NEW b, NEW d, Times(g), Fits(max, b, g, d)
    PROVE  Cardinality({i \in DOMAIN g : now - g[i] <= Window}) >= Len(Recent(b))
<1> DEFINE c == Recent(b)
           k == (Len(g) - Len(c)) + 1
           W == {i \in DOMAIN g : now - g[i] <= Window}
<1>1. /\ Latest(b, g) /\ now \in Nat /\ g \in Seq(Nat) /\ Len(g) \in Nat
      /\ DOMAIN g = 1..Len(g)
  BY LimitAssumption DEF Fits, Times
<1>2. Latest(c, g) /\ \A i \in 1..Len(c) : now - c[i] <= Window
  BY <1>1, Trimmed
<1> HIDE DEF c
<1>3. Len(c) \in Nat /\ Len(c) <= Len(g)
  BY <1>2 DEF Latest
<1>4. k..Len(g) \subseteq W
  <2> SUFFICES ASSUME NEW i \in k..Len(g) PROVE i \in W
    OBVIOUS
  <2>1. i - (Len(g) - Len(c)) \in 1..Len(c) /\ i \in 1..Len(g)
        /\ (Len(g) - Len(c)) + (i - (Len(g) - Len(c))) = i
    BY <1>1, <1>3
  <2>2. g[i] = c[i - (Len(g) - Len(c))]
    BY <1>2, <2>1 DEF Latest
  <2> QED
    BY <1>1, <1>2, <2>1, <2>2
<1>5. IsFiniteSet(W)
  <2>1. IsFiniteSet(1..Len(g))
    BY <1>1, FS_Interval
  <2>2. W \subseteq 1..Len(g)
    BY <1>1
  <2> QED
    BY <2>1, <2>2, FS_Subset
<1>6. Cardinality(k..Len(g)) = Len(c)
  <2>1. k \in Int /\ Len(g) \in Int
    BY <1>1, <1>3
  <2>2. Cardinality(k..Len(g)) = IF k > Len(g) THEN 0 ELSE (Len(g) - k) + 1
    BY <2>1, FS_Interval
  <2> QED
    BY <1>1, <1>3, <2>2
<1>7. Cardinality(k..Len(g)) <= Cardinality(W)
  <2> HIDE DEF W
  <2> QED
    BY <1>4, <1>5, FS_Subset
<1>8. Cardinality(W) \in Nat
  BY <1>5, FS_CardinalityType
<1> QED
  BY <1>3, <1>6, <1>7, <1>8 DEF c

\* What a check does to the other clients of its limiter.
LEMMA RoomOthers ==
    ASSUME NEW key \in Key, NEW b, b = [k \in Key |-> b[k]], NEW c \in Room(b, key), NEW k \in Key
    PROVE  c[k] \in {b[k], <<>>}
<1> DEFINE fresh == RemoveStale(b)
<1>1. fresh[k] \in {b[k], <<>>} /\ fresh = [j \in Key |-> fresh[j]]
  BY DEF RemoveStale
<1> HIDE DEF fresh
<1>2. \/ c = b \/ c = fresh \/ \E j \in Oldest(fresh) : c = [fresh EXCEPT ![j] = <<>>]
  BY DEF Room, fresh
<1>3. ASSUME NEW j, c = [fresh EXCEPT ![j] = <<>>] PROVE c[k] \in {b[k], <<>>}
  BY <1>1, <1>3
<1> QED
  BY <1>1, <1>2, <1>3

\* The table a check works on: swept, and with room for the key.
LEMMA CheckRoom ==
    ASSUME IInv, NEW l \in Limiter, NEW key \in Key, Check(l, key)
    PROVE  \E b : /\ b = [k \in Key |-> b[k]] /\ Charge(l, b, key)
                  /\ \A k \in Key : b[k] \in {bucket[l][k], <<>>}
                  /\ dropped' = [dropped EXCEPT ![l] = [k \in Key |->
                        IF bucket[l][k] # <<>> /\ ~Stale(bucket[l], k) /\ b[k] = <<>>
                          THEN now ELSE @[k]]]
                  /\ now' = now
<1> DEFINE swept == IF (checks[l] + 1) % CleanEvery = 0 THEN RemoveStale(bucket[l])
                    ELSE bucket[l]
<1>1. PICK b \in Room(swept, key) :
        /\ Charge(l, b, key)
        /\ dropped' = [dropped EXCEPT ![l] = [k \in Key |->
              IF bucket[l][k] # <<>> /\ ~Stale(bucket[l], k) /\ b[k] = <<>>
                THEN now ELSE @[k]]]
  BY DEF Check
<1>2. bucket[l] = [k \in Key |-> bucket[l][k]] /\ Small(bucket[l], MaxKeys)
  BY DEF IInv
<1>3. /\ swept = [k \in Key |-> swept[k]] /\ Small(swept, MaxKeys)
      /\ \A k \in Key : swept[k] \in {bucket[l][k], <<>>}
  <2>1. /\ RemoveStale(bucket[l]) = [k \in Key |-> RemoveStale(bucket[l])[k]]
        /\ \A k \in Key : RemoveStale(bucket[l])[k] \in {bucket[l][k], <<>>}
    BY DEF RemoveStale
  <2>2. Small(RemoveStale(bucket[l]), MaxKeys)
    BY <1>2, LimitAssumption, FewerKeys, SweptIsSmaller
  <2> QED
    BY <1>2, <2>1, <2>2
<1> HIDE DEF swept
<1>4. b = [k \in Key |-> b[k]]
  BY <1>3, RoomForTheKey
<1>5. \A k \in Key : b[k] \in {bucket[l][k], <<>>}
  <2>1. \A k \in Key : b[k] \in {swept[k], <<>>}
    BY <1>3, RoomOthers
  <2> QED
    BY <1>3, <2>1
<1> QED
  BY <1>1, <1>4, <1>5 DEF Check

LEMMA CheckKeepsQuota ==
    ASSUME IInv, QInv, NEW l \in Limiter, NEW key \in Key, Check(l, key)
    PROVE  /\ QInv'
           /\ ~verdict'.ok =>
                Cardinality({i \in DOMAIN granted[l][key] : now - granted[l][key][i] <= Window})
                  >= MaxRequests[l]
           /\ verdict'.limiter = l /\ verdict'.key = key
<1> DEFINE max == MaxRequests[l]
<1>0. max \in Nat
  BY LimitAssumption
<1>1. PICK b :
        /\ b = [k \in Key |-> b[k]] /\ Charge(l, b, key)
        /\ \A k \in Key : b[k] \in {bucket[l][k], <<>>}
        /\ dropped' = [dropped EXCEPT ![l] = [k \in Key |->
              IF bucket[l][k] # <<>> /\ ~Stale(bucket[l], k) /\ b[k] = <<>>
                THEN now ELSE @[k]]]
        /\ now' = now
  BY CheckRoom
<1> DEFINE e(k) == IF bucket[l][k] # <<>> /\ ~(now - Last(bucket[l][k]) > Window) /\ b[k] = <<>>
                   THEN now ELSE dropped[l][k]
           kept == Recent(b[key])
           g == granted[l][key]
           ok == Len(kept) < max
<1>2. now \in 0..MaxTime /\ \A k \in Key : Fits(max, b[k], granted[l][k], e(k))
  <2>1. now \in 0..MaxTime
    BY DEF QInv
  <2>2. ASSUME NEW k \in Key PROVE Fits(max, b[k], granted[l][k], e(k))
    <3>1. /\ Times(granted[l][k])
          /\ Fits(max, bucket[l][k], granted[l][k], dropped[l][k])
          /\ b[k] \in {bucket[l][k], <<>>}
      BY <1>1 DEF QInv
    <3> QED
      BY <1>0, <2>1, <3>1, Evicted
  <2> QED
    BY <2>1, <2>2
<1>3. /\ dropped' = [j \in Limiter |-> [k \in Key |-> IF j = l THEN e(k) ELSE dropped[j][k]]]
  BY <1>1 DEF QInv, Stale
<1> HIDE DEF e
<1>4. /\ bucket' = [bucket EXCEPT ![l] =
                      [b EXCEPT ![key] = IF ok THEN Append(kept, now) ELSE kept]]
      /\ granted' = IF ok THEN [granted EXCEPT ![l][key] = Append(@, now)] ELSE granted
      /\ verdict' = [limiter |-> l, key |-> key, ok |-> ok]
  BY <1>1 DEF Charge
<1>5. Times(g) /\ Fits(max, kept, g, e(key))
  BY <1>0, <1>2, TrimFits DEF QInv
<1>6. ok => Times(Append(g, now)) /\ Fits(max, Append(kept, now), Append(g, now), e(key))
  BY <1>0, <1>2, <1>5, LetThrough
<1>7. ~ok => Cardinality({i \in DOMAIN g : now - g[i] <= Window}) >= max
  <2>1. Cardinality({i \in DOMAIN g : now - g[i] <= Window}) >= Len(kept)
    BY <1>0, <1>2, <1>5, KeptCount
  <2>2. Len(kept) \in Nat
    BY <1>5 DEF Fits, Latest
  <2>3. Cardinality({i \in DOMAIN g : now - g[i] <= Window}) \in Nat
    <3>1. DOMAIN g = 1..Len(g) /\ Len(g) \in Nat
      BY <1>5 DEF Times
    <3>2. IsFiniteSet(1..Len(g)) /\ {i \in DOMAIN g : now - g[i] <= Window} \subseteq 1..Len(g)
      BY <3>1, FS_Interval
    <3> QED
      BY <3>2, FS_Subset, FS_CardinalityType
  <2> QED
    BY <1>0, <2>1, <2>2, <2>3
<1> DEFINE newB == IF ok THEN Append(kept, now) ELSE kept
           newG == IF ok THEN Append(g, now) ELSE g
<1>8. Times(newG) /\ Fits(max, newB, newG, e(key))
  BY <1>5, <1>6
<1>9. /\ bucket' = [j \in Limiter |-> [k \in Key |->
            IF j # l THEN bucket[j][k] ELSE IF k = key THEN newB ELSE b[k]]]
      /\ granted' = [j \in Limiter |-> [k \in Key |->
            IF j = l /\ k = key THEN newG ELSE granted[j][k]]]
  <2> HIDE DEF kept, g, ok, newB, newG
  <2>1. bucket' = [bucket EXCEPT ![l] = [b EXCEPT ![key] = newB]]
    BY <1>4 DEF newB
  <2>2. granted' = [granted EXCEPT ![l] = [granted[l] EXCEPT ![key] = newG]]
    <3>1. CASE ok
      BY <1>4, <3>1 DEF newG, g
    <3>2. CASE ~ok
      BY <1>4, <3>2 DEF newG, g, QInv
    <3> QED
      BY <3>1, <3>2
  <2>3. /\ bucket = [j \in Limiter |-> [k \in Key |-> bucket[j][k]]]
        /\ granted = [j \in Limiter |-> [k \in Key |-> granted[j][k]]]
    BY DEF IInv, QInv
  <2>4. [b EXCEPT ![key] = newB] = [k \in Key |-> IF k = key THEN newB ELSE b[k]]
    BY <1>1
  <2>5. [granted[l] EXCEPT ![key] = newG] = [k \in Key |-> IF k = key THEN newG ELSE granted[l][k]]
    BY <2>3
  <2>6. bucket' = [j \in Limiter |-> IF j # l THEN bucket[j]
                                     ELSE [k \in Key |-> IF k = key THEN newB ELSE b[k]]]
    <3>1. bucket' = [j \in Limiter |-> IF j # l THEN bucket[j] ELSE [b EXCEPT ![key] = newB]]
      BY <2>1, <2>3
    <3> QED
      BY <2>4, <3>1
  <2>7. granted' = [j \in Limiter |-> IF j # l THEN granted[j]
                        ELSE [k \in Key |-> IF k = key THEN newG ELSE granted[l][k]]]
    <3>1. granted' = [j \in Limiter |-> IF j # l THEN granted[j]
                                       ELSE [granted[l] EXCEPT ![key] = newG]]
      BY <2>2, <2>3
    <3> QED
      BY <2>5, <3>1
  <2>8. \A j \in Limiter : /\ bucket[j] = [k \in Key |-> bucket[j][k]]
                           /\ granted[j] = [k \in Key |-> granted[j][k]]
    BY <2>3
  <2>9. bucket' = [j \in Limiter |-> [k \in Key |->
          IF j # l THEN bucket[j][k] ELSE IF k = key THEN newB ELSE b[k]]]
    <3>1. \A j \in Limiter :
            (IF j # l THEN bucket[j] ELSE [k \in Key |-> IF k = key THEN newB ELSE b[k]])
             = [k \in Key |-> IF j # l THEN bucket[j][k] ELSE IF k = key THEN newB ELSE b[k]]
      BY <2>8
    <3> QED
      BY <2>6, <3>1
  <2>10. granted' = [j \in Limiter |-> [k \in Key |->
           IF j = l /\ k = key THEN newG ELSE granted[j][k]]]
    <3>1. \A j \in Limiter :
            (IF j # l THEN granted[j]
             ELSE [k \in Key |-> IF k = key THEN newG ELSE granted[l][k]])
             = [k \in Key |-> IF j = l /\ k = key THEN newG ELSE granted[j][k]]
      BY <2>8
    <3> QED
      BY <2>7, <3>1
  <2> QED
    BY <2>9, <2>10
<1> HIDE DEF kept, g, ok, newB, newG
<1>10. ASSUME NEW j \in Limiter, NEW k \in Key
       PROVE  /\ Times(granted'[j][k])
              /\ Fits(MaxRequests[j], bucket'[j][k], granted'[j][k], dropped'[j][k])
  <2>1. CASE j # l
    BY <1>3, <1>9, <2>1 DEF QInv
  <2>2. CASE j = l /\ k # key
    BY <1>2, <1>3, <1>9, <2>2 DEF QInv
  <2>3. CASE j = l /\ k = key
    BY <1>3, <1>8, <1>9, <2>3
  <2> QED
    BY <2>1, <2>2, <2>3
<1>11. QInv'
  <2>1. \A j \in Limiter, k \in Key :
          /\ Times(granted[j][k])'
          /\ Fits(MaxRequests[j], bucket[j][k], granted[j][k], dropped[j][k])'
    <3> SUFFICES ASSUME NEW j \in Limiter, NEW k \in Key
                 PROVE  /\ Times(granted[j][k])'
                        /\ Fits(MaxRequests[j], bucket[j][k], granted[j][k], dropped[j][k])'
      OBVIOUS
    <3>1. now' = now
      BY <1>1
    <3>2. Times(granted[j][k])'
      <4>1. Times(granted'[j][k])
        BY <1>10
      <4> QED
        BY <3>1, <4>1 DEF Times
    <3>3. Fits(MaxRequests[j], bucket[j][k], granted[j][k], dropped[j][k])'
      <4>1. Fits(MaxRequests[j], bucket'[j][k], granted'[j][k], dropped'[j][k])
        BY <1>10
      <4> QED
        BY <3>1, <4>1 DEF Fits, Latest, Forgotten, Within
    <3> QED
      BY <3>2, <3>3
  <2> QED
    <3>1. now' \in 0..MaxTime
      BY <1>1, <1>2
    <3>2. granted' = [j \in Limiter |-> [k \in Key |-> granted'[j][k]]]
      BY <1>9
    <3>3. dropped' = [j \in Limiter |-> [k \in Key |-> dropped'[j][k]]]
      BY <1>3
    <3> QED
      BY <2>1, <3>1, <3>2, <3>3 DEF QInv
<1> QED
  BY <1>4, <1>7, <1>11 DEF ok, g

LEMMA ClockForgets ==
    ASSUME now \in Nat, NEW n \in Nat, NEW g \in Seq(Nat), NEW d, Forgotten(n, g, d)
    PROVE  n < Len(g) => \/ (now + 1) - g[Len(g) - n] > Window
                         \/ d # None /\ d >= g[Len(g) - n]
<1> SUFFICES ASSUME n < Len(g)
             PROVE  \/ (now + 1) - g[Len(g) - n] > Window
                    \/ d # None /\ d >= g[Len(g) - n]
  OBVIOUS
<1>1. Len(g) - n \in 1..Len(g) /\ Window \in Nat
  BY LimitAssumption
<1>2. g[Len(g) - n] \in Nat
  BY <1>1
<1>3. now - g[Len(g) - n] > Window \/ (d # None /\ d >= g[Len(g) - n])
  BY DEF Forgotten
<1> QED
  BY <1>1, <1>2, <1>3, SMTT(30)

LEMMA TickKeepsQuota == ASSUME QInv, Tick PROVE QInv'
<1>1. /\ now' = now + 1 /\ now' \in 0..MaxTime /\ now \in Nat /\ Window \in Nat
      /\ UNCHANGED <<bucket, granted, dropped>>
  BY LimitAssumption DEF QInv, Tick
<1>2. ASSUME NEW j \in Limiter, NEW k \in Key
      PROVE  /\ Times(granted[j][k])'
             /\ Fits(MaxRequests[j], bucket[j][k], granted[j][k], dropped[j][k])'
  <2> DEFINE g == granted[j][k]
             b == bucket[j][k]
             d == dropped[j][k]
             max == MaxRequests[j]
  <2>1. /\ Times(g) /\ Fits(max, b, g, d)
        /\ g \in Seq(Nat) /\ Len(g) \in Nat /\ b \in Seq(Nat) /\ Len(b) \in Nat
        /\ granted'[j][k] = g /\ bucket'[j][k] = b /\ dropped'[j][k] = d
    BY <1>1 DEF QInv, Times, Fits, Latest
  <2>2. \A i \in 1..Len(g) : g[i] \in Nat /\ g[i] <= now
    BY <2>1 DEF Times
  <2>3. Times(granted[j][k])'
    <3>1. \A i \in 1..Len(g) : g[i] <= now'
      BY <1>1, <2>2
    <3> QED
      BY <2>1, <3>1 DEF Times
  <2>5. d # None => d \in 0..(now')
    BY <1>1, <2>1 DEF Fits
  <2>6. (Forgotten(Len(bucket[j][k]), granted[j][k], dropped[j][k]))'
    <3>1. Forgotten(Len(b), g, d)
      BY <2>1 DEF Fits
    <3> HIDE DEF g, b, d
    <3>2. Len(b) < Len(g) => \/ (now + 1) - g[Len(g) - Len(b)] > Window
                             \/ d # None /\ d >= g[Len(g) - Len(b)]
      <4>1. now \in Nat /\ Len(b) \in Nat /\ g \in Seq(Nat)
        BY <1>1, <2>1
      <4> QED
        BY <3>1, <4>1, ClockForgets, Zenon
    <3> QED
      BY <1>1, <2>1, <3>2 DEF Forgotten
  <2>7. Fits(max, b, g, d)'
    BY <1>1, <2>1, <2>5, <2>6 DEF Fits, Latest, Within
  <2> QED
    BY <2>3, <2>7
<1> QED
  BY <1>1, <1>2 DEF QInv

LEMMA InitQuota == Init => QInv
<1> SUFFICES ASSUME Init PROVE QInv
  OBVIOUS
<1>1. \A l \in Limiter, k \in Key :
        bucket[l][k] = <<>> /\ granted[l][k] = <<>> /\ dropped[l][k] = None
  BY DEF Init
<1>2. ASSUME NEW max \in Nat PROVE Times(<<>>) /\ Fits(max, <<>>, <<>>, None)
  <2>1. <<>> \in Seq(Nat) /\ Len(<<>>) = 0 /\ \A i \in 1..0 : FALSE
    OBVIOUS
  <2> QED
    BY <2>1 DEF Times, Fits, Latest, Forgotten, Within
<1>3. now \in 0..MaxTime
  BY LimitAssumption DEF Init
<1>4. \A l \in Limiter : MaxRequests[l] \in Nat
  BY LimitAssumption
<1>5. /\ granted = [l \in Limiter |-> [k \in Key |-> granted[l][k]]]
      /\ dropped = [l \in Limiter |-> [k \in Key |-> dropped[l][k]]]
  BY DEF Init
<1> QED
  BY <1>1, <1>2, <1>3, <1>4, <1>5 DEF QInv

\* A step is a check of one key by one limiter, or leaves the tables alone.
LEMMA StepIsCheck ==
    ASSUME [Next]_vars
    PROVE  \/ \E l \in Limiter, key \in Key : Check(l, key)
           \/ Tick
           \/ UNCHANGED vars
<1>1. ASSUME NEW path \in {"auth", "other"}, NEW c \in Client, NEW u \in User \cup {None},
             Dispatch(path, c, u)
      PROVE  \E l \in Limiter, key \in Key : Check(l, key)
  <2>1. c \in Key /\ (u # None => u \in Key) /\ {"auth", "general"} \subseteq Limiter
    BY DEF Key, Limiter
  <2>2. (IF u = None THEN c ELSE u) \in Key
    BY <2>1
  <2> QED
    BY <1>1, <2>1, <2>2 DEF Dispatch
<1> QED
  BY <1>1 DEF Next

LEMMA StepQuota == ASSUME IInv, QInv, [Next]_vars PROVE QInv'
<1>1. CASE UNCHANGED vars
  BY <1>1 DEF vars, QInv, Times, Fits, Latest, Forgotten, Within
<1> QED
  BY <1>1, StepIsCheck, CheckKeepsQuota, TickKeepsQuota

LEMMA Bounded == Spec => []IInv
  BY InitBounded, StepBounded, PTL DEF Spec

LEMMA Quotas == Spec => [](IInv /\ QInv)
  BY Bounded, InitQuota, StepQuota, PTL DEF Spec

\* No client passes more than max_requests requests in a window, unless it was
\* forgotten on the way while the table was full of others (rate_limiter.py:19-34).
THEOREM QuotaHolds == Spec => []Quota
<1>1. QInv => Quota
  BY DEF QInv, Fits, Within, Quota
<1> QED
  BY <1>1, Quotas, PTL

\* A rejection is deserved: as many requests as the limit were let through in the
\* window that ends now (rate_limiter.py:30-33).
THEOREM DeservedRejections == Spec => RejectionsAreDeserved
<1>1. IInv /\ QInv /\ [Next]_vars =>
        [verdict'.key # None /\ ~verdict'.ok /\ checks' # checks =>
         LET l == verdict'.limiter  k == verdict'.key
             g == granted[l][k]
         IN  Cardinality({i \in DOMAIN g : now - g[i] <= Window}) >= MaxRequests[l]]_vars
  <2> SUFFICES ASSUME IInv, QInv, [Next]_vars, ~verdict'.ok, checks' # checks
               PROVE  LET l == verdict'.limiter  k == verdict'.key
                          g == granted[l][k]
                      IN  Cardinality({i \in DOMAIN g : now - g[i] <= Window})
                            >= MaxRequests[l]
    OBVIOUS
  <2>1. PICK l \in Limiter, key \in Key : Check(l, key)
    BY StepIsCheck DEF Tick, vars
  <2> QED
    BY <2>1, CheckKeepsQuota
<1> QED
  BY <1>1, Quotas, PTL DEF Spec, RejectionsAreDeserved

-----------------------------------------------------------------------------
(* Evictions *)

\* A client in the window whose bucket Room empties is the idlest of a full table
\* of clients in the window, and the key has no bucket.
LEMMA RoomForgets ==
    ASSUME now \in Nat, NEW key \in Key, NEW old, old = [k \in Key |-> old[k]],
           Small(old, MaxKeys), \A k \in Key : old[k] \in Seq(Nat),
           NEW swept \in {old, RemoveStale(old)}, NEW c \in Room(swept, key),
           NEW k \in Key, old[k] # <<>>, c[k] = <<>>, ~(now - Last(old[k]) > Window)
    PROVE  /\ old[key] = <<>>
           /\ Cardinality({j \in Held(old) : now - Last(old[j]) <= Window}) = MaxKeys
           /\ \A j \in Held(old) : Last(old[j]) >= Last(old[k])
<1> DEFINE fresh == RemoveStale(swept)
<1>1. /\ fresh = [j \in Key |-> fresh[j]]
      /\ \A j \in Key : swept[j] \in {old[j], <<>>} /\ fresh[j] \in {swept[j], <<>>}
      /\ \A j \in Key : fresh[j] # <<>> => ~(now - Last(old[j]) > Window)
  BY DEF RemoveStale, Stale
<1>2. swept[k] = old[k] /\ fresh[k] = old[k]
  BY DEF RemoveStale, Stale
<1> HIDE DEF fresh
<1>3. /\ swept[key] = <<>> /\ Full(fresh)
      /\ \E x \in Oldest(fresh) : c = [fresh EXCEPT ![x] = <<>>]
  BY <1>2 DEF Room, fresh
<1>4. k \in Oldest(fresh)
  BY <1>1, <1>2, <1>3
<1>5. Held(fresh) \subseteq Held(old)
  BY <1>1 DEF Held
<1>6. Held(fresh) = Held(old) /\ Cardinality(Held(old)) = MaxKeys
  <2>1. /\ IsFiniteSet(Held(fresh)) /\ Cardinality(Held(fresh)) <= Cardinality(Held(old))
        /\ Cardinality(Held(fresh)) = Cardinality(Held(old)) => Held(fresh) = Held(old)
    BY <1>5, FS_Subset DEF Small
  <2>2. Cardinality(Held(fresh)) \in Nat /\ Cardinality(Held(old)) \in Nat /\ MaxKeys \in Nat
    BY <2>1, FS_CardinalityType, LimitAssumption DEF Small
  <2>3. Cardinality(Held(fresh)) >= MaxKeys /\ Cardinality(Held(old)) <= MaxKeys
    BY <1>3 DEF Full, Small
  <2> QED
    BY <2>1, <2>2, <2>3
<1>7. ASSUME NEW j \in Held(old)
      PROVE  /\ j \in Key /\ fresh[j] = old[j] /\ swept[j] # <<>>
             /\ Last(old[j]) \in Nat /\ now - Last(old[j]) <= Window
  <2>1. j \in Key /\ old[j] # <<>> /\ fresh[j] # <<>>
    BY <1>6, <1>7 DEF Held
  <2>2. fresh[j] = old[j] /\ swept[j] # <<>>
    BY <1>1, <2>1
  <2>3. Last(old[j]) \in Nat
    <3>1. old[j] \in Seq(Nat) /\ Len(old[j]) \in 1..Len(old[j])
      BY <2>1
    <3> QED
      <4>1. old[j][Len(old[j])] \in Nat
        BY <3>1
      <4> QED
        BY <4>1 DEF Last
  <2>4. ~(now - Last(old[j]) > Window) /\ Window \in Nat
    BY <1>1, <2>1, LimitAssumption
  <2> QED
    BY <2>1, <2>2, <2>3, <2>4
<1>8. old[key] = <<>>
  BY <1>3, <1>7 DEF Held
<1>9. {j \in Held(old) : now - Last(old[j]) <= Window} = Held(old)
  BY <1>7
<1>10. ASSUME NEW j \in Held(old) PROVE Last(old[j]) >= Last(old[k])
  <2>1. k \in Held(old) /\ Last(fresh[k]) <= Last(fresh[j])
    BY <1>4, <1>6 DEF Oldest
  <2>2. fresh[j] = old[j] /\ Last(old[j]) \in Nat /\ Last(old[k]) \in Nat
    BY <1>7, <2>1
  <2> QED
    BY <1>2, <2>1, <2>2
<1> QED
  BY <1>6, <1>8, <1>9, <1>10

\* A check empties no other bucket than those that its Room empties.
LEMMA CheckForgets ==
    ASSUME IInv, QInv, NEW l \in Limiter, NEW key \in Key, Check(l, key)
    PROVE  /\ verdict'.key = key
           /\ \A j \in Limiter, k \in Key :
                bucket[j][k] # <<>> /\ bucket'[j][k] = <<>> =>
                  /\ j = l
                  /\ \E swept \in {bucket[l], RemoveStale(bucket[l])} :
                       \E c \in Room(swept, key) : c[k] = <<>>
<1> DEFINE swept == IF (checks[l] + 1) % CleanEvery = 0 THEN RemoveStale(bucket[l])
                    ELSE bucket[l]
<1>1. PICK b \in Room(swept, key) : Charge(l, b, key)
  BY DEF Check
<1>2. /\ bucket[l] = [k \in Key |-> bucket[l][k]] /\ Small(bucket[l], MaxKeys)
      /\ RemoveStale(bucket[l]) = [k \in Key |-> RemoveStale(bucket[l])[k]]
      /\ MaxKeys \in Nat
  BY LimitAssumption DEF IInv, RemoveStale
<1>3. Small(RemoveStale(bucket[l]), MaxKeys)
  BY <1>2, FewerKeys, SweptIsSmaller
<1>4. /\ swept \in {bucket[l], RemoveStale(bucket[l])} /\ Small(swept, MaxKeys)
      /\ swept = [k \in Key |-> swept[k]]
  BY <1>2, <1>3
<1> HIDE DEF swept
<1>5. b = [k \in Key |-> b[k]] /\ \A k \in Key : b[k] \in {swept[k], <<>>}
  <2>1. \A k \in Key : b[k] \in {swept[k], <<>>}
    BY <1>4, RoomOthers
  <2> QED
    BY <1>4, <2>1, RoomForTheKey
<1> DEFINE kept == Recent(b[key])
           ok == Len(kept) < MaxRequests[l]
           new == IF ok THEN Append(kept, now) ELSE kept
<1>6. /\ bucket' = [bucket EXCEPT ![l] = [b EXCEPT ![key] = new]]
      /\ verdict' = [limiter |-> l, key |-> key, ok |-> ok]
  BY <1>1 DEF Charge
<1>7. new # <<>>
  <2>1. kept \in Seq(Nat) /\ now \in Nat /\ MaxRequests[l] \in Nat \ {0}
    <3>1. /\ now \in Nat /\ MaxTime \in Nat
          /\ Times(granted[l][key]) /\ Latest(bucket[l][key], granted[l][key])
      BY LimitAssumption DEF QInv, Fits
    <3>2. RemoveStale(bucket[l])[key] \in {bucket[l][key], <<>>}
      BY DEF RemoveStale
    <3>3. b[key] \in {bucket[l][key], <<>>}
      BY <1>4, <1>5, <3>2
    <3>4. Latest(<<>>, granted[l][key])
      BY <3>1 DEF Latest, Times
    <3>5. Latest(b[key], granted[l][key])
      BY <3>1, <3>3, <3>4
    <3>6. Latest(kept, granted[l][key])
      BY <3>1, <3>5, Trimmed
    <3> QED
      BY <3>1, <3>6, LimitAssumption DEF Latest
  <2> HIDE DEF kept
  <2>2. CASE ok
    <3>1. Len(Append(kept, now)) = Len(kept) + 1 /\ Len(kept) \in Nat
      BY <2>1
    <3>2. Append(kept, now) # <<>>
      BY <3>1
    <3> QED
      BY <2>2, <3>2
  <2>3. CASE ~ok
    <3>1. Len(kept) # 0
      BY <2>1, <2>3
    <3> QED
      BY <2>1, <2>3, <3>1
  <2> QED
    BY <2>2, <2>3
<1> HIDE DEF new, ok
<1>8. ASSUME NEW j \in Limiter, NEW k \in Key, bucket[j][k] # <<>>, bucket'[j][k] = <<>>
      PROVE  j = l /\ b[k] = <<>>
  <2>1. bucket' = [i \in Limiter |-> IF i = l THEN [b EXCEPT ![key] = new] ELSE bucket[i]]
    BY <1>6 DEF IInv
  <2>2. j = l
    BY <1>8, <2>1
  <2>3. [b EXCEPT ![key] = new] = [i \in Key |-> IF i = key THEN new ELSE b[i]]
    BY <1>5
  <2> QED
    BY <1>7, <1>8, <2>1, <2>2, <2>3
<1> QED
  BY <1>1, <1>4, <1>6, <1>8

\* A client with requests in the window loses its bucket only to a newcomer, when the
\* table is full of such clients, and only the idlest does (rate_limiter.py:23-29, 40-58).
THEOREM OnlyTheIdlest == Spec => OnlyTheIdlestIsForgotten
<1>1. IInv /\ QInv /\ [Next]_vars =>
    [\A l \in Limiter, k \in Key :
         bucket[l][k] # <<>> /\ bucket'[l][k] = <<>> =>
            \/ now - Last(bucket[l][k]) > Window
            \/ /\ bucket[l][verdict'.key] = <<>>
               /\ Cardinality({j \in Held(bucket[l]) :
                                 now - Last(bucket[l][j]) <= Window}) = MaxKeys
               /\ \A j \in Held(bucket[l]) : Last(bucket[l][j]) >= Last(bucket[l][k])]_vars
  <2> SUFFICES ASSUME IInv, QInv, [Next]_vars, NEW l \in Limiter, NEW k \in Key,
                      bucket[l][k] # <<>>, bucket'[l][k] = <<>>,
                      ~(now - Last(bucket[l][k]) > Window)
               PROVE  /\ bucket[l][verdict'.key] = <<>>
                      /\ Cardinality({j \in Held(bucket[l]) :
                                        now - Last(bucket[l][j]) <= Window}) = MaxKeys
                      /\ \A j \in Held(bucket[l]) : Last(bucket[l][j]) >= Last(bucket[l][k])
    OBVIOUS
  <2>1. PICK i \in Limiter, key \in Key : Check(i, key)
    BY StepIsCheck DEF Tick, vars
  <2>2. /\ i = l /\ verdict'.key = key
        /\ \E swept \in {bucket[l], RemoveStale(bucket[l])} :
             \E c \in Room(swept, key) : c[k] = <<>>
    BY <2>1, CheckForgets
  <2>3. /\ now \in Nat /\ bucket[l] = [x \in Key |-> bucket[l][x]] /\ Small(bucket[l], MaxKeys)
        /\ \A x \in Key : bucket[l][x] \in Seq(Nat)
    <3>1. now \in Nat
      BY LimitAssumption DEF QInv
    <3>2. bucket[l] = [x \in Key |-> bucket[l][x]] /\ Small(bucket[l], MaxKeys)
      BY DEF IInv
    <3>3. \A x \in Key : bucket[l][x] \in Seq(Nat)
      BY DEF QInv, Fits, Latest
    <3> QED
      BY <3>1, <3>2, <3>3
  <2>4. PICK swept \in {bucket[l], RemoveStale(bucket[l])} : \E c \in Room(swept, key) : c[k] = <<>>
    BY <2>2
  <2>5. PICK c \in Room(swept, key) : c[k] = <<>>
    BY <2>4
  <2>6. /\ bucket[l][key] = <<>>
        /\ Cardinality({j \in Held(bucket[l]) : now - Last(bucket[l][j]) <= Window}) = MaxKeys
        /\ \A j \in Held(bucket[l]) : Last(bucket[l][j]) >= Last(bucket[l][k])
    <3> DEFINE old == bucket[l]
    <3>1. /\ old = [x \in Key |-> old[x]] /\ Small(old, MaxKeys)
          /\ \A x \in Key : old[x] \in Seq(Nat)
          /\ swept \in {old, RemoveStale(old)} /\ old[k] # <<>>
          /\ ~(now - Last(old[k]) > Window)
      BY <2>3
    <3> HIDE DEF old
    <3>2. /\ old[key] = <<>>
          /\ Cardinality({j \in Held(old) : now - Last(old[j]) <= Window}) = MaxKeys
          /\ \A j \in Held(old) : Last(old[j]) >= Last(old[k])
      BY <2>3, <2>5, <3>1, RoomForgets
    <3> QED
      BY <3>2 DEF old
  <2> QED
    BY <2>2, <2>6
<1> QED
  BY <1>1, Quotas, PTL DEF Spec, OnlyTheIdlestIsForgotten
=============================================================================
