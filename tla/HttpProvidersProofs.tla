------------------------- MODULE HttpProvidersProofs -------------------------
(***************************************************************************)
(* What the provider router and the exchanges under it guarantee for every *)
(* set of providers, every list of fallbacks, any number of retries and    *)
(* any way in which model servers answer.  The exchange is shown to be an  *)
(* implementation of the router, whose invariants it inherits.             *)
(***************************************************************************)
EXTENDS HttpProviders, FiniteSetTheorems, WellFoundedInduction, TLAPS

-----------------------------------------------------------------------------
(* The candidates *)

LEMMA LeastNumber ==
    ASSUME NEW T, T \subseteq Nat, T # {}
    PROVE  \E x \in T : \A y \in T : x <= y
<1>1. \A x, y \in Nat : y < x => <<y, x>> \in OpToRel(<, Nat)
  BY Zenon DEF OpToRel
<1>2. PICK x \in T : \A y \in T : ~ (<<y, x>> \in OpToRel(<, Nat))
  BY NatLessThanWellFounded, WFMin, Zenon
<1>3. \A y \in T : x <= y
  <2> SUFFICES ASSUME NEW y \in T PROVE x <= y
    OBVIOUS
  <2>1. x \in Nat /\ y \in Nat /\ ~ (y < x)
    BY <1>1, <1>2
  <2> QED
    BY <2>1
<1> QED
  BY <1>3

LEMMA MaxUpTo ==
    ASSUME NEW n \in Nat, NEW s, s \subseteq 1..n, s # {}
    PROVE  Max(s) \in s /\ \A x \in s : x <= Max(s)
<1> DEFINE gaps == {n - x : x \in s}
<1>1. gaps \subseteq Nat /\ gaps # {}
  <2>1. \A x \in s : x \in 1..n
    OBVIOUS
  <2>2. \A x \in 1..n : n - x \in Nat
    OBVIOUS
  <2> QED
    BY <2>1, <2>2
<1>2. PICK d \in gaps : \A e \in gaps : d <= e
  <2> HIDE DEF gaps
  <2> QED
    BY <1>1, LeastNumber
<1>3. PICK x \in s : d = n - x
  OBVIOUS
<1>4. \A y \in s : x >= y
  <2> SUFFICES ASSUME NEW y \in s PROVE x >= y
    OBVIOUS
  <2>1. d <= n - y
    BY <1>2
  <2>2. x \in 1..n /\ y \in 1..n
    OBVIOUS
  <2> QED
    BY <1>3, <2>1, <2>2
<1>5. Max(s) \in s /\ \A y \in s : Max(s) >= y
  BY <1>4, Zenon DEF Max
<1> QED
  BY <1>5

\* The step of the fold, and the fold as the recursive function it is defined by.
Add(acc, p) == IF p \in Usable /\ ~Contains(acc, p) THEN Append(acc, p) ELSE acc
Names(name) == IF name \in Provider THEN <<name>> ELSE <<Default>> \o Fallbacks
Folded(names, g, S) ==
    [s \in SUBSET S |-> IF s = {} THEN <<>> ELSE Add(g[s \ {Max(s)}], names[Max(s)])]
Fold(names) == CHOOSE g : g = Folded(names, g, DOMAIN names)

LEMMA CandidatesFold ==
    ASSUME NEW name
    PROVE  Candidates(name) = Fold(Names(name))[DOMAIN Names(name)]
<1>1. Candidates(name) = FoldLeft(Add, <<>>, Names(name))
  BY DEF Candidates, Add, Names
<1> QED
  BY <1>1 DEF FoldLeft, MapThenFoldSet, Fold, Folded

\* The recursion is well-founded: the greatest element is taken off each time.
LEMMA FoldExists ==
    ASSUME NEW names, NEW n \in Nat
    PROVE  \E g : g = Folded(names, g, 1..n)
<1> DEFINE Bad == {k \in Nat : ~\E g : g = Folded(names, g, 1..k)}
<1> SUFFICES ASSUME Bad # {} PROVE FALSE
  OBVIOUS
<1>1. PICK k \in Bad : \A j \in Bad : k <= j
  <2>1. Bad \subseteq Nat
    OBVIOUS
  <2> HIDE DEF Bad
  <2> QED
    BY <2>1, LeastNumber
<1>2. k \in Nat
  OBVIOUS
<1>3. CASE k = 0
  <2> DEFINE g == [s \in SUBSET (1..0) |-> <<>>]
  <2>1. \A s \in SUBSET (1..0) : s = {}
    OBVIOUS
  <2>2. g = Folded(names, g, 1..0)
    BY <2>1 DEF Folded
  <2> QED
    BY <1>3, <2>2
<1>4. CASE k # 0
  <2>1. k - 1 \in Nat /\ k - 1 \notin Bad
    BY <1>1, <1>2, <1>4
  <2>2. PICK g : g = Folded(names, g, 1..(k - 1))
    BY <2>1
  <2> DEFINE h == Folded(names, g, 1..k)
  <2>3. ASSUME NEW s \in SUBSET (1..k), s # {}
        PROVE  h[s \ {Max(s)}] = g[s \ {Max(s)}]
    <3> DEFINE t == s \ {Max(s)}
    <3>1. Max(s) \in 1..k /\ \A x \in s : x <= Max(s)
      BY <1>2, <2>3, MaxUpTo
    <3>2. t \in SUBSET (1..(k - 1)) /\ t \in SUBSET (1..k)
      <4>1. \A x \in t : x \in 1..k /\ x <= Max(s) /\ x # Max(s)
        BY <3>1
      <4>2. \A x \in 1..k : x <= Max(s) /\ x # Max(s) => x \in 1..(k - 1)
        BY <1>2, <3>1
      <4>3. 1..(k - 1) \subseteq 1..k
        BY <1>2
      <4>4. t \subseteq 1..(k - 1)
        BY <4>1, <4>2
      <4> QED
        BY <4>3, <4>4
    <3> HIDE DEF t
    <3>3. h[t] = IF t = {} THEN <<>> ELSE Add(g[t \ {Max(t)}], names[Max(t)])
      BY <3>2 DEF Folded
    <3>4. g[t] = IF t = {} THEN <<>> ELSE Add(g[t \ {Max(t)}], names[Max(t)])
      BY <2>2, <3>2 DEF Folded
    <3> QED
      BY <3>3, <3>4 DEF t
  <2>4. h = Folded(names, h, 1..k)
    BY <2>3 DEF Folded
  <2> QED
    BY <2>4
<1> QED
  BY <1>3, <1>4

LEMMA FoldStep ==
    ASSUME NEW names, NEW n \in Nat, DOMAIN names = 1..n
    PROVE  /\ Fold(names)[{}] = <<>>
           /\ \A k \in 1..n : Fold(names)[1..k] = Add(Fold(names)[1..(k - 1)], names[k])
<1>1. Fold(names) = Folded(names, Fold(names), 1..n)
  BY FoldExists DEF Fold
<1> HIDE DEF Fold
<1>2. Fold(names)[{}] = <<>>
  BY <1>1 DEF Folded
<1>3. ASSUME NEW k \in 1..n
      PROVE  Fold(names)[1..k] = Add(Fold(names)[1..(k - 1)], names[k])
  <2>1. 1..k \in SUBSET (1..n) /\ 1..k # {} /\ k \in 1..k
    <3>1. k \in 1..k /\ \A x \in 1..k : x \in 1..n
      OBVIOUS
    <3> QED
      BY <3>1, Zenon
  <2>2. Max(1..k) \in 1..k /\ k <= Max(1..k)
    BY <2>1, MaxUpTo
  <2>3. Max(1..k) = k
    BY <2>2
  <2>4. (1..k) \ {k} = 1..(k - 1)
    <3>1. \A x \in 1..k : x # k => x \in 1..(k - 1)
      OBVIOUS
    <3>2. \A x \in 1..(k - 1) : x \in 1..k /\ x # k
      OBVIOUS
    <3> QED
      BY <3>1, <3>2, Zenon
  <2>5. Fold(names)[1..k] = Add(Fold(names)[(1..k) \ {Max(1..k)}], names[Max(1..k)])
    BY <1>1, <2>1 DEF Folded
  <2> QED
    BY <2>3, <2>4, <2>5
<1> QED
  BY <1>2, <1>3

\* A list of usable providers, each once: those of S.
ListOf(list, S) ==
    /\ list \in Seq(Usable)
    /\ \A i, j \in 1..Len(list) : list[i] = list[j] => i = j
    /\ {list[i] : i \in 1..Len(list)} = Usable \cap S

LEMMA AddLists ==
    ASSUME NEW list, NEW S, NEW p, ListOf(list, S)
    PROVE  ListOf(Add(list, p), S \cup {p})
<1> USE DEF ListOf
<1>1. CASE p \in Usable /\ ~Contains(list, p)
  <2> DEFINE new == Append(list, p)
  <2>1. /\ Add(list, p) = new /\ new \in Seq(Usable) /\ Len(new) = Len(list) + 1
        /\ new[Len(list) + 1] = p /\ \A i \in 1..Len(list) : new[i] = list[i]
        /\ Len(list) \in Nat
    BY <1>1 DEF Add
  <2>2. \A i \in 1..Len(list) : list[i] # p
    BY <1>1 DEF Contains
  <2>3. 1..Len(new) = 1..Len(list) \cup {Len(list) + 1}
    BY <2>1
  <2> HIDE DEF new
  <2>4. \A i, j \in 1..Len(new) : new[i] = new[j] => i = j
    BY <2>1, <2>2, <2>3
  <2>5. {new[i] : i \in 1..Len(new)} = {list[i] : i \in 1..Len(list)} \cup {p}
    BY <2>1, <2>3
  <2> QED
    BY <1>1, <2>1, <2>4, <2>5
<1>2. CASE ~(p \in Usable /\ ~Contains(list, p))
  <2>1. Add(list, p) = list
    BY <1>2 DEF Add
  <2>2. p \in Usable => p \in {list[i] : i \in 1..Len(list)}
    BY <1>2 DEF Contains
  <2> QED
    BY <2>1, <2>2
<1> QED
  BY <1>1, <1>2

LEMMA FoldPrefixLists ==
    ASSUME NEW names, NEW n \in Nat, DOMAIN names = 1..n
    PROVE  \A m \in 0..n : ListOf(Fold(names)[1..m], {names[i] : i \in 1..m})
<1> DEFINE Good(k) == ListOf(Fold(names)[1..k], {names[i] : i \in 1..k})
           Bad == {k \in 0..n : ~Good(k)}
<1> SUFFICES ASSUME Bad # {} PROVE FALSE
  OBVIOUS
<1>1. PICK k \in Bad : \A j \in Bad : k <= j
  <2>1. Bad \subseteq Nat
    OBVIOUS
  <2> HIDE DEF Bad
  <2> QED
    BY <2>1, LeastNumber
<1>2. k \in 0..n /\ ~Good(k)
  OBVIOUS
<1>3. CASE k = 0
  <2>1. 1..0 = {}
    <3>1. \A x \in 1..0 : FALSE
      OBVIOUS
    <3> QED
      BY <3>1, Zenon
  <2>2. ListOf(<<>>, {})
    BY DEF ListOf
  <2> QED
    BY <1>2, <1>3, <2>1, <2>2, FoldStep
<1>4. CASE k # 0
  <2>1. k - 1 \in 0..n /\ k \in 1..n
    BY <1>2, <1>4
  <2>2. Good(k - 1)
    <3>1. k - 1 < k /\ ~(k <= k - 1)
      BY <1>2
    <3>2. k - 1 \notin Bad
      BY <1>1, <3>1
    <3> QED
      BY <2>1, <3>2
  <2>3. {names[i] : i \in 1..k} = {names[i] : i \in 1..(k - 1)} \cup {names[k]}
    <3>1. 1..k = 1..(k - 1) \cup {k}
      BY <2>1
    <3> QED
      BY <3>1
  <2>4. Fold(names)[1..k] = Add(Fold(names)[1..(k - 1)], names[k])
    BY <2>1, FoldStep
  <2>5. Good(k)
    BY <2>2, <2>3, <2>4, AddLists
  <2> QED
    BY <1>2, <2>5
<1> QED
  BY <1>3, <1>4

\* names names p for the first time before it names q, if it names q at all.
Earlier(names, p, q) ==
    \E a \in DOMAIN names : names[a] = p /\ \A b \in 1..a : names[b] # q

Sorted(list, names) ==
    \A i, j \in 1..Len(list) : i < j => Earlier(names, list[i], list[j])

\* Whoever is added comes after those that are there.
LEMMA AddSorts ==
    ASSUME NEW list, NEW names, NEW n \in Nat, DOMAIN names = 1..n, NEW k \in 1..n,
           ListOf(list, {names[i] : i \in 1..(k - 1)}), Sorted(list, names)
    PROVE  Sorted(Add(list, names[k]), names)
<1> DEFINE p == names[k]
<1>1. CASE p \in Usable /\ ~Contains(list, p)
  <2> DEFINE new == Append(list, p)
  <2>1. /\ Add(list, p) = new /\ Len(new) = Len(list) + 1 /\ Len(list) \in Nat
        /\ new[Len(list) + 1] = p /\ \A i \in 1..Len(list) : new[i] = list[i]
    BY <1>1 DEF Add, ListOf
  <2>2. p \notin {names[i] : i \in 1..(k - 1)}
    <3>1. p \notin {list[i] : i \in 1..Len(list)}
      BY <1>1 DEF Contains, ListOf
    <3> QED
      BY <1>1, <3>1 DEF ListOf
  <2>3. ASSUME NEW i \in 1..Len(list)
        PROVE  Earlier(names, list[i], p)
    <3>1. list[i] \in {names[a] : a \in 1..(k - 1)}
      BY DEF ListOf
    <3>2. PICK a \in 1..(k - 1) : names[a] = list[i]
      BY <3>1
    <3>3. a \in DOMAIN names /\ \A b \in 1..a : b \in 1..(k - 1)
      OBVIOUS
    <3>4. \A b \in 1..a : names[b] # p
      BY <2>2, <3>3
    <3> HIDE DEF p
    <3> QED
      BY <3>2, <3>3, <3>4 DEF Earlier
  <2> HIDE DEF new, p
  <2> SUFFICES ASSUME NEW i \in 1..Len(new), NEW j \in 1..Len(new), i < j
               PROVE  Earlier(names, new[i], new[j])
    BY <2>1 DEF Sorted, p
  <2>4. i \in 1..Len(list) /\ (j \in 1..Len(list) \/ j = Len(list) + 1)
    BY <2>1
  <2> QED
    BY <2>1, <2>3, <2>4 DEF Sorted
<1>2. CASE ~(p \in Usable /\ ~Contains(list, p))
  BY <1>2 DEF Add
<1> QED
  BY <1>1, <1>2

LEMMA FoldSorts ==
    ASSUME NEW names, NEW n \in Nat, DOMAIN names = 1..n
    PROVE  Sorted(Fold(names)[1..n], names)
<1> DEFINE Bad == {k \in 0..n : ~Sorted(Fold(names)[1..k], names)}
<1>0. n \in 0..n
  OBVIOUS
<1> SUFFICES ASSUME Bad # {} PROVE FALSE
  BY <1>0
<1>1. PICK k \in Bad : \A j \in Bad : k <= j
  <2>1. Bad \subseteq Nat
    OBVIOUS
  <2> HIDE DEF Bad
  <2> QED
    BY <2>1, LeastNumber
<1>2. k \in 0..n /\ ~Sorted(Fold(names)[1..k], names)
  OBVIOUS
<1>3. CASE k = 0
  <2>1. 1..0 = {}
    <3>1. \A x \in 1..0 : FALSE
      OBVIOUS
    <3> QED
      BY <3>1, Zenon
  <2>2. Fold(names)[1..k] = <<>>
    BY <1>3, <2>1, FoldStep
  <2>3. Len(<<>>) = 0
    OBVIOUS
  <2>4. Sorted(<<>>, names)
    BY <2>1, <2>3 DEF Sorted
  <2> QED
    BY <1>2, <2>2, <2>4
<1>4. CASE k # 0
  <2>1. k - 1 \in 0..n /\ k - 1 \in Nat /\ k \in 1..n /\ \A i \in 1..(k - 1) : i \in 1..n
    BY <1>2, <1>4
  <2>2. Sorted(Fold(names)[1..(k - 1)], names)
    <3>1. k - 1 < k /\ ~(k <= k - 1)
      BY <1>2
    <3> QED
      BY <1>1, <2>1, <3>1
  <2>3. ListOf(Fold(names)[1..(k - 1)], {names[i] : i \in 1..(k - 1)})
    BY <2>1, FoldPrefixLists
  <2>4. Fold(names)[1..k] = Add(Fold(names)[1..(k - 1)], names[k])
    BY <2>1, FoldStep
  <2> HIDE DEF Bad
  <2>5. Sorted(Fold(names)[1..k], names)
    BY <2>1, <2>2, <2>3, <2>4, AddSorts
  <2> QED
    BY <1>2, <2>5
<1> QED
  BY <1>3, <1>4

\* What candidates() returns: usable providers, each once; of a named provider no
\* other, of no name the default and all the fallbacks, in the order they are named.
LEMMA CandidatesShape ==
    ASSUME NEW name
    PROVE  /\ ListOf(Candidates(name), IF name \in Provider THEN {name}
                                       ELSE {Default} \cup Range(Fallbacks))
           /\ Sorted(Candidates(name), Names(name))
<1> DEFINE names == Names(name)
           S == IF name \in Provider THEN {name} ELSE {Default} \cup Range(Fallbacks)
<1>1. /\ Fallbacks \in Seq(Provider) /\ Len(Fallbacks) \in Nat
      /\ DOMAIN Fallbacks = 1..Len(Fallbacks)
  BY RouterAssumption
<1>2. /\ Len(names) \in Nat /\ DOMAIN names = 1..Len(names)
      /\ {names[i] : i \in 1..Len(names)} = S
  <2>1. CASE name \in Provider
    BY <2>1 DEF Names
  <2>2. CASE name \notin Provider
    <3>1. /\ names = <<Default>> \o Fallbacks /\ names \in Seq(Provider)
          /\ Len(names) = Len(Fallbacks) + 1
          /\ DOMAIN names = 1..Len(names)
          /\ names[1] = Default /\ \A i \in 1..Len(Fallbacks) : names[i + 1] = Fallbacks[i]
      BY <2>2, <1>1, RouterAssumption DEF Names
    <3> HIDE DEF names
    <3>2. \A i \in 1..Len(names) : i = 1 \/ (i - 1 \in 1..Len(Fallbacks) /\ i = (i - 1) + 1)
      BY <1>1, <3>1
    <3>3. {names[i] : i \in 1..Len(names)} \subseteq S
      BY <1>1, <2>2, <3>1, <3>2 DEF Range
    <3>4. S \subseteq {names[i] : i \in 1..Len(names)}
      <4>1. 1 \in 1..Len(names) /\ \A i \in 1..Len(Fallbacks) : i + 1 \in 1..Len(names)
        BY <1>1, <3>1
      <4> QED
        BY <1>1, <2>2, <3>1, <4>1 DEF Range
    <3> QED
      BY <1>1, <3>1, <3>3, <3>4
  <2> QED
    BY <2>1, <2>2
<1> HIDE DEF names, S
<1>3. Candidates(name) = Fold(names)[1..Len(names)]
  BY <1>2, CandidatesFold DEF names
<1>4. ListOf(Fold(names)[1..Len(names)], S)
  <2>1. Len(names) \in 0..Len(names)
    BY <1>2
  <2> QED
    BY <1>2, <2>1, FoldPrefixLists
<1>5. Sorted(Fold(names)[1..Len(names)], names)
  BY <1>2, FoldSorts
<1> QED
  BY <1>3, <1>4, <1>5 DEF S, names

-----------------------------------------------------------------------------
(* The router *)

Named(name) == IF name \in Provider THEN {name} ELSE {Default} \cup Range(Fallbacks)

TypeOK ==
    /\ pc \in {"idle", "call", "sleep"} \cup Result
    /\ cand \in Seq(Usable) /\ at \in Nat \ {0} /\ attempt \in 0..RetryCount
    /\ emitted \in BOOLEAN /\ chunks \in Seq([by : Provider, text : BOOLEAN])
    /\ log \in Seq(Call)

\* The candidates are those of the request.
Routed == pc # "idle" => /\ ListOf(cand, Named(requested))
                         /\ Sorted(cand, Names(requested))

\* Nothing happens without a candidate.
Started == pc # "idle" /\ cand # <<>>
Unstarted ==
    /\ ~Started => log = <<>> /\ chunks = <<>> /\ at = 1 /\ attempt = 0 /\ ~emitted
    /\ pc \in {"call", "sleep"} => Started

\* The last attempt + 1 calls are the current candidate's, all others those of
\* candidates before it, each of which was called.
Blocks ==
    Started =>
        /\ at <= Len(cand) /\ attempt < Len(log)
        /\ \A i \in (Len(log) - attempt)..Len(log) : log[i].by = cand[at]
        /\ \A i \in 1..(Len(log) - attempt - 1) : \E k \in 1..(at - 1) : log[i].by = cand[k]
        /\ \A k \in 1..(at - 1) : \E i \in 1..Len(log) : log[i].by = cand[k]

\* The candidates called before a call are those before its candidate.
Ranks ==
    \A i \in 1..Len(log) : \E n \in 1..at :
        /\ log[i].by = cand[n]
        /\ \A k \in 1..(n - 1) : \E j \in 1..(i - 1) : log[j].by = cand[k]
        /\ \A j \in 1..(i - 1) : \E k \in 1..n : log[j].by = cand[k]

\* What is known of a request that waits for its next attempt, or has failed.
Paused ==
    /\ pc = "sleep" => attempt < RetryCount /\ ~emitted /\ log[Len(log)].end = "retryable"
    /\ pc = "failed" => ~emitted /\ (requested = None /\ Started => at = Len(cand))

Texts == \A i \in 1..Len(chunks) : chunks[i].text => emitted /\ chunks[i].by = cand[at]

Follows == \A i \in 1..(Len(log) - 1) : CallsFollow(i)

Few == \A p \in Provider : Cardinality({i \in 1..Len(log) : log[i].by = p}) <= RetryCount + 1

Inv == /\ TypeOK /\ Routed /\ Unstarted /\ Blocks /\ Ranks /\ Paused
       /\ Texts /\ Follows /\ Few

LEMMA Distinct ==
    ASSUME Inv, Started
    PROVE  /\ at \in 1..Len(cand) /\ Len(cand) \in Nat /\ Len(log) \in Nat
           /\ \A j, k \in 1..Len(cand) : cand[j] = cand[k] => j = k
           /\ \A k \in 1..Len(cand) : cand[k] \in Provider
           /\ \A i \in 1..Len(log) : \E k \in 1..at : log[i].by = cand[k]
<1>1. /\ at \in 1..Len(cand) /\ Len(cand) \in Nat /\ Len(log) \in Nat /\ attempt \in Nat
  BY RouterAssumption DEF Inv, TypeOK, Blocks
<1>2. \A k \in 1..Len(cand) : cand[k] \in Provider
  BY RouterAssumption DEF Inv, TypeOK
<1>3. \A j, k \in 1..Len(cand) : cand[j] = cand[k] => j = k
  BY DEF Inv, Routed, ListOf, Started
<1>4. ASSUME NEW i \in 1..Len(log)
      PROVE  \E k \in 1..at : log[i].by = cand[k]
  <2>1. CASE i \in (Len(log) - attempt)..Len(log)
    <3>1. at \in 1..at
      BY <1>1
    <3>2. log[i].by = cand[at]
      BY <2>1 DEF Inv, Blocks
    <3> QED
      BY <3>1, <3>2
  <2>2. CASE i \in 1..(Len(log) - attempt - 1)
    <3>1. PICK k \in 1..(at - 1) : log[i].by = cand[k]
      BY <2>2 DEF Inv, Blocks
    <3>2. k \in 1..at
      BY <1>1
    <3> QED
      BY <3>1, <3>2
  <2> QED
    BY <1>1, <2>1, <2>2
<1> QED
  BY <1>1, <1>2, <1>3, <1>4

\* The end of the last call is noted; who made which call stays.
EndOf(l, how) == [l EXCEPT ![Len(l)].end = how]

LEMMA EndShape ==
    ASSUME NEW l \in Seq(Call), Len(l) > 0, NEW how \in Failure \cup {"reply"}
    PROVE  /\ EndOf(l, how) \in Seq(Call) /\ Len(EndOf(l, how)) = Len(l)
           /\ \A i \in 1..Len(l) : EndOf(l, how)[i].by = l[i].by
           /\ \A i \in 1..(Len(l) - 1) : EndOf(l, how)[i] = l[i]
           /\ EndOf(l, how)[Len(l)].end = how
<1> DEFINE c == [l[Len(l)] EXCEPT !.end = how]
<1>1. l[Len(l)] \in Call /\ Len(l) \in 1..Len(l) /\ Len(l) \in Nat
  OBVIOUS
<1>2. c \in Call /\ c.by = l[Len(l)].by /\ c.end = how
  <2>1. \A b \in Call : /\ [b EXCEPT !.end = how] \in Call
                        /\ [b EXCEPT !.end = how].by = b.by
                        /\ [b EXCEPT !.end = how].end = how
    BY DEF Call
  <2> QED
    BY <1>1, <2>1
<1> HIDE DEF c
<1>3. EndOf(l, how) = [l EXCEPT ![Len(l)] = c]
  BY DEF EndOf, c
<1> QED
  BY <1>1, <1>2, <1>3

\* What Ranks says of one call.
RankOf(i) ==
    \E n \in 1..at :
        /\ log[i].by = cand[n]
        /\ \A k \in 1..(n - 1) : \E j \in 1..(i - 1) : log[j].by = cand[k]
        /\ \A j \in 1..(i - 1) : \E k \in 1..n : log[j].by = cand[k]

LEMMA RanksStay ==
    ASSUME Inv, Started, cand' = cand, at' \in {at, at + 1},
           \A i \in 1..Len(log) : log'[i].by = log[i].by
    PROVE  \A i \in 1..Len(log) : RankOf(i)'
<1> SUFFICES ASSUME NEW i \in 1..Len(log) PROVE RankOf(i)'
  OBVIOUS
<1>1. PICK n \in 1..at :
        /\ log[i].by = cand[n]
        /\ \A k \in 1..(n - 1) : \E j \in 1..(i - 1) : log[j].by = cand[k]
        /\ \A j \in 1..(i - 1) : \E k \in 1..n : log[j].by = cand[k]
  BY DEF Inv, Ranks
<1>2. n \in 1..at' /\ \A j \in 1..(i - 1) : j \in 1..Len(log)
  BY Distinct
<1> QED
  BY <1>1, <1>2 DEF RankOf

\* Another call, of the last candidate there is.
LEMMA RanksGrow ==
    ASSUME Inv, Started, cand' = cand, at' \in {at, at + 1}, at' <= Len(cand),
           Len(log') = Len(log) + 1,
           \A i \in 1..Len(log) : log'[i].by = log[i].by,
           log'[Len(log) + 1].by = cand[at'],
           \A k \in 1..(at' - 1) : \E i \in 1..Len(log) : log[i].by = cand[k]
    PROVE  Ranks'
<1>1. /\ at \in Nat /\ Len(log) \in Nat /\ at' \in 1..at'
      /\ (Len(log) + 1) - 1 = Len(log) /\ \A k \in 1..at : k \in 1..at'
      /\ \A i \in 1..(Len(log) + 1) : i \in 1..Len(log) \/ i = Len(log) + 1
  BY Distinct
<1>2. \A i \in 1..Len(log) : \E k \in 1..at' : log'[i].by = cand[k]
  BY <1>1, Distinct
<1>3. \A k \in 1..(at' - 1) : \E i \in 1..Len(log) : log'[i].by = cand[k]
  OBVIOUS
<1>4. ASSUME NEW i \in 1..(Len(log) + 1), i = Len(log) + 1
      PROVE  RankOf(i)'
  <2> DEFINE n == at'
  <2>1. /\ n \in 1..at' /\ log'[i].by = cand'[n]
        /\ \A k \in 1..(n - 1) : \E j \in 1..(i - 1) : log'[j].by = cand'[k]
        /\ \A j \in 1..(i - 1) : \E k \in 1..n : log'[j].by = cand'[k]
    BY <1>1, <1>2, <1>3, <1>4
  <2> HIDE DEF n
  <2> QED
    BY <2>1 DEF RankOf
<1>5. \A i \in 1..(Len(log) + 1) : RankOf(i)'
  BY <1>1, <1>4, RanksStay
<1>6. \A i \in 1..Len(log') : RankOf(i)'
  BY <1>5
<1> QED
  BY <1>6 DEF Ranks, RankOf

LEMMA EndsKeep ==
    ASSUME Inv, Started, pc' \in Result \cup {"sleep"}, NEW how \in Failure \cup {"reply"},
           Ended(how), UNCHANGED <<requested, cand, at, attempt, emitted, chunks>>, Paused'
    PROVE  Inv'
<1>1. log \in Seq(Call) /\ Len(log) > 0 /\ log' = EndOf(log, how) /\ Len(log) \in Nat
  BY Distinct DEF Inv, TypeOK, Blocks, Ended, EndOf
<1>2. /\ log' \in Seq(Call) /\ Len(log') = Len(log)
      /\ \A i \in 1..Len(log) : log'[i].by = log[i].by
      /\ \A i \in 1..(Len(log) - 1) : log'[i] = log[i]
  BY <1>1, EndShape
<1>3. Started' /\ pc # "idle" /\ pc' # "idle"
  BY DEF Started, Result
<1>4. TypeOK' /\ Routed' /\ Unstarted' /\ Texts'
  <2>1. TypeOK'
    BY <1>2 DEF Inv, TypeOK
  <2>2. Routed' /\ Unstarted'
    BY <1>3 DEF Inv, Routed, Unstarted
  <2>3. Texts'
    BY DEF Inv, Texts
  <2> QED
    BY <2>1, <2>2, <2>3
<1>5. Blocks'
  <2>1. \A i \in (Len(log) - attempt)..Len(log) : i \in 1..Len(log)
    BY <1>1, RouterAssumption DEF Inv, Blocks, TypeOK
  <2>2. \A i \in 1..(Len(log) - attempt - 1) : i \in 1..Len(log)
    BY <1>1, RouterAssumption DEF Inv, Blocks, TypeOK
  <2> QED
    BY <1>2, <2>1, <2>2 DEF Inv, Blocks
<1>6. Follows'
  <2> SUFFICES ASSUME NEW i \in 1..(Len(log) - 1) PROVE CallsFollow(i)'
    BY <1>2 DEF Follows
  <2>1. CallsFollow(i)
    BY DEF Inv, Follows
  <2>2. i \in 1..Len(log) /\ i + 1 \in 1..Len(log) /\ \A k \in (i + 1)..Len(log) : k \in 1..Len(log)
    BY <1>1
  <2> QED
    BY <1>2, <2>1, <2>2 DEF CallsFollow
<1>7. Few'
  <2>1. \A p \in Provider : {i \in 1..Len(log') : log'[i].by = p} = {i \in 1..Len(log) : log[i].by = p}
    BY <1>2
  <2> QED
    BY <2>1 DEF Inv, Few
<1>8. Ranks'
  <2>1. \A i \in 1..Len(log') : RankOf(i)'
    BY <1>2, RanksStay
  <2> QED
    BY <2>1 DEF Ranks, RankOf
<1> QED
  BY <1>4, <1>5, <1>6, <1>7, <1>8 DEF Inv

\* Another call, of q, after calls that were made as in log.
LEMMA CallsGrow ==
    ASSUME Inv, Started, NEW q \in Provider, NEW l \in Seq(Call), Len(l) = Len(log),
           \A i \in 1..Len(log) : l[i].by = log[i].by,
           \A i \in 1..(Len(log) - 1) : l[i] = log[i],
           log' = Append(l, [by |-> q, end |-> "open"])
    PROVE  /\ log' \in Seq(Call) /\ Len(log') = Len(log) + 1
           /\ \A i \in 1..Len(log) : log'[i].by = log[i].by
           /\ log'[Len(log) + 1].by = q
           /\ (/\ \A i \in 1..(Len(log) - 1) : log[i].by = q => log[i + 1].by = q
               /\ IF log[Len(log)].by = q THEN l[Len(log)].end = "retryable"
                  ELSE l[Len(log)].end \in {"retryable", "permanent", "error"})
                => Follows'
           /\ Cardinality({i \in 1..Len(log') : log'[i].by = q}) <= RetryCount + 1 => Few'
<1>1. Len(log) \in Nat /\ Len(log) > 0
  BY Distinct DEF Inv, TypeOK, Blocks
<1>2. /\ log' \in Seq(Call) /\ Len(log') = Len(log) + 1
      /\ \A i \in 1..Len(log) : log'[i] = l[i]
      /\ log'[Len(log) + 1].by = q
  <2>1. [by |-> q, end |-> "open"] \in Call
    BY DEF Call
  <2> QED
    BY <1>1, <2>1
<1>3. \A i \in 1..Len(log) : log'[i].by = log[i].by
  BY <1>2
<1>4. ASSUME \A i \in 1..(Len(log) - 1) : log[i].by = q => log[i + 1].by = q,
             IF log[Len(log)].by = q THEN l[Len(log)].end = "retryable"
             ELSE l[Len(log)].end \in {"retryable", "permanent", "error"}
      PROVE  Follows'
  <2> SUFFICES ASSUME NEW i \in 1..Len(log) PROVE CallsFollow(i)'
    BY <1>1, <1>2 DEF Follows
  <2>1. CASE i = Len(log)
    <3>1. i \in 1..Len(log) /\ log'[i].by = log[i].by /\ log'[i].end = l[i].end /\ log'[i + 1].by = q
      BY <1>2, <1>3, <2>1
    <3>2. \A k \in (i + 1)..Len(log') : k = i + 1
      BY <1>1, <1>2, <2>1
    <3> QED
      BY <1>4, <2>1, <3>1, <3>2 DEF CallsFollow
  <2>2. CASE i # Len(log)
    <3>1. i \in 1..(Len(log) - 1) /\ i + 1 \in 1..Len(log)
      BY <1>1, <2>2
    <3>2. log'[i] = log[i] /\ log'[i + 1].by = log[i + 1].by
      BY <1>2, <1>3, <3>1
    <3>3. CallsFollow(i)
      BY <3>1 DEF Inv, Follows
    <3>4. CASE log[i].by = log[i + 1].by
      BY <3>2, <3>3, <3>4 DEF CallsFollow
    <3>5. CASE log[i].by # log[i + 1].by
      <4>1. log[i].by # q
        BY <1>4, <3>1, <3>5
      <4>2. \A k \in (i + 1)..(Len(log) + 1) : k = Len(log) + 1
                \/ (k \in 1..Len(log) /\ k \in (i + 1)..Len(log))
        BY <1>1
      <4>3. \A k \in (i + 1)..(Len(log) + 1) : log'[k].by # log'[i].by
        BY <1>2, <1>3, <3>2, <3>3, <3>5, <4>1, <4>2 DEF CallsFollow
      <4> QED
        BY <1>2, <3>2, <3>3, <3>5, <4>3 DEF CallsFollow
    <3> QED
      BY <3>4, <3>5
  <2> QED
    BY <2>1, <2>2
<1>5. ASSUME Cardinality({i \in 1..Len(log') : log'[i].by = q}) <= RetryCount + 1
      PROVE  Few'
  <2>1. ASSUME NEW p \in Provider, p # q
        PROVE  {i \in 1..Len(log') : log'[i].by = p} = {i \in 1..Len(log) : log[i].by = p}
    <3>1. \A i \in 1..Len(log') : i \in 1..Len(log) \/ i = Len(log) + 1
      BY <1>1, <1>2
    <3>2. \A i \in 1..Len(log) : i \in 1..Len(log')
      BY <1>1, <1>2
    <3> QED
      BY <1>2, <1>3, <2>1, <3>1, <3>2
  <2> QED
    BY <1>5, <2>1 DEF Inv, Few
<1> QED
  BY <1>2, <1>3, <1>4, <1>5

LEMMA WakeKeeps == ASSUME Inv, Wake PROVE Inv'
<1>1. /\ pc = "sleep" /\ pc' = "call" /\ attempt' = attempt + 1
      /\ log' = Append(log, [by |-> cand[at], end |-> "open"])
      /\ UNCHANGED <<streaming, requested, cand, at, emitted, chunks>>
  BY DEF Wake, Opened, Current
<1>2. Started /\ Started' /\ attempt < RetryCount /\ ~emitted /\ log[Len(log)].end = "retryable"
  BY <1>1 DEF Inv, Unstarted, Paused, Started
<1>3. /\ cand[at] \in Provider /\ Len(log) \in Nat /\ attempt \in Nat /\ RetryCount \in Nat
      /\ log \in Seq(Call) /\ attempt < Len(log) /\ at \in 1..Len(cand) /\ Len(cand) \in Nat
  BY <1>2, Distinct, RouterAssumption DEF Inv, TypeOK, Blocks
<1>4. \A i \in 1..Len(log) :
        log[i].by = cand[at] <=> i \in (Len(log) - attempt)..Len(log)
  <2>1. \A i \in 1..(Len(log) - attempt - 1) : log[i].by # cand[at]
    <3> SUFFICES ASSUME NEW i \in 1..(Len(log) - attempt - 1) PROVE log[i].by # cand[at]
      OBVIOUS
    <3>1. PICK k \in 1..(at - 1) : log[i].by = cand[k]
      BY <1>2 DEF Inv, Blocks
    <3>2. k \in 1..Len(cand) /\ k # at
      BY <1>3
    <3> QED
      BY <1>2, <1>3, <3>1, <3>2, Distinct
  <2>2. \A i \in (Len(log) - attempt)..Len(log) : log[i].by = cand[at]
    BY <1>2 DEF Inv, Blocks
  <2>3. \A i \in 1..Len(log) : i \in (Len(log) - attempt)..Len(log)
             \/ i \in 1..(Len(log) - attempt - 1)
    BY <1>3
  <2> QED
    BY <2>1, <2>2, <2>3
<1>5. /\ log' \in Seq(Call) /\ Len(log') = Len(log) + 1
      /\ \A i \in 1..Len(log) : log'[i].by = log[i].by
      /\ log'[Len(log) + 1].by = cand[at]
  BY <1>1, <1>2, <1>3, CallsGrow
<1>6. Follows'
  <2>1. \A i \in 1..(Len(log) - 1) : log[i].by = cand[at] => log[i + 1].by = cand[at]
    <3> SUFFICES ASSUME NEW i \in 1..(Len(log) - 1), log[i].by = cand[at]
                 PROVE  log[i + 1].by = cand[at]
      OBVIOUS
    <3>1. i \in 1..Len(log) /\ i + 1 \in 1..Len(log)
      BY <1>3
    <3>2. i \in (Len(log) - attempt)..Len(log)
      BY <1>4, <3>1
    <3>3. i + 1 \in (Len(log) - attempt)..Len(log)
      BY <1>3, <3>1, <3>2
    <3> QED
      BY <1>4, <3>1, <3>3
  <2>2. log[Len(log)].by = cand[at]
    BY <1>3, <1>4
  <2> QED
    BY <1>1, <1>2, <1>3, <2>1, <2>2, CallsGrow
<1>7. Few'
  <2>1. {i \in 1..Len(log') : log'[i].by = cand[at]} = (Len(log) - attempt)..(Len(log) + 1)
    <3> DEFINE n == Len(log)
               b == n - attempt
    <3>0. n \in Nat /\ b \in 1..n /\ Len(log') = n + 1
      BY <1>3, <1>5
    <3> HIDE DEF n, b
    <3>1. \A i \in 1..Len(log') : i \in 1..n \/ i = n + 1
      BY <3>0
    <3>2. \A i \in b..(n + 1) : i \in 1..Len(log') /\ (i = n + 1 \/ i \in b..n)
      BY <3>0
    <3> USE DEF n, b
    <3>3. \A i \in (Len(log) - attempt)..Len(log) : i \in (Len(log) - attempt)..(Len(log) + 1)
      BY <1>3
    <3>4. Len(log) + 1 \in (Len(log) - attempt)..(Len(log) + 1)
      BY <1>3
    <3>5. \A i \in 1..Len(log') : log'[i].by = cand[at] <=> i \in (Len(log) - attempt)..(Len(log) + 1)
      <4> SUFFICES ASSUME NEW i \in 1..Len(log')
                   PROVE  log'[i].by = cand[at] <=> i \in (Len(log) - attempt)..(Len(log) + 1)
        OBVIOUS
      <4>1. CASE i = Len(log) + 1
        BY <1>5, <3>4, <4>1
      <4>2. CASE i \in 1..Len(log)
        <5>1. i # Len(log) + 1 /\ log'[i].by = log[i].by
          BY <1>3, <1>5, <4>2
        <5> QED
          BY <1>4, <3>2, <3>3, <4>2, <5>1
      <4> QED
        BY <3>1, <4>1, <4>2
    <3> QED
      BY <3>2, <3>5
  <2>2. Cardinality((Len(log) - attempt)..(Len(log) + 1)) = attempt + 2
    BY <1>3, FS_Interval
  <2>3. Cardinality({i \in 1..Len(log') : log'[i].by = cand[at]}) <= RetryCount + 1
    <3>1. attempt + 2 <= RetryCount + 1
      BY <1>2, <1>3
    <3> QED
      BY <2>1, <2>2, <3>1
  <2> QED
    BY <1>1, <1>2, <1>3, <2>3, CallsGrow
<1>8. TypeOK'
  BY <1>1, <1>2, <1>3, <1>5 DEF Inv, TypeOK
<1>9. Routed' /\ Unstarted' /\ Paused' /\ Texts'
  BY <1>1, <1>2 DEF Inv, Routed, Unstarted, Paused, Texts
<1>10. Blocks'
  <2>1. \A i \in (Len(log') - attempt')..Len(log') :
          i = Len(log) + 1 \/ (i \in (Len(log) - attempt)..Len(log) /\ i \in 1..Len(log))
    <3>1. Len(log') - attempt' = Len(log) - attempt /\ Len(log') = Len(log) + 1
      BY <1>1, <1>3, <1>5
    <3>2. \A i \in (Len(log) - attempt)..(Len(log) + 1) :
            i = Len(log) + 1 \/ (i \in (Len(log) - attempt)..Len(log) /\ i \in 1..Len(log))
      BY <1>3
    <3> QED
      BY <3>1, <3>2
  <2>2. \A i \in 1..(Len(log') - attempt' - 1) :
          i \in 1..(Len(log) - attempt - 1) /\ i \in 1..Len(log)
    BY <1>1, <1>3, <1>5
  <2>3. \A i \in (Len(log') - attempt')..Len(log') : log'[i].by = cand[at]
    BY <1>4, <1>5, <2>1
  <2>4. \A i \in 1..(Len(log') - attempt' - 1) : \E k \in 1..(at - 1) : log'[i].by = cand[k]
    BY <1>2, <1>5, <2>2 DEF Inv, Blocks
  <2>5. \A k \in 1..(at - 1) : \E i \in 1..Len(log') : log'[i].by = cand[k]
    <3>1. \A i \in 1..Len(log) : i \in 1..Len(log')
      BY <1>3, <1>5
    <3> QED
      BY <1>2, <1>5, <3>1 DEF Inv, Blocks
  <2>6. at' <= Len(cand') /\ attempt' < Len(log')
    BY <1>1, <1>3, <1>5
  <2> QED
    BY <1>1, <2>3, <2>4, <2>5, <2>6 DEF Blocks
<1>11. Ranks'
  <2>1. at' \in {at, at + 1} /\ at' <= Len(cand) /\ cand' = cand
    BY <1>1, <1>3
  <2>2. \A k \in 1..(at' - 1) : \E i \in 1..Len(log) : log[i].by = cand[k]
    BY <1>1, <1>2 DEF Inv, Blocks
  <2> QED
    BY <1>1, <1>2, <1>5, <2>1, <2>2, RanksGrow
<1> QED
  BY <1>6, <1>7, <1>8, <1>9, <1>10, <1>11 DEF Inv

\* A fallback: the next candidate has not been called before.
LEMMA MoveKeeps ==
    ASSUME Inv, Started, NEW how \in {"retryable", "permanent", "error"}, ~emitted,
           MoveOn(how), UNCHANGED <<requested, cand, chunks>>
    PROVE  Inv'
<1>1. log \in Seq(Call) /\ Len(log) > 0 /\ Len(log) \in Nat
  BY Distinct DEF Inv, TypeOK, Blocks
<1>2. CASE LastCandidate
  <2>1. /\ Ended(how) /\ pc' = "failed" /\ UNCHANGED <<at, attempt, emitted>>
    BY <1>2 DEF MoveOn
  <2>2. Paused'
    BY <1>2, <2>1, RouterAssumption DEF Paused, LastCandidate
  <2> QED
    BY <2>1, <2>2, EndsKeep DEF Result, Failure
<1>3. CASE ~LastCandidate
  <2> DEFINE l == EndOf(log, how)
             q == cand[at + 1]
  <2>1. /\ pc' = "call" /\ at' = at + 1 /\ attempt' = 0 /\ emitted' = FALSE
        /\ log' = Append(l, [by |-> q, end |-> "open"])
    BY <1>3 DEF MoveOn, EndOf
  <2>2. /\ l \in Seq(Call) /\ Len(l) = Len(log) /\ \A i \in 1..Len(log) : l[i].by = log[i].by
        /\ \A i \in 1..(Len(log) - 1) : l[i] = log[i]
        /\ l[Len(log)].end = how
    <3>1. how \in Failure \cup {"reply"}
      BY DEF Failure
    <3> QED
      BY <1>1, <3>1, EndShape
  <2>3. /\ at \in 1..Len(cand) /\ at + 1 \in 1..Len(cand) /\ Len(cand) \in Nat
        /\ \A k \in 1..at : k \in 1..Len(cand) /\ k # at + 1
    BY <1>3, Distinct DEF LastCandidate
  <2>4. q \in Provider
    BY <2>3, Distinct
  <2> HIDE DEF l, q
  <2>5. \A i \in 1..Len(log) : log[i].by # q
    <3> SUFFICES ASSUME NEW i \in 1..Len(log) PROVE log[i].by # q
      OBVIOUS
    <3>1. PICK k \in 1..at : log[i].by = cand[k]
      BY Distinct
    <3> QED
      BY <2>3, <3>1, Distinct DEF q
  <2>6. /\ log' \in Seq(Call) /\ Len(log') = Len(log) + 1
        /\ \A i \in 1..Len(log) : log'[i].by = log[i].by
        /\ log'[Len(log) + 1].by = q
    BY <2>1, <2>2, <2>4, CallsGrow
  <2>7. Follows'
    <3>1. \A i \in 1..(Len(log) - 1) : log[i].by = q => log[i + 1].by = q
      <4>1. \A i \in 1..(Len(log) - 1) : i \in 1..Len(log)
        BY <1>1
      <4> QED
        BY <2>5, <4>1
    <3>2. log[Len(log)].by # q /\ l[Len(log)].end \in {"retryable", "permanent", "error"}
      BY <1>1, <2>2, <2>5
    <3> QED
      BY <2>1, <2>2, <2>4, <3>1, <3>2, CallsGrow
  <2>8. Few'
    <3>1. {i \in 1..Len(log') : log'[i].by = q} = {Len(log) + 1}
      <4>1. \A i \in 1..Len(log') : i \in 1..Len(log) \/ i = Len(log) + 1
        BY <1>1, <2>6
      <4>2. Len(log) + 1 \in 1..Len(log')
        BY <1>1, <2>6
      <4> QED
        BY <2>5, <2>6, <4>1, <4>2
    <3>2. Cardinality({Len(log) + 1}) = 1
      BY FS_Singleton
    <3>3. Cardinality({i \in 1..Len(log') : log'[i].by = q}) <= RetryCount + 1
      <4>1. 1 <= RetryCount + 1
        BY RouterAssumption
      <4> QED
        BY <3>1, <3>2, <4>1
    <3> QED
      BY <2>1, <2>2, <2>4, <3>3, CallsGrow
  <2>9. Started'
    BY <2>1 DEF Started
  <2>10. TypeOK'
    <3>1. at' \in Nat \ {0} /\ attempt' \in 0..RetryCount
      BY <2>1, <2>3, RouterAssumption
    <3> QED
      BY <2>1, <2>6, <3>1 DEF Inv, TypeOK
  <2>11. Routed' /\ Unstarted' /\ Paused'
    BY <2>1, <2>9 DEF Inv, Routed, Unstarted, Paused, Started
  <2>12. Texts'
    BY DEF Inv, Texts
  <2>13. Blocks'
    <3>1. at' <= Len(cand') /\ attempt' < Len(log')
      BY <1>1, <2>1, <2>3, <2>6
    <3>2. \A i \in (Len(log') - attempt')..Len(log') : log'[i].by = cand'[at']
      <4>1. \A i \in (Len(log') - attempt')..Len(log') : i = Len(log) + 1
        BY <1>1, <2>1, <2>6
      <4> QED
        BY <2>1, <2>6, <4>1 DEF q
    <3>3. \A i \in 1..(Len(log') - attempt' - 1) : \E k \in 1..(at' - 1) : log'[i].by = cand'[k]
      <4>1. \A i \in 1..(Len(log') - attempt' - 1) : i \in 1..Len(log)
        BY <1>1, <2>1, <2>6
      <4>2. 1..(at' - 1) = 1..at
        BY <2>1, <2>3
      <4> QED
        BY <2>6, <4>1, <4>2, Distinct
    <3>4. \A k \in 1..(at' - 1) : \E i \in 1..Len(log') : log'[i].by = cand'[k]
      <4> SUFFICES ASSUME NEW k \in 1..at PROVE \E i \in 1..Len(log) : log[i].by = cand[k]
        <5>1. 1..(at' - 1) = 1..at /\ \A i \in 1..Len(log) : i \in 1..Len(log')
          BY <1>1, <2>1, <2>3, <2>6
        <5> QED
          BY <2>6, <5>1
      <4>1. CASE k = at
        <5>1. Len(log) \in (Len(log) - attempt)..Len(log) /\ Len(log) \in 1..Len(log)
          BY <1>1, RouterAssumption DEF Inv, TypeOK
        <5> QED
          BY <4>1, <5>1 DEF Inv, Blocks
      <4>2. CASE k # at
        <5>1. k \in 1..(at - 1)
          BY <2>3, <4>2
        <5> QED
          BY <5>1 DEF Inv, Blocks
      <4> QED
        BY <4>1, <4>2
    <3> QED
      BY <3>1, <3>2, <3>3, <3>4 DEF Blocks
  <2>14. Ranks'
    <3>1. at' \in {at, at + 1} /\ at' <= Len(cand) /\ cand' = cand /\ Started'
      BY <2>1, <2>3, <2>9
    <3>2. \A k \in 1..(at' - 1) : \E i \in 1..Len(log) : log[i].by = cand[k]
      <4>1. ASSUME NEW k \in 1..at PROVE \E i \in 1..Len(log) : log[i].by = cand[k]
        <5>1. CASE k = at
          <6>1. Len(log) \in (Len(log) - attempt)..Len(log) /\ Len(log) \in 1..Len(log)
            BY <1>1, RouterAssumption DEF Inv, TypeOK
          <6> QED
            BY <5>1, <6>1 DEF Inv, Blocks
        <5>2. CASE k # at
          <6>1. k \in 1..(at - 1)
            BY <2>3, <5>2
          <6> QED
            BY <6>1 DEF Inv, Blocks
        <5> QED
          BY <5>1, <5>2
      <4>2. 1..(at' - 1) = 1..at
        BY <2>1, <2>3
      <4> QED
        BY <4>1, <4>2
    <3>3. log'[Len(log) + 1].by = cand[at']
      BY <2>1, <2>6 DEF q
    <3> QED
      BY <2>6, <3>1, <3>2, <3>3, RanksGrow
  <2> QED
    BY <2>7, <2>8, <2>10, <2>11, <2>12, <2>13, <2>14 DEF Inv
<1> QED
  BY <1>2, <1>3

LEMMA FailsKeeps == ASSUME Inv, NEW how \in Failure, Fails(how) PROVE Inv'
<1>1. pc = "call" /\ Started /\ UNCHANGED <<requested, cand, chunks>>
  BY DEF Fails, Inv, Unstarted
<1>2. CASE how = "other"
  <2>1. Stop("crashed", how)
    BY <1>2 DEF Fails
  <2> QED
    BY <1>1, <2>1, EndsKeep DEF Stop, Result, Paused
<1>3. CASE how # "other" /\ emitted
  <2>1. Stop("interrupted", how)
    BY <1>3 DEF Fails
  <2> QED
    BY <1>1, <2>1, EndsKeep DEF Stop, Result, Paused
<1>4. CASE how # "other" /\ ~emitted /\ Retries(how)
  <2>1. Stop("sleep", how)
    BY <1>4 DEF Fails
  <2>2. log \in Seq(Call) /\ Len(log) > 0
    BY <1>1, Distinct DEF Inv, TypeOK, Blocks
  <2>3. log'[Len(log')].end = "retryable"
    BY <1>4, <2>1, <2>2, EndShape DEF Stop, Ended, EndOf, Retries
  <2>4. Paused'
    BY <1>4, <2>1, <2>3 DEF Stop, Paused, Retries
  <2> QED
    BY <1>1, <2>1, <2>4, EndsKeep DEF Stop
<1>5. CASE how # "other" /\ ~emitted /\ ~Retries(how)
  <2>1. MoveOn(how) /\ how \in {"retryable", "permanent", "error"}
    BY <1>5 DEF Fails, Failure
  <2> QED
    BY <1>1, <1>5, <2>1, MoveKeeps
<1> QED
  BY <1>2, <1>3, <1>4, <1>5

LEMMA ReplyKeeps == ASSUME Inv, Reply PROVE Inv'
<1>1. Started
  BY DEF Reply, Inv, Unstarted
<1> QED
  BY <1>1, EndsKeep DEF Reply, Result, Paused

LEMMA YieldKeeps == ASSUME Inv, NEW text \in BOOLEAN, Yield(text) PROVE Inv'
<1>1. /\ pc = "call" /\ emitted' = (emitted \/ text)
      /\ chunks' = Append(chunks, [by |-> cand[at], text |-> text])
      /\ UNCHANGED <<pc, requested, cand, at, attempt, log>>
  BY DEF Yield, Current
<1>2. Started /\ Started'
  BY <1>1 DEF Inv, Unstarted, Started
<1>3. /\ cand[at] \in Provider /\ chunks \in Seq([by : Provider, text : BOOLEAN])
      /\ Len(chunks) \in Nat
  BY <1>2, Distinct DEF Inv, TypeOK
<1>4. /\ chunks' \in Seq([by : Provider, text : BOOLEAN]) /\ Len(chunks') = Len(chunks) + 1
      /\ \A i \in 1..Len(chunks) : chunks'[i] = chunks[i]
      /\ chunks'[Len(chunks) + 1] = [by |-> cand[at], text |-> text]
  BY <1>1, <1>3
<1>5. emitted' \in BOOLEAN /\ (emitted => emitted') /\ (text => emitted')
  BY <1>1, Zenon DEF Inv, TypeOK
<1>6. TypeOK'
  BY <1>1, <1>4, <1>5 DEF Inv, TypeOK
<1>7. Routed' /\ Unstarted' /\ Paused'
  BY <1>1, <1>2 DEF Inv, Routed, Unstarted, Paused
<1>8. Texts'
  <2>1. \A i \in 1..Len(chunks') : i \in 1..Len(chunks) \/ i = Len(chunks) + 1
    BY <1>3, <1>4
  <2> QED
    BY <1>1, <1>4, <1>5, <2>1 DEF Inv, Texts
<1>9. Blocks' /\ Ranks' /\ Follows' /\ Few'
  <2>1. Blocks' /\ Follows' /\ Few'
    BY <1>1, <1>2 DEF Inv, Blocks, Follows, CallsFollow, Few
  <2>2. Ranks'
    BY <1>1 DEF Inv, Ranks
  <2> QED
    BY <2>1, <2>2
<1> QED
  BY <1>6, <1>7, <1>8, <1>9 DEF Inv

LEMMA CancelKeeps == ASSUME Inv, Cancel PROVE Inv'
<1>1. /\ pc \in {"call", "sleep"} /\ pc' = "cancelled"
      /\ UNCHANGED <<requested, cand, at, attempt, emitted, chunks, log>>
  BY DEF Cancel
<1>2. Started /\ Started'
  BY <1>1 DEF Inv, Unstarted, Started
<1>3. TypeOK' /\ Routed' /\ Unstarted' /\ Paused' /\ Texts'
  BY <1>1, <1>2 DEF Inv, TypeOK, Result, Routed, Unstarted, Paused, Texts
<1>4. Blocks' /\ Ranks' /\ Follows' /\ Few'
  <2>1. Blocks' /\ Follows' /\ Few'
    BY <1>1, <1>2 DEF Inv, Blocks, Follows, CallsFollow, Few
  <2>2. Ranks'
    BY <1>1 DEF Inv, Ranks
  <2> QED
    BY <2>1, <2>2
<1> QED
  BY <1>3, <1>4 DEF Inv

LEMMA StartKeeps ==
    ASSUME Inv, NEW mode, NEW name, Start(mode, name)
    PROVE  Inv'
<1>1. /\ pc = "idle" /\ requested' = name /\ cand' = Candidates(name)
      /\ UNCHANGED <<at, attempt, emitted, chunks>>
      /\ \/ cand' = <<>> /\ pc' = "failed" /\ log' = log
         \/ cand' # <<>> /\ pc' = "call" /\ log' = <<[by |-> cand'[1], end |-> "open"]>>
  BY DEF Start
<1>2. /\ ~Started /\ log = <<>> /\ chunks = <<>> /\ at = 1 /\ attempt = 0 /\ ~emitted
  BY <1>1 DEF Started, Inv, Unstarted
<1>3. Routed' /\ cand' \in Seq(Usable)
  BY <1>1, CandidatesShape DEF Routed, Named, ListOf
<1>9. Ranks'
  <2>1. CASE cand' = <<>>
    BY <1>1, <1>2, <2>1 DEF Ranks
  <2>2. CASE cand' # <<>>
    <3>1. at' = 1 /\ log'[1].by = cand'[1] /\ Len(log') = 1
      BY <1>1, <1>2, <2>2
    <3> QED
      BY <3>1 DEF Ranks
  <2> QED
    BY <2>1, <2>2
<1>4. Len(cand') \in Nat /\ (cand' # <<>> => Len(cand') > 0 /\ cand'[1] \in Provider)
  BY <1>3, RouterAssumption
<1>5. TypeOK'
  <2>1. log' \in Seq(Call)
    <3>1. cand' # <<>> => [by |-> cand'[1], end |-> "open"] \in Call
      BY <1>4 DEF Call
    <3>2. <<>> \in Seq(Call) /\ \A c \in Call : <<c>> \in Seq(Call)
      OBVIOUS
    <3>3. CASE cand' = <<>>
      BY <1>1, <1>2, <3>2, <3>3
    <3>4. CASE cand' # <<>>
      BY <1>1, <3>1, <3>2, <3>4
    <3> QED
      BY <3>3, <3>4
  <2> QED
    BY <1>1, <1>2, <1>3, <2>1, RouterAssumption DEF Inv, TypeOK, Result
<1>6. Unstarted' /\ Paused' /\ Texts'
  BY <1>1, <1>2 DEF Unstarted, Started, Paused, Texts
<1>7. CASE cand' = <<>>
  <2>1. log' = <<>> /\ Len(log') = 0
    BY <1>1, <1>2, <1>7
  <2>2. \A p \in Provider : {i \in 1..Len(log') : log'[i].by = p} = {}
    BY <2>1
  <2>3. Blocks' /\ Follows' /\ Few'
    BY <1>7, <2>1, <2>2, FS_EmptySet, RouterAssumption DEF Blocks, Started, Follows, Few
  <2> QED
    BY <1>3, <1>5, <1>6, <1>9, <2>3 DEF Inv
<1>8. CASE cand' # <<>>
  <2>1. /\ log' = <<[by |-> cand'[1], end |-> "open"]>> /\ Len(log') = 1
        /\ log'[1].by = cand'[1]
    BY <1>1, <1>8
  <2>2. Follows'
    BY <2>1 DEF Follows
  <2>3. Few'
    <3>1. \A p \in Provider : \/ {i \in 1..Len(log') : log'[i].by = p} = {}
                              \/ {i \in 1..Len(log') : log'[i].by = p} = {1}
      <4>1. \A i \in 1..Len(log') : i = 1
        BY <2>1
      <4>2. 1 \in 1..Len(log')
        BY <2>1
      <4> QED
        BY <4>1, <4>2
    <3>2. Cardinality({}) = 0 /\ Cardinality({1}) = 1
      BY FS_EmptySet, FS_Singleton
    <3>3. 0 <= RetryCount + 1 /\ 1 <= RetryCount + 1
      BY RouterAssumption
    <3> QED
      BY <3>1, <3>2, <3>3 DEF Few
  <2>4. Blocks'
    BY <1>1, <1>2, <1>4, <1>8, <2>1 DEF Blocks
  <2> QED
    BY <1>3, <1>5, <1>6, <1>9, <2>2, <2>3, <2>4 DEF Inv
<1> QED
  BY <1>7, <1>8

LEMMA RouterInit == Init => Inv
<1> SUFFICES ASSUME Init PROVE Inv
  OBVIOUS
<1>1. TypeOK
  <2>1. 0 \in 0..RetryCount
    BY RouterAssumption
  <2> QED
    <3>1. /\ <<>> \in Seq(Usable) /\ <<>> \in Seq(Call)
          /\ <<>> \in Seq([by : Provider, text : BOOLEAN])
      OBVIOUS
    <3>2. pc = "idle" /\ at = 1 /\ attempt = 0 /\ emitted = FALSE
      BY DEF Init
    <3>3. cand = <<>> /\ chunks = <<>> /\ log = <<>>
      BY DEF Init
    <3>4. cand \in Seq(Usable) /\ log \in Seq(Call) /\ chunks \in Seq([by : Provider, text : BOOLEAN])
      BY <3>1, <3>3
    <3>5. at \in Nat \ {0} /\ attempt \in 0..RetryCount
      BY <2>1, <3>2
    <3>6. pc \in {"idle", "call", "sleep"} \cup Result /\ emitted \in BOOLEAN
      BY <3>2, Zenon
    <3> QED
      BY <3>4, <3>5, <3>6, Zenon DEF TypeOK
<1>4. Routed /\ Unstarted /\ Paused /\ Texts
  BY DEF Init, Routed, Unstarted, Paused, Started, Texts
<1>2. \A p \in Provider : {i \in 1..Len(log) : log[i].by = p} = {}
  <2>1. Len(log) = 0
    BY DEF Init
  <2> QED
    BY <2>1
<1>3. Blocks /\ Ranks /\ Follows /\ Few
  BY <1>2, FS_EmptySet, RouterAssumption DEF Init, Blocks, Ranks, Started, Follows, Few
<1> QED
  BY <1>1, <1>3, <1>4 DEF Inv

LEMMA RouterStep == ASSUME Inv, [Next]_vars PROVE Inv'
<1>1. CASE UNCHANGED vars
  BY <1>1 DEF vars, Inv, TypeOK, Routed, Unstarted, Started, Blocks, Ranks, Paused, Texts,
              Follows, CallsFollow, Few
<1> QED
  BY <1>1, StartKeeps, ReplyKeeps, WakeKeeps, CancelKeeps, YieldKeeps, FailsKeeps DEF Next

LEMMA RouterInvariant == Spec => []Inv
  BY RouterInit, RouterStep, PTL DEF Spec

LEMMA InvNeverMixes == Inv => NeverMixes
<1> SUFFICES ASSUME Inv, NEW i \in DOMAIN chunks, chunks[i].text
             PROVE  pc \notin {"sleep", "failed"} /\ chunks[i].by = Last(log).by /\ emitted
  BY DEF NeverMixes
<1>1. i \in 1..Len(chunks) /\ chunks # <<>>
  BY DEF Inv, TypeOK
<1>2. emitted /\ chunks[i].by = cand[at]
  BY <1>1 DEF Inv, Texts
<1>3. Started
  BY <1>1 DEF Inv, Unstarted
<1>4. Len(log) \in (Len(log) - attempt)..Len(log)
  BY <1>3, Distinct, RouterAssumption DEF Inv, TypeOK
<1>5. Last(log).by = cand[at]
  BY <1>3, <1>4 DEF Inv, Blocks, Last
<1> QED
  BY <1>2, <1>5 DEF Inv, Paused

LEMMA BeforeIsEarlier ==
    ASSUME NEW name, name \notin Provider, NEW p, NEW q
    PROVE  Before(p, q) <=> Earlier(Names(name), p, q)
  BY DEF Before, Earlier, Names

\* Who is named first is not named second.
LEMMA EarlierOne ==
    ASSUME NEW names, NEW n \in Nat, DOMAIN names = 1..n, NEW p, NEW q,
           Earlier(names, p, q), Earlier(names, q, p)
    PROVE  FALSE
<1>1. PICK a \in 1..n : names[a] = p /\ \A b \in 1..a : names[b] # q
  BY DEF Earlier
<1>2. PICK c \in 1..n : names[c] = q /\ \A b \in 1..c : names[b] # p
  BY DEF Earlier
<1>3. a \in 1..c \/ c \in 1..a
  OBVIOUS
<1> QED
  BY <1>1, <1>2, <1>3

\* Without a name, the others called before a call are those named before its provider.
LEMMA EarlierCalled ==
    ASSUME Inv, requested \notin Provider, NEW i \in 1..Len(log),
           NEW p \in Usable, p # log[i].by
    PROVE  Before(p, log[i].by) <=> \E j \in 1..(i - 1) : log[j].by = p
<1> DEFINE names == Names(requested)
           n == Len(names)
<1>1. Started
  BY DEF Inv, Unstarted
<1>2. n \in Nat /\ DOMAIN names = 1..n
  BY RouterAssumption DEF Names
<1>3. PICK m \in 1..at :
        /\ log[i].by = cand[m]
        /\ \A k \in 1..(m - 1) : \E j \in 1..(i - 1) : log[j].by = cand[k]
        /\ \A j \in 1..(i - 1) : \E k \in 1..m : log[j].by = cand[k]
  BY DEF Inv, Ranks
<1>4. /\ \A k \in 1..at : k \in 1..Len(cand)
      /\ at \in Nat /\ Len(cand) \in Nat
  BY <1>1, Distinct
<1>5. Sorted(cand, names) /\ ListOf(cand, Named(requested))
  BY <1>1 DEF Inv, Routed, Started
<1>6. ASSUME NEW j \in 1..(i - 1), log[j].by = p
      PROVE  Before(p, log[i].by)
  <2>1. PICK k \in 1..m : log[j].by = cand[k]
    BY <1>3
  <2>2. k < m /\ k \in 1..Len(cand) /\ m \in 1..Len(cand)
    BY <1>3, <1>4, <1>6, <2>1
  <2>3. Earlier(names, cand[k], cand[m])
    BY <1>5, <2>2 DEF Sorted
  <2> QED
    BY <1>3, <1>6, <2>1, <2>3, BeforeIsEarlier
<1>7. ASSUME Before(p, log[i].by)
      PROVE  \E j \in 1..(i - 1) : log[j].by = p
  <2>1. Earlier(names, p, cand[m])
    BY <1>3, <1>7, BeforeIsEarlier
  <2>2. p \in Named(requested)
    <3>1. PICK a \in 1..n : names[a] = p
      BY <1>2, <2>1 DEF Earlier
    <3>2. names = <<Default>> \o Fallbacks /\ Fallbacks \in Seq(Provider)
      BY RouterAssumption DEF Names
    <3>3. names[a] = Default \/ \E b \in DOMAIN Fallbacks : names[a] = Fallbacks[b]
      BY <1>2, <3>2, RouterAssumption
    <3> QED
      BY <3>1, <3>3 DEF Named, Range
  <2>3. PICK k \in 1..Len(cand) : cand[k] = p
    BY <1>5, <2>2 DEF ListOf
  <2>4. m \in 1..Len(cand) /\ k # m
    BY <1>3, <1>4, <2>3
  <2>5. ~(m < k)
    <3> SUFFICES ASSUME m < k PROVE FALSE
      OBVIOUS
    <3>1. Earlier(names, cand[m], p)
      BY <1>5, <2>3, <2>4 DEF Sorted
    <3> HIDE DEF names, n
    <3> QED
      BY <1>2, <2>1, <3>1, EarlierOne
  <2>6. k \in 1..(m - 1)
    BY <2>3, <2>4, <2>5
  <2> QED
    BY <1>3, <2>3, <2>6
<1> QED
  BY <1>6, <1>7

LEMMA InvCallsAreInOrder == Inv => CallsAreInOrder
<1> SUFFICES ASSUME Inv PROVE CallsAreInOrder
  OBVIOUS
<1>1. DOMAIN log = 1..Len(log)
  BY DEF Inv, TypeOK
<1>2. ASSUME requested \in Provider, NEW i \in DOMAIN log
      PROVE  log[i].by = requested
  <2>1. Started
    BY <1>1 DEF Inv, Unstarted
  <2>2. PICK k \in 1..at : log[i].by = cand[k]
    BY <1>1, <2>1, Distinct
  <2>3. k \in 1..Len(cand)
    BY <2>1, Distinct
  <2>4. {cand[j] : j \in 1..Len(cand)} \subseteq {requested}
    BY <1>2, <2>1 DEF Inv, Routed, Named, ListOf, Started
  <2> QED
    BY <2>2, <2>3, <2>4
<1>3. ASSUME requested \notin Provider
      PROVE  \A i \in DOMAIN log : \A p \in Usable \ {log[i].by} :
                 Before(p, log[i].by) <=> \E j \in 1..(i - 1) : log[j].by = p
  BY <1>1, <1>3, EarlierCalled
<1> QED
  BY <1>1, <1>2, <1>3 DEF Inv, Follows, Few, CallsAreInOrder

LEMMA InvFailsOnlyWhenAllFailed == Inv => FailsOnlyWhenAllFailed
<1> SUFFICES ASSUME Inv, pc = "failed", requested = None,
                    NEW p \in Usable \cap ({Default} \cup Range(Fallbacks))
             PROVE  \E i \in DOMAIN log : log[i].by = p
  BY DEF FailsOnlyWhenAllFailed, AllTried
<1>1. Named(requested) = {Default} \cup Range(Fallbacks)
  BY RouterAssumption DEF Named
<1>2. PICK k \in 1..Len(cand) : cand[k] = p
  BY <1>1 DEF Inv, Routed, ListOf
<1>3. Started
  BY <1>2 DEF Started
<1>4. at = Len(cand) /\ Len(cand) \in Nat /\ Len(log) \in Nat /\ attempt \in Nat
      /\ attempt < Len(log)
  BY <1>3, Distinct, RouterAssumption DEF Inv, Paused, Blocks, TypeOK
<1>5. \E i \in 1..Len(log) : log[i].by = p
  <2>1. CASE k = at
    <3>1. Len(log) \in (Len(log) - attempt)..Len(log) /\ Len(log) \in 1..Len(log)
      BY <1>4
    <3> QED
      BY <1>2, <1>3, <2>1, <3>1 DEF Inv, Blocks
  <2>2. CASE k # at
    <3>1. k \in 1..(at - 1)
      BY <1>4, <2>2
    <3> QED
      BY <1>2, <1>3, <3>1 DEF Inv, Blocks
  <2> QED
    BY <2>1, <2>2
<1> QED
  BY <1>5 DEF Inv, TypeOK

-----------------------------------------------------------------------------
(* The exchanges *)

LEMMA FaultFails == ASSUME NEW how, Fault(how), how \in Failure PROVE [Next]_vars
  BY DEF Fault, Next

\* Every step of an exchange is one of the router, or none.
LEMMA ExchangeStep == ASSUME [HttpNext]_allVars PROVE [Next]_vars
<1>1. ASSUME NEW mode \in BOOLEAN, NEW name \in Provider \cup {None, Blank}, Enter(mode, name)
      PROVE  [Next]_vars
  BY <1>1 DEF Enter, Next
<1>2. ASSUME NEW status \in {"ok", "transient", "refused"}, Respond(status)
      PROVE  [Next]_vars
  BY <1>2, FaultFails DEF Respond, Failure
<1>3. ASSUME NEW b \in Body, Receive(b)
      PROVE  [Next]_vars
  BY <1>3, FaultFails DEF Receive, Failure, Next
<1>4. ASSUME NEW e \in Event, Hear(e)
      PROVE  [Next]_vars
  <2>1. Fault("permanent") \/ Yield(TRUE) \/ UNCHANGED vars
    BY <1>4 DEF Hear
  <2> QED
    BY <2>1, FaultFails DEF Failure, Next
<1>5. ASSUME Drop \/ Garble \/ Undecodable
      PROVE  [Next]_vars
  BY <1>5, FaultFails DEF Drop, Garble, Undecodable, Failure
<1>6. ASSUME Slice \/ Finish \/ Return \/ Again \/ Leave \/ UNCHANGED allVars
      PROVE  [Next]_vars
  BY <1>6 DEF Slice, Finish, Return, Again, Leave, allVars, Next
<1> QED
  BY <1>1, <1>2, <1>3, <1>4, <1>5, <1>6 DEF HttpNext

\* HttpProviders implements ProviderRouter: whatever the servers send or fail to
\* send, the router sees a reply, a chunk or one of the failures it distinguishes
\* (http_providers.py:437-554 under router.py:58-123).
THEOREM ImplementsRouter == HttpSpec => Spec
<1>1. HttpInit => Init
  BY DEF HttpInit
<1> QED
  BY <1>1, ExchangeStep, PTL DEF HttpSpec, Spec

\* The text the caller received comes from one call of one provider (router.py:106-119).
THEOREM OneProvidersText == HttpSpec => []NeverMixes
  BY ImplementsRouter, RouterInvariant, InvNeverMixes, PTL

\* Without a name the providers are called in the order of the configuration, the
\* unusable ones left out and none skipped; each at most RetryCount + 1 times in a
\* row; and a named provider is never replaced (router.py:36-56, 74-83).
THEOREM OrderedCalls == HttpSpec => []CallsAreInOrder
  BY ImplementsRouter, RouterInvariant, InvCallsAreInOrder, PTL

\* A request without a provider name fails only when every usable candidate was
\* called (router.py:81-83, 121-123).
THEOREM NoFallbackIsSkipped == HttpSpec => []FailsOnlyWhenAllFailed
  BY ImplementsRouter, RouterInvariant, InvFailsOnlyWhenAllFailed, PTL

-----------------------------------------------------------------------------
(* The usage *)

\* Styles whose events may count at any time.
Running == streaming /\ Style[Current] \in {"compatible", "gemini"}

\* The count the code holds is the last that the server sent; nothing was counted
\* before the part of the answer that counts; and who was answered was told.
Usage ==
    /\ net # "idle" => pc = "call"
    /\ usage = reported
    /\ net = "sent" => reported = 0
    /\ net = "reading" /\ ~Running => reported = 0
    /\ net = "over" => told = reported
    /\ pc = "replied" => told = reported

LEMMA FreshUsage == ASSUME Fresh, pc' # "replied" PROVE Usage'
<1>1. net' = (IF pc' = "call" THEN "sent" ELSE "idle") /\ usage' = 0 /\ reported' = 0
  BY DEF Fresh
<1> QED
  BY <1>1 DEF Usage

LEMMA FaultUsage == ASSUME NEW how, Fault(how) PROVE Usage'
<1>1. pc' # "replied"
  BY DEF Fault, Fails, Stop, MoveOn
<1> QED
  BY <1>1, FreshUsage DEF Fault

\* An event is counted as the last valid count demands.
LEMMA HandleCounts ==
    ASSUME NEW style \in Styles \ {"anthropic"}, NEW e \in Event, MaySend(style, e),
           NEW n, style \in {"openai", "ollama"} => n = 0
    PROVE  Handle(style, e, n).count = IF e.count \in Count THEN e.count ELSE n
<1>1. None \notin Count
  BY StyleAssumption DEF Count
<1>2. CASE style = "openai"
  BY <1>1, <1>2 DEF Handle, OpenAIEvent, TokenCount, MaySend
<1>3. CASE style = "compatible"
  BY <1>3 DEF Handle, CompatibleEvent, TokenCount
<1>4. CASE style = "gemini"
  BY <1>4 DEF Handle, GeminiEvent, TokenCount
<1>5. CASE style = "ollama"
  BY <1>1, <1>5 DEF Handle, OllamaEvent, TokenCount, MaySend
<1> QED
  BY <1>2, <1>3, <1>4, <1>5 DEF Styles

LEMMA HearUsage == ASSUME Inv, Usage, NEW e \in Event, Hear(e) PROVE Usage'
<1> DEFINE h == Handle(Style[Current], e, usage)
<1>1. net = "reading" /\ Native /\ MaySend(Style[Current], e) /\ pc = "call"
  BY DEF Hear, Usage
<1>2. CASE ~h.fine
  BY <1>2, FaultUsage DEF Hear
<1>3. CASE h.fine
  <2>1. /\ usage' = h.count /\ reported' = Noted(e.count)
        /\ Yield(TRUE) \/ UNCHANGED vars
        /\ net' = IF e.kind = "last" THEN "ended" ELSE net
        /\ UNCHANGED told
    BY <1>3 DEF Hear
  <2>2. UNCHANGED <<pc, streaming, cand, at>>
    BY <2>1 DEF Yield, vars
  <2>3. Style[Current] \in Styles \ {"anthropic"}
    <3>1. Current \in Provider
      BY <1>1, Distinct DEF Inv, Unstarted, Current
    <3> QED
      BY <1>1, <3>1, StyleAssumption DEF Native
  <2>4. Style[Current] \in {"openai", "ollama"} => usage = 0
    BY <1>1 DEF Usage, Running
  <2>5. h.count = IF e.count \in Count THEN e.count ELSE usage
    BY <1>1, <2>3, <2>4, HandleCounts
  <2>6. usage' = reported'
    BY <2>1, <2>5 DEF Noted, Usage
  <2>7. Running' = Running
    BY <2>2 DEF Running, Current
  <2>8. e.kind # "last" /\ ~Running => reported' = 0
    <3>1. None \notin Count
      BY StyleAssumption DEF Count
    <3>2. ~Running => Style[Current] \in {"openai", "ollama"} /\ reported = 0
      BY <1>1, <2>3 DEF Running, Native, Styles, Usage
    <3> QED
      BY <1>1, <2>1, <3>1, <3>2 DEF MaySend, Noted
  <2> HIDE DEF h
  <2> QED
    BY <1>1, <2>1, <2>2, <2>6, <2>7, <2>8 DEF Usage
<1> QED
  BY <1>2, <1>3

LEMMA UsageInit == HttpInit => Usage
  BY DEF HttpInit, Init, Usage

LEMMA UsageStep == ASSUME Inv, Usage, [HttpNext]_allVars PROVE Usage'
<1>1. ASSUME NEW mode \in BOOLEAN, NEW name \in Provider \cup {None, Blank}, Enter(mode, name)
      PROVE  Usage'
  BY <1>1, FreshUsage DEF Enter, Start
<1>2. ASSUME NEW status \in {"ok", "transient", "refused"}, Respond(status)
      PROVE  Usage'
  BY <1>2, FaultUsage DEF Respond, Usage, vars, Running, Current
<1>3. ASSUME NEW b \in Body, Receive(b)
      PROVE  Usage'
  <2>1. /\ net = "reading" /\ reported = 0 /\ pc = "call"
    BY <1>3 DEF Receive, Usage, Native, Running
  <2>2. CASE ~Answers(Style[Current], b)
    BY <1>3, <2>2, FaultUsage DEF Receive
  <2>3. CASE Answers(Style[Current], b)
    <3>1. usage' = reported'
      BY <1>3, <2>1, <2>3 DEF Receive, TokenCount, Noted
    <3> QED
      BY <1>3, <2>1, <2>3, <3>1 DEF Receive, Usage, vars, Reply
  <2> QED
    BY <2>2, <2>3
<1>4. ASSUME Drop \/ Garble \/ Undecodable
      PROVE  Usage'
  BY <1>4, FaultUsage DEF Drop, Garble, Undecodable
<1>5. CASE Slice
  BY <1>5 DEF Slice, Yield, http, Usage, Running, Current
<1>6. CASE Finish
  BY <1>6 DEF Finish, Yield, Usage
<1>7. CASE Return
  BY <1>7 DEF Return, Reply, Usage
<1>8. CASE Again \/ Leave
  BY <1>8, FreshUsage DEF Again, Leave, Wake, Cancel
<1>9. CASE UNCHANGED allVars
  BY <1>9 DEF allVars, vars, http, Usage, Running, Current
<1> QED
  BY <1>1, <1>2, <1>3, <1>4, <1>5, <1>6, <1>7, <1>8, <1>9, HearUsage DEF HttpNext

\* The usage the caller is told is the last the answering call reported
\* (http_providers.py:195, 285, 599-615).
THEOREM LastUsage == HttpSpec => []UsageIsTheLastReported
<1>1. Usage => UsageIsTheLastReported
  BY DEF Usage, UsageIsTheLastReported
<1> QED
  BY <1>1, ImplementsRouter, RouterInvariant, UsageInit, UsageStep, PTL DEF HttpSpec
=============================================================================
