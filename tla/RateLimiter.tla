----------------------------- MODULE RateLimiter -----------------------------
(***************************************************************************)
(* core/security/rate_limiter.py and RateLimitMiddleware: two sliding      *)
(* window limiters, one for the login and registration paths and one for   *)
(* everything else, each remembering at most MaxKeys clients.  check runs  *)
(* without an await: a request is one step.                                *)
(***************************************************************************)
EXTENDS Naturals, Sequences, SequencesExt, FiniteSets

CONSTANTS Client,       \* network addresses
          User,         \* subjects of access tokens
          MaxRequests,  \* max_requests of each limiter
          Window,       \* window_seconds
          MaxKeys,      \* max_keys
          CleanEvery,   \* the 1_000 of check
          MaxTime,      \* bound on the clock
          MaxChecks,    \* bound on the checks of both limiters
          None

Limiter == {"auth", "general"}
Key     == Client \cup User

ASSUME LimitAssumption ==
    /\ MaxRequests \in [Limiter -> Nat \ {0}]
    /\ {Window, MaxKeys, CleanEvery} \subseteq Nat \ {0}
    /\ MaxTime \in Nat /\ MaxChecks \in Nat
    /\ Client \cap User = {} /\ None \notin Key \cup 0..MaxTime

VARIABLES now,      \* time.monotonic()
          checks,   \* _checks
          bucket,   \* _requests: <<>> for a key it does not hold
          granted,  \* history: when each key's requests were let through
          dropped,  \* history: when a key still in use was last forgotten
          verdict   \* history: the last check

vars == <<now, checks, bucket, granted, dropped, verdict>>

Init ==
    /\ now = 0
    /\ checks = [l \in Limiter |-> 0]
    /\ bucket = [l \in Limiter |-> [k \in Key |-> <<>>]]
    /\ granted = bucket
    /\ dropped = [l \in Limiter |-> [k \in Key |-> None]]
    /\ verdict = [limiter |-> None, key |-> None, ok |-> TRUE]

-----------------------------------------------------------------------------
Held(b) == {k \in Key : b[k] # <<>>}

\* Fault: a bucket is judged by its oldest request.
MutStale(b, k) == now - Head(b[k]) > Window

\* The key's last request let through has left the window.
Stale(b, k) == now - Last(b[k]) > Window

\* _remove_stale
RemoveStale(b) == [k \in Key |-> IF b[k] # <<>> /\ Stale(b, k) THEN <<>> ELSE b[k]]

\* Keys whose last request let through is the oldest; dict order breaks ties.
Oldest(b) == {k \in Held(b) : \A j \in Held(b) : Last(b[k]) <= Last(b[j])}

Full(b) == Cardinality(Held(b)) >= MaxKeys

\* Fault: one key more than max_keys is held.
MutRoom(b, key) ==
    LET fresh == RemoveStale(b) IN
    IF b[key] # <<>> \/ Cardinality(Held(b)) <= MaxKeys THEN {b}
    ELSE {[fresh EXCEPT ![k] = <<>>] : k \in Oldest(fresh)}

\* Room for the key: all stale keys go first, then one that is not.
Room(b, key) ==
    LET fresh == RemoveStale(b) IN
    IF b[key] # <<>> \/ ~Full(b) THEN {b}
    ELSE IF ~Full(fresh) THEN {fresh}
    ELSE {[fresh EXCEPT ![k] = <<>>] : k \in Oldest(fresh)}

\* Fault: a request leaves the window one unit of time early.
MutRecent(times) ==
    LET n == Min({i \in DOMAIN times : now - times[i] < Window} \cup {Len(times) + 1})
    IN  SubSeq(times, n, Len(times))

\* The popleft loop stops at the first request that is still in the window.
Recent(times) ==
    LET n == Min({i \in DOMAIN times : now - times[i] <= Window} \cup {Len(times) + 1})
    IN  SubSeq(times, n, Len(times))

\* Fault: a request that is rejected is counted too.
MutCharge(l, b, key) ==
    LET kept == Recent(b[key])
        ok   == Len(kept) < MaxRequests[l]
    IN  /\ bucket' = [bucket EXCEPT ![l] = [b EXCEPT ![key] = Append(kept, now)]]
        /\ granted' = IF ok THEN [granted EXCEPT ![l][key] = Append(@, now)] ELSE granted
        /\ verdict' = [limiter |-> l, key |-> key, ok |-> ok]

\* The rest of check: the request is let through and recorded, or RateLimitError.
Charge(l, b, key) ==
    LET kept == Recent(b[key])
        ok   == Len(kept) < MaxRequests[l]
    IN  /\ bucket' = [bucket EXCEPT ![l] =
                        [b EXCEPT ![key] = IF ok THEN Append(kept, now) ELSE kept]]
        /\ granted' = IF ok THEN [granted EXCEPT ![l][key] = Append(@, now)] ELSE granted
        /\ verdict' = [limiter |-> l, key |-> key, ok |-> ok]

Check(l, key) ==
    LET swept == IF (checks[l] + 1) % CleanEvery = 0 THEN RemoveStale(bucket[l])
                 ELSE bucket[l]
    IN  /\ checks["auth"] + checks["general"] < MaxChecks
        /\ checks' = [checks EXCEPT ![l] = @ + 1]
        /\ \E b \in Room(swept, key) :
             /\ Charge(l, b, key)
             /\ dropped' = [dropped EXCEPT ![l] = [k \in Key |->
                    IF bucket[l][k] # <<>> /\ ~Stale(bucket[l], k) /\ b[k] = <<>>
                      THEN now ELSE @[k]]]
        /\ UNCHANGED now

\* dispatch; health checks skip it.  The login paths are charged to the address;
\* any other path to the user of its access token, or without one to the address.
Dispatch(path, client, user) ==
    \/ path = "auth" /\ Check("auth", client)
    \/ path = "other" /\ Check("general", IF user = None THEN client ELSE user)

Tick == /\ now < MaxTime /\ now' = now + 1
        /\ UNCHANGED <<checks, bucket, granted, dropped, verdict>>

Next == \/ \E path \in {"auth", "other"}, c \in Client, u \in User \cup {None} :
             Dispatch(path, c, u)
        \/ Tick

Spec == Init /\ [][Next]_vars

-----------------------------------------------------------------------------
\* No client passes more than max_requests requests in a window, however the
\* buckets are trimmed, swept and evicted, unless it was forgotten on the way
\* while max_keys other clients were active.
Quota ==
    \A l \in Limiter, k \in Key :
        LET g == granted[l][k]  n == Len(g) IN
        n > MaxRequests[l] =>
            \/ g[n] - g[n - MaxRequests[l]] > Window
            \/ dropped[l][k] # None /\ dropped[l][k] >= g[n - MaxRequests[l]]

\* A rejection is deserved: the client passed max_requests requests, no fewer, in
\* the window that ends now; what it was refused before does not count.
RejectionsAreDeserved ==
    [][verdict'.key # None /\ ~verdict'.ok /\ checks' # checks =>
         LET l == verdict'.limiter  k == verdict'.key
             g == granted[l][k]
         IN  Cardinality({i \in DOMAIN g : now - g[i] <= Window}) >= MaxRequests[l]]_vars

\* The limiters' memory is bounded: neither ever holds more than max_keys clients.
MemoryIsBounded == \A l \in Limiter : Cardinality(Held(bucket[l])) <= MaxKeys

\* A client with requests in the window is forgotten only for a newcomer, when all
\* max_keys clients have such requests, and only if no other has been idle longer.
OnlyTheIdlestIsForgotten ==
    [][\A l \in Limiter, k \in Key :
         bucket[l][k] # <<>> /\ bucket'[l][k] = <<>> =>
            \/ now - Last(bucket[l][k]) > Window
            \/ /\ bucket[l][verdict'.key] = <<>>
               /\ Cardinality({j \in Held(bucket[l]) :
                                 now - Last(bucket[l][j]) <= Window}) = MaxKeys
               /\ \A j \in Held(bucket[l]) : Last(bucket[l][j]) >= Last(bucket[l][k])]_vars
==============================================================================
