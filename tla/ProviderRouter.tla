--------------------------- MODULE ProviderRouter ---------------------------
(***************************************************************************)
(* core/providers/router.py: one request of the agent, routed to a         *)
(* provider, retried and passed on to fallback providers.  A provider call *)
(* replies, streams chunks, or fails in any way its code can fail.         *)
(***************************************************************************)
EXTENDS Naturals, Sequences, FiniteSets, SequencesExt

CONSTANTS Provider,     \* provider names
          Usable,       \* registered and configured ones
          Default,      \* default_provider
          Fallbacks,    \* fallback_names, in order
          RetryCount,   \* retry_count
          MaxChunks,    \* bound: chunks one provider call streams
          None,         \* no provider was named
          Blank         \* the empty name a conversation or a project may hold

ASSUME RouterAssumption == /\ Usable \subseteq Provider /\ Default \in Provider
                           /\ Fallbacks \in Seq(Provider)
                           /\ RetryCount \in Nat /\ MaxChunks \in Nat
                           /\ {None, Blank} \cap Provider = {}
                           /\ None # Blank

VARIABLES pc,         \* where the coroutine is
          streaming,  \* stream() rather than chat()
          requested,  \* provider_name
          cand,       \* candidates(provider_name)
          at,         \* the candidate being tried
          attempt,    \* attempt on that candidate
          emitted,    \* some text of that candidate reached the caller
          chunks,     \* history: provider of each chunk yielded, with its text
          log         \* history: each call made and how it ended

vars == <<pc, streaming, requested, cand, at, attempt, emitted, chunks, log>>

\* How a provider call fails: a ProviderRequestError that is retryable or not,
\* another ProviderError, or an exception the router does not catch.
Failure == {"retryable", "permanent", "error", "other"}
Result  == {"replied", "failed", "interrupted", "crashed", "cancelled"}
Call    == [by: Provider, end: Failure \cup {"open", "reply"}]

Init ==
    /\ pc = "idle" /\ streaming = FALSE /\ requested = None
    /\ cand = <<>> /\ at = 1 /\ attempt = 0 /\ emitted = FALSE
    /\ chunks = <<>> /\ log = <<>>

-----------------------------------------------------------------------------
\* Fault: the fallbacks come before the default provider.
MutCandidates(name) ==
    LET names   == IF name \in Provider THEN <<name>> ELSE Fallbacks \o <<Default>>
        add(acc, p) == IF p \in Usable /\ ~Contains(acc, p)
                         THEN Append(acc, p) ELSE acc
    IN  FoldLeft(add, <<>>, names)

\* candidates: the named provider alone, or (no name, or an empty one) the
\* default and the fallbacks, each once and in order, unusable ones left out.
Candidates(name) ==
    LET names   == IF name \in Provider THEN <<name>> ELSE <<Default>> \o Fallbacks
        add(acc, p) == IF p \in Usable /\ ~Contains(acc, p)
                         THEN Append(acc, p) ELSE acc
    IN  FoldLeft(add, <<>>, names)

Current == cand[at]
Opened  == log' = Append(log, [by |-> Current, end |-> "open"])
Ended(how) == log' = [log EXCEPT ![Len(log)].end = how]

\* chat or stream is entered; without a candidate it raises ProviderError.
Start(mode, name) ==
    /\ pc = "idle"
    /\ streaming' = mode /\ requested' = name
    /\ cand' = Candidates(name)
    /\ IF cand' = <<>>
         THEN pc' = "failed" /\ UNCHANGED log
         ELSE pc' = "call" /\ log' = <<[by |-> cand'[1], end |-> "open"]>>
    /\ UNCHANGED <<at, attempt, emitted, chunks>>

\* The provider returns its reply, or its stream ends.
Reply ==
    /\ pc = "call" /\ pc' = "replied"
    /\ Ended("reply")
    /\ UNCHANGED <<streaming, requested, cand, at, attempt, emitted, chunks>>

\* Fault: usage chunks count as output, text does not.
MutYield(text) ==
    /\ pc = "call" /\ streaming /\ Len(chunks) < MaxChunks
    /\ emitted' = (emitted \/ ~text)
    /\ chunks' = Append(chunks, [by |-> Current, text |-> text])
    /\ UNCHANGED <<pc, streaming, requested, cand, at, attempt, log>>

\* The stream yields a chunk to the caller, with text or only usage.
Yield(text) ==
    /\ pc = "call" /\ streaming /\ Len(chunks) < MaxChunks
    /\ emitted' = (emitted \/ text)
    /\ chunks' = Append(chunks, [by |-> Current, text |-> text])
    /\ UNCHANGED <<pc, streaming, requested, cand, at, attempt, log>>

\* Fault: the last fallback is taken for the end of the list.
MutLastCandidate == requested # None \/ at + 1 >= Len(cand)

\* `if provider_name is not None: break`, or the end of the list.
LastCandidate == requested # None \/ at = Len(cand)

\* The next candidate is tried, if there is one.
MoveOn(how) ==
    IF LastCandidate
      THEN /\ pc' = "failed" /\ Ended(how)
           /\ UNCHANGED <<at, attempt, emitted>>
      ELSE /\ pc' = "call" /\ at' = at + 1 /\ attempt' = 0 /\ emitted' = FALSE
           /\ log' = Append([log EXCEPT ![Len(log)].end = how],
                            [by |-> cand[at + 1], end |-> "open"])

Stop(to, how) == pc' = to /\ Ended(how) /\ UNCHANGED <<at, attempt, emitted>>

Retries(how) == how = "retryable" /\ attempt < RetryCount

\* The provider call raises.
Fails(how) ==
    /\ pc = "call"
    /\ IF how = "other" THEN Stop("crashed", how)
       ELSE IF emitted THEN Stop("interrupted", how)
       ELSE IF Retries(how) THEN Stop("sleep", how)
       ELSE MoveOn(how)
    /\ UNCHANGED <<streaming, requested, cand, chunks>>

\* Fault: attempts are not counted (the history keeps one entry for all of them).
MutWake ==
    /\ pc = "sleep" /\ pc' = "call"
    /\ Ended("open")
    /\ UNCHANGED <<streaming, requested, cand, at, attempt, emitted, chunks>>

\* The backoff is over: the next attempt on the same provider.
Wake ==
    /\ pc = "sleep" /\ pc' = "call"
    /\ attempt' = attempt + 1
    /\ Opened
    /\ UNCHANGED <<streaming, requested, cand, at, emitted, chunks>>

\* The caller goes away at an await or a yield.
Cancel ==
    /\ pc \in {"call", "sleep"} /\ pc' = "cancelled"
    /\ UNCHANGED <<streaming, requested, cand, at, attempt, emitted, chunks, log>>

Next ==
    \/ \E mode \in BOOLEAN, name \in Provider \cup {None, Blank} : Start(mode, name)
    \/ Reply \/ Wake \/ Cancel
    \/ \E text \in BOOLEAN : Yield(text)
    \/ \E how \in Failure : Fails(how)

Spec == Init /\ [][Next]_vars

-----------------------------------------------------------------------------
(* Properties *)

\* The text the caller received comes from one call of one provider: a stream
\* is never resumed elsewhere nor started again after partial output
\* (tests/test_provider.py:120-132).
NeverMixes ==
    \A i \in DOMAIN chunks : chunks[i].text =>
        /\ pc \notin {"sleep", "failed"}
        /\ chunks[i].by = Last(log).by
        /\ emitted

\* A call follows another only as a retry after a transient failure, or as a
\* fallback once the previous candidate gave up.
CallsFollow(i) ==
    LET p == log[i].by  q == log[i + 1].by IN
    IF p = q THEN log[i].end = "retryable"
             ELSE /\ \A k \in (i + 1)..Len(log) : log[k].by # p
                  /\ log[i].end \in {"retryable", "permanent", "error"}

\* The configuration names p before it names q.
Before(p, q) ==
    LET names == <<Default>> \o Fallbacks
    IN  \E i \in DOMAIN names : names[i] = p /\ \A j \in 1..i : names[j] # q

\* The calls of a request: retries first, at most RetryCount of a provider; a
\* provider the user named alone; and without a name the other providers called
\* before any call are exactly the usable ones that the configuration names before
\* its provider (tests/test_provider.py:80-88, router.py:36-56).
CallsAreInOrder ==
    /\ \A i \in 1..(Len(log) - 1) : CallsFollow(i)
    /\ \A p \in Provider :
         Cardinality({i \in DOMAIN log : log[i].by = p}) <= RetryCount + 1
    /\ requested \in Provider => \A i \in DOMAIN log : log[i].by = requested
    /\ requested \notin Provider =>
         \A i \in DOMAIN log : \A p \in Usable \ {log[i].by} :
             Before(p, log[i].by) <=> \E j \in 1..(i - 1) : log[j].by = p

AllTried == \A p \in Usable \cap ({Default} \cup Range(Fallbacks)) :
                \E i \in DOMAIN log : log[i].by = p

\* A request without a provider name fails only when every usable candidate
\* was called and its last call failed: no fallback is skipped.
FailsOnlyWhenAllFailed == pc = "failed" /\ requested = None => AllTried
=============================================================================
