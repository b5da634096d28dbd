---------------------------- MODULE HttpProviders ----------------------------
(***************************************************************************)
(* core/providers/http_providers.py under the router: the HTTP exchange    *)
(* behind each provider call, how its outcome becomes a reply or one of    *)
(* the router's failures, and the token usage the caller is told.  One     *)
(* count stands for input and output tokens, which are treated alike.      *)
(***************************************************************************)
EXTENDS ProviderRouter

CONSTANTS Style,      \* the class of each provider
          MaxTokens   \* bound: the counts a provider reports

Styles == {"openai", "compatible", "gemini", "anthropic", "ollama"}
ASSUME StyleAssumption == /\ Style \in [Provider -> Styles]
                          /\ MaxTokens \in Nat /\ None \notin 0..MaxTokens

VARIABLES net,       \* where the exchange of the current call is
          usage,     \* the count its code holds
          reported,  \* history: the last valid count the server sent in this call
          told       \* the count the caller was given with the reply

http    == <<net, usage, reported, told>>
allVars == <<vars, http>>

Count == 0..MaxTokens
\* What a server sends for a count: None for one that is absent, null or no number.
Sent  == Count \cup {None}

\* A line of a stream that holds a JSON object.
Event == [kind: {"delta", "last", "error"}, text: BOOLEAN, count: Sent]
\* A whole response body that is a JSON object, by where the answer should be.
Body  == [answer: {"present", "misshapen", "missing"}, count: Sent]

HttpInit == Init /\ net = "idle" /\ usage = 0 /\ reported = 0 /\ told = None

-----------------------------------------------------------------------------
(* The providers *)

\* Fault: a count that is missing resets the one before it.
MutTokenCount(v, fallback) == IF v \in Count THEN v ELSE 0

TokenCount(v, fallback) == IF v \in Count THEN v ELSE fallback

\* How stream() treats an event: the text it yields, the count it holds, and
\* whether it goes on.
OpenAIEvent(e, n) ==
    [text |-> e.kind = "delta" /\ e.text, fine |-> e.kind # "error",
     count |-> IF e.kind = "last" THEN TokenCount(e.count, 0) ELSE n]
CompatibleEvent(e, n) ==
    [text |-> e.text, fine |-> TRUE, count |-> TokenCount(e.count, n)]
GeminiEvent(e, n) ==
    [text |-> e.text, fine |-> TRUE, count |-> TokenCount(e.count, n)]
OllamaEvent(e, n) ==
    [text |-> e.text, fine |-> TRUE,
     count |-> IF e.kind = "last" THEN TokenCount(e.count, 0) ELSE n]

Handle(style, e, n) ==
    CASE style = "openai"     -> OpenAIEvent(e, n)
      [] style = "compatible" -> CompatibleEvent(e, n)
      [] style = "gemini"     -> GeminiEvent(e, n)
      [] style = "ollama"     -> OllamaEvent(e, n)

\* Bodies in which chat() finds an answer, possibly an empty one; it raises a
\* ProviderError on the others.
OpenAIAnswers(b)     == b.answer = "present"
CompatibleAnswers(b) == b.answer # "missing"
GeminiAnswers(b)     == b.answer = "present"
AnthropicAnswers(b)  == b.answer # "missing"
OllamaAnswers(b)     == TRUE

Answers(style, b) ==
    CASE style = "openai"     -> OpenAIAnswers(b)
      [] style = "compatible" -> CompatibleAnswers(b)
      [] style = "gemini"     -> GeminiAnswers(b)
      [] style = "anthropic"  -> AnthropicAnswers(b)
      [] style = "ollama"     -> OllamaAnswers(b)

\* What a server may send: text comes in deltas; OpenAI and Ollama count once, in
\* the last event (response.completed, done), the others in any event.
MaySend(style, e) ==
    /\ e.kind # "delta" => ~e.text
    /\ style \in {"openai", "ollama"} /\ e.kind # "last" => e.count = None
    /\ e.kind = "error" => e.count = None

\* AnthropicProvider has no stream of its own: it slices a whole reply.
Native == streaming /\ Style[Current] # "anthropic"

-----------------------------------------------------------------------------
(* The exchange *)

\* The exchange of the call that was just entered, if one was.
Fresh == /\ net' = IF pc' = "call" THEN "sent" ELSE "idle"
         /\ usage' = 0 /\ reported' = 0 /\ UNCHANGED told

Enter(mode, name) == Start(mode, name) /\ Fresh
Again == Wake /\ Fresh
Leave == Cancel /\ Fresh
Fault(how) == Fails(how) /\ Fresh

\* The response starts: raise_for_status and _status_error.
Respond(status) ==
    /\ net = "sent"
    /\ \/ status = "transient" /\ Fault("retryable")   \* 408, 409, 425, 429, 5xx
       \/ status = "refused" /\ Fault("permanent")     \* any other error or redirect
       \/ status = "ok" /\ net' = "reading" /\ UNCHANGED <<vars, usage, reported, told>>

\* A timeout or a NetworkError, before the response or while it is read.
Drop == net \in {"sent", "reading", "ended"} /\ Fault("retryable")

\* Another HTTPError (the peer broke the protocol), or data that is not a JSON object.
Garble == net \in {"sent", "reading", "ended"} /\ Fault("permanent")

\* For the history: a valid count replaces the one before.
Noted(v) == IF v \in Count THEN v ELSE reported

\* _post_json: a body that is not text escapes as UnicodeDecodeError.
Undecodable == net = "reading" /\ ~Native /\ Fault("other")

\* chat: the reply.  For the slicing stream it is only the beginning.
Receive(b) ==
    /\ net = "reading" /\ ~Native
    /\ IF ~Answers(Style[Current], b) THEN Fault("error")
       ELSE /\ usage' = TokenCount(b.count, 0)
            /\ reported' = Noted(b.count)
            /\ IF streaming THEN net' = "slicing" /\ UNCHANGED <<vars, told>>
               ELSE net' = "idle" /\ told' = usage' /\ Reply

\* HttpProvider.stream: the next 48 characters.
Slice == net = "slicing" /\ Len(chunks) < MaxChunks - 1 /\ Yield(TRUE) /\ UNCHANGED http

\* An event of a native stream.
Hear(e) ==
    LET h == Handle(Style[Current], e, usage) IN
    /\ net = "reading" /\ Native /\ MaySend(Style[Current], e)
    /\ IF ~h.fine THEN Fault("permanent")
       ELSE /\ usage' = h.count
            /\ reported' = Noted(e.count)
            /\ IF h.text THEN Len(chunks) < MaxChunks - 1 /\ Yield(TRUE)
                         ELSE UNCHANGED vars
            /\ net' = IF e.kind = "last" THEN "ended" ELSE net
            /\ UNCHANGED told

\* The body ends, or the reply is all sliced: the chunk with the usage follows,
\* whether or not the server said that the answer was complete.
Finish ==
    /\ net \in {"slicing", "ended"} \/ (net = "reading" /\ Native)
    /\ Yield(FALSE)
    /\ net' = "over" /\ told' = usage
    /\ UNCHANGED <<usage, reported>>

Return == net = "over" /\ Reply /\ net' = "idle" /\ UNCHANGED <<usage, reported, told>>

HttpNext ==
    \/ \E mode \in BOOLEAN, name \in Provider \cup {None, Blank} : Enter(mode, name)
    \/ \E status \in {"ok", "transient", "refused"} : Respond(status)
    \/ \E b \in Body : Receive(b)
    \/ \E e \in Event : Hear(e)
    \/ Drop \/ Garble \/ Undecodable \/ Slice \/ Finish \/ Return
    \/ Again \/ Leave

HttpSpec == HttpInit /\ [][HttpNext]_allVars

\* A whole reply is sliced for the caller, and the usage chunk followed by the return.
HandsOver == net \in {"slicing", "over"} /\ (Slice \/ Finish \/ Return)

\* Sleepers wake, and the caller takes what is yielded; nothing is assumed of the
\* servers.
HttpFairSpec == HttpSpec /\ WF_allVars(Again) /\ WF_allVars(HandsOver)

-----------------------------------------------------------------------------
(* Properties *)

\* The usage the caller is told, and is charged for, is the last the answering
\* call reported: never that of a call that failed, and not undone by a later
\* event without a count (http_providers.py:195, 285, chat_service.py:124).
UsageIsTheLastReported == pc = "replied" => told = reported

\* The request waits for more of a response: the timeout is one of each read, so a
\* server that sends a little now and then can keep it here (http_providers.py:494).
Waits == pc = "call" /\ net \in {"sent", "reading", "ended"}

\* A request ends, however its calls fail and are retried and passed on, unless it
\* reads one response for ever: retries and fallbacks never go round in circles.
RequestEnds == (pc = "call" ~> pc \in Result) \/ <>[]Waits
==============================================================================
