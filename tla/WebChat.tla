------------------------------- MODULE WebChat -------------------------------
(***************************************************************************)
(* MyAgent-Web/app.js: one tab's chat.  A question is sent to the engine,  *)
(* which streams an answer and stores both or neither; meanwhile the user  *)
(* stops it, opens or deletes conversations, starts a new one or signs     *)
(* out.  Tokens are in WebSession.                                         *)
(*                                                                         *)
(* abort() rejects the fetch or read a send awaits, and the send's catch   *)
(* and finally run before any other event: they belong to the step that    *)
(* aborts.                                                                 *)
(***************************************************************************)
EXTENDS Naturals, FiniteSets

CONSTANTS Conv,         \* conversation ids
          Old,          \* those that exist at first
          MaxSends,     \* bound: questions asked
          MaxViews,     \* bound: state.viewRevision
          MaxSignOuts,  \* bound
          None

ASSUME ChatAssumption ==
    /\ {MaxSends, MaxViews, MaxSignOuts} \subseteq Nat
    /\ Old \subseteq Conv /\ None \notin Conv \cup 1..MaxSends
    /\ \A used \in SUBSET (Conv \ Old) :    \* an id for every question
         IsFiniteSet(used) /\ Cardinality(used) < MaxSends => used # Conv \ Old

VARIABLES
    signedIn,    \* the application, not the sign-in form, is shown
    sending,     \* state.sending
    controller,  \* state.abortController: the send it belongs to
    view,        \* state.viewRevision
    conv,        \* state.conversationId
    page,        \* the conversation whose history is on the screen
    bubbles,     \* the sends whose question and answer are on the screen
    loads,       \* histories openConversation awaits
    removals,    \* DELETEs that were answered and not yet handled
    sends,       \* the calls of sendMessage, in order
    saved, gone, \* engine: conversations that exist, and that were deleted
    work,        \* engine: what becomes of each send
    loaded,      \* history: the screen is the one of the current view
    signOuts     \* history: how many there were

screen == <<page, bubbles, loaded>>
engine == <<saved, gone, work>>
vars   == <<signedIn, sending, controller, view, conv, screen, loads, removals, sends,
            engine, signOuts>>

Id     == 1..MaxSends
Posted == {"posted", "reposted"}    \* awaiting a response, the second time after a 401
Live   == Posted \cup {"renewing", "streaming"}
Send   == [at: {"none", "listing", "listed", "over"} \cup Live, view: 0..MaxViews,
           asked: Conv \cup {None},  \* conversation_id in the request
           stopped: BOOLEAN,         \* its signal is aborted
           told: BOOLEAN,            \* its "start" arrived in the view it was sent from
           clean: BOOLEAN,           \* history: loaded when it was sent
           era: 0..MaxSignOuts,      \* history: signOuts when it was sent
         late: BOOLEAN]            \* history: its `finally` ran after another sign-out
NoSend == [at |-> "none", view |-> 0, asked |-> None, stopped |-> FALSE,
           told |-> FALSE, clean |-> TRUE, era |-> 0, late |-> FALSE]
Work   == [at: {"none", "working", "stored", "undone"}, conv: Conv \cup {None}]

Init ==
    /\ signedIn = TRUE /\ sending = FALSE /\ controller = None
    /\ view = 0 /\ signOuts = 0 /\ loaded = TRUE
    /\ conv = None /\ page = None /\ bubbles = {}
    /\ loads = {} /\ removals = {} /\ gone = {}
    /\ saved = Old
    /\ sends = [n \in Id |-> NoSend]
    /\ work = [n \in Id |-> [at |-> "none", conv |-> None]]

-----------------------------------------------------------------------------
(* sendMessage *)

\* Fault: the composer is only released in the view it was used in.
MutRelease(n) == IF view = sends[n].view THEN sending' = FALSE /\ controller' = None
                 ELSE UNCHANGED <<sending, controller>>

\* The `finally`: whichever send is in progress now.
Release(n) == sending' = FALSE /\ controller' = None

\* A send is over, by its catch when it failed or was stopped.
Closed(n, how) == [sends[n] EXCEPT !.at = how, !.late = sends[n].era < signOuts]
Over(n)       == sends' = [sends EXCEPT ![n] = Closed(n, "over")]

\* state.abortController?.abort().  A send that awaits a fetch or a read is over; one
\* that awaits a refresh finds the signal later; loadConversations ignores it.
Abort ==
    IF controller = None THEN UNCHANGED <<sends, sending, controller>>
    ELSE LET n == controller IN
         IF sends[n].at \in Posted \cup {"streaming"} THEN Over(n) /\ Release(n)
         ELSE /\ sends' = [sends EXCEPT ![n].stopped = TRUE]
              /\ UNCHANGED <<sending, controller>>

\* Fault: a second question may be sent while the first is answered.
MutIdle == signedIn
Idle    == signedIn /\ ~sending

Submit(n) ==
    /\ Idle /\ n = Cardinality({m \in Id : sends[m].at # "none"}) + 1
    /\ sends' = [sends EXCEPT ![n] =
         [at |-> "posted", view |-> view, asked |-> conv, stopped |-> FALSE,
          told |-> FALSE, clean |-> loaded, era |-> signOuts, late |-> FALSE]]
    /\ sending' = TRUE /\ controller' = n
    /\ bubbles' = bubbles \cup {n}
    /\ UNCHANGED <<signedIn, view, conv, page, loaded, loads, removals, engine, signOuts>>

\* The same button while it is sending.
Stop == /\ signedIn /\ sending /\ Abort
        /\ UNCHANGED <<signedIn, view, conv, screen, loads, removals, engine, signOuts>>

\* authorizedFetch: the access token has expired, and is renewed once.
Expired(n) ==
    /\ sends[n].at = "posted" /\ work[n].at = "none"
    /\ sends' = [sends EXCEPT ![n].at = "renewing"]
    /\ UNCHANGED <<signedIn, sending, controller, view, conv, screen, loads, removals,
                   engine, signOuts>>

Renewed(n) ==
    /\ sends[n].at = "renewing"
    /\ IF sends[n].stopped THEN Over(n) /\ Release(n)
       ELSE /\ sends' = [sends EXCEPT ![n].at = "reposted"]
            /\ UNCHANGED <<sending, controller>>
    /\ UNCHANGED <<signedIn, view, conv, screen, loads, removals, engine, signOuts>>

\* Fault: the id is taken whatever the tab shows by now.
MutStarted(n) == TRUE

\* The "start" event counts in the view the question was asked in.
Started(n) == view = sends[n].view

Start(n) ==
    /\ sends[n].at \in Posted /\ work[n].at \in {"working", "stored"}
    /\ sends' = [sends EXCEPT ![n].at = "streaming", ![n].told = Started(n)]
    /\ conv' = IF Started(n) THEN work[n].conv ELSE conv
    /\ UNCHANGED <<signedIn, sending, controller, view, screen, loads, removals,
                   engine, signOuts>>

\* The stream has ended; loadConversations follows.
Done(n) ==
    /\ sends[n].at = "streaming" /\ work[n].at = "stored"
    /\ sends' = [sends EXCEPT ![n].at = "listing"]
    /\ UNCHANGED <<signedIn, sending, controller, view, conv, screen, loads, removals,
                   engine, signOuts>>

\* The conversations are listed.
Listed(n) ==
    /\ sends[n].at = "listing"
    /\ sends' = [sends EXCEPT ![n] = Closed(n, "listed")] /\ Release(n)
    /\ UNCHANGED <<signedIn, view, conv, screen, loads, removals, engine, signOuts>>

\* A request fails at any stage: the text of the answer becomes the error's.
Fail(n) ==
    /\ sends[n].at \in Posted \cup {"streaming", "listing"}
    /\ Over(n) /\ Release(n)
    /\ UNCHANGED <<signedIn, view, conv, screen, loads, removals, engine, signOuts>>

-----------------------------------------------------------------------------
(* The rest of the tab *)

\* The view changes to one that shows nothing yet, or to the one of c.
NewView == view < MaxViews /\ view' = view + 1
Empty   == conv' = None /\ page' = None /\ bubbles' = {} /\ loaded' = TRUE

NewChat ==
    /\ signedIn /\ Abort /\ NewView /\ Empty
    /\ UNCHANGED <<signedIn, loads, removals, engine, signOuts>>

OpenConversation(c) ==
    /\ signedIn /\ c \in saved \cup gone
    /\ Abort /\ NewView
    /\ conv' = c /\ loaded' = FALSE
    /\ loads' = loads \cup {[conv |-> c, view |-> view + 1]}
    /\ UNCHANGED <<signedIn, page, bubbles, removals, engine, signOuts>>

\* Fault: a late history is shown whatever was opened since.
MutCurrent(l) == TRUE

Current(l) == view = l.view /\ conv = l.conv

\* The messages arrive, or the request fails.
Load(l) ==
    /\ l \in loads /\ loads' = loads \ {l}
    /\ \/ /\ Current(l) /\ l.conv \in saved
          /\ page' = l.conv /\ bubbles' = {} /\ loaded' = TRUE
       \/ UNCHANGED screen
    /\ UNCHANGED <<signedIn, sending, controller, view, conv, removals, sends, engine,
                   signOuts>>

\* The engine deletes once no transaction is adding messages.
Delete(c) ==
    /\ signedIn /\ c \in saved
    /\ \A n \in Id : ~(work[n].at = "working" /\ work[n].conv = c)
    /\ saved' = saved \ {c} /\ gone' = gone \cup {c}
    /\ removals' = removals \cup {c}
    /\ UNCHANGED <<signedIn, sending, controller, view, conv, screen, loads, sends, work,
                   signOuts>>

\* The handler of the delete button goes on.
Deleted(c) ==
    /\ c \in removals /\ removals' = removals \ {c}
    /\ IF conv = c THEN Abort /\ NewView /\ Empty
       ELSE UNCHANGED <<sending, controller, sends, view, conv, screen>>
    /\ UNCHANGED <<signedIn, loads, engine, signOuts>>

\* clearSession and showAuth, which stop the send in progress.
Clear ==
    /\ signOuts < MaxSignOuts /\ signOuts' = signOuts + 1
    /\ signedIn' = FALSE /\ sending' = FALSE /\ controller' = None
    /\ NewView /\ Empty
    /\ UNCHANGED <<loads, removals, engine>>

Cleared(n) ==
    IF n # controller THEN sends[n]
    ELSE IF sends[n].at \in Posted \cup {"streaming"} THEN [sends[n] EXCEPT !.at = "over"]
    ELSE [sends[n] EXCEPT !.stopped = TRUE]

\* By logout, or by any request that could not renew.
SignOut == /\ signedIn /\ Clear
           /\ sends' = [n \in Id |-> Cleared(n)]

\* The refresh a send awaits is refused: it signs the tab out and is over.
Refused(n) ==
    /\ sends[n].at = "renewing" /\ Clear
    /\ sends' = [m \in Id |-> IF m = n THEN Closed(n, "over") ELSE Cleared(m)]

SignIn ==
    /\ ~signedIn /\ signedIn' = TRUE
    /\ UNCHANGED <<sending, controller, view, conv, screen, loads, removals, sends, engine,
                   signOuts>>

-----------------------------------------------------------------------------
(* The engine: see Conversations *)

FreshId == CHOOSE c \in Conv : c \notin saved \cup gone \cup {work[n].conv : n \in Id}

Receive(n) ==
    /\ sends[n].at \in Posted /\ work[n].at = "none"
    /\ LET c == sends[n].asked IN
       work' = [work EXCEPT ![n] =
         IF c = None THEN [at |-> "working", conv |-> FreshId]
         ELSE [at |-> IF c \in saved THEN "working" ELSE "undone", conv |-> c]]
    /\ UNCHANGED <<signedIn, sending, controller, view, conv, screen, loads, removals, sends,
                   saved, gone, signOuts>>

Settle(n) ==
    /\ work[n].at = "working"
    /\ \/ work' = [work EXCEPT ![n].at = "stored"] /\ saved' = saved \cup {work[n].conv}
       \/ work' = [work EXCEPT ![n].at = "undone"] /\ UNCHANGED saved
    /\ UNCHANGED <<signedIn, sending, controller, view, conv, screen, loads, removals, sends,
                   gone, signOuts>>

-----------------------------------------------------------------------------
Next ==
    \/ \E n \in Id : \/ Submit(n) \/ Expired(n) \/ Renewed(n) \/ Refused(n) \/ Start(n)
                     \/ Done(n) \/ Listed(n) \/ Fail(n) \/ Receive(n) \/ Settle(n)
    \/ Stop \/ NewChat \/ SignOut \/ SignIn
    \/ \E c \in Conv : OpenConversation(c) \/ Delete(c) \/ Deleted(c)
    \/ \E l \in loads : Load(l)

Spec == Init /\ [][Next]_vars

\* A fetch or a read ends with a response or an error, and a refresh is answered.
Fairness == \A n \in Id : WF_vars(Listed(n) \/ Fail(n)) /\ WF_vars(Renewed(n))
FairSpec == Spec /\ Fairness

-----------------------------------------------------------------------------
(* Properties *)

\* A send of an earlier sign-in has ended late: its `finally` frees the composer of
\* whatever is sent now.
Interfered == \E n \in Id : sends[n].late

\* Whatever is opened, deleted or answered late, the screen shows one conversation,
\* the one the next question goes to, unless its history was never shown or a send of an
\* earlier sign-in has ended late.
ScreenIsOneConversation ==
    loaded => /\ page \in {None, conv}
              /\ \/ Interfered
                 \/ \A n \in bubbles : sends[n].told => work[n].conv = conv

\* One answer is streamed at a time, so that the stop button stops it.
OneLiveStream ==
    \A m, n \in Id : m # n /\ {sends[m].at, sends[n].at} \subseteq Live
                     /\ ~sends[m].stopped /\ ~sends[n].stopped
        => Interfered

\* An answer that has streamed to its end is on the screen, as long as the view it
\* was asked in is shown, unless it was asked while the history of a conversation was
\* still to be shown or the listing after it failed (app.js:342 puts the error there).
AnswersAreShown ==
    \A n \in Id : sends[n].at \in {"listing", "listed"}
                 /\ sends[n].view = view /\ sends[n].clean => n \in bubbles

\* The composer does not stay busy: every question ends, answered, failed or stopped.
ComposerReturns == sending ~> ~sending
==============================================================================
