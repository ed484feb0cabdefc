------------------------------ MODULE ApiClient ------------------------------
(***************************************************************************)
(* The JavaScript client of the `--api` service: `Session` of              *)
(* npm/bamti/internal/session.js over `Transport` of                       *)
(* npm/bamti/internal/transport.js, with the child processes it spawns,    *)
(* loses and replaces.                                                     *)
(*                                                                         *)
(* JavaScript runs to completion: a step is a synchronous call, an event   *)
(* handler or a promise continuation.  An event of a process is handled    *)
(* only when no continuation waits, but one chunk of output may carry      *)
(* several frames, which are handled before any continuation.              *)
(***************************************************************************)
EXTENDS Integers, FiniteSets

CONSTANTS
    Calls,        \* the calls of `session.request`
    Initialize,   \* the owner of an `initialize` request
    MaxInFlight,  \* `maxInFlight`
    MaxRestarts,  \* `maxRestarts`
    MaxRequests   \* bound on the requests the transport numbers

ASSUME ClientAssumption ==
    /\ Initialize \notin Calls
    /\ MaxInFlight \in Nat \ {0} /\ MaxRestarts \in Nat /\ MaxRequests \in Nat

RequestIds == 1..MaxRequests

VARIABLES
    generation,   \* `#generation`
    attached,     \* `#child` is not null
    restarts,     \* `#restarts`
    disposed,     \* `#disposed`, of the session and its transport
    disposal,     \* the progress of the promise `#disposing`
    nextId,       \* `#nextId`
    pending,      \* the keys of `#pending`
    owner,        \* who made each request
    sentTo,       \* history: the generation each request was written to
    initialized,  \* `#initializedGeneration`
    initializing, \* `#initializing`: the id of the request, 0 for null
    awaits,       \* the initialize request each call waits for
    settledInit,  \* initialize promises settled, their continuations not yet run
    callState,    \* the promise each call returned
    aborted,      \* the calls whose signal is aborted
    alive,        \* generations whose process runs
    killed,       \* generations that were sent a kill
    unanswered,   \* requests a process has read and not answered
    replies,      \* answers in the pipes
    exits,        \* generations whose `exit` event is still to be handled
    ready         \* history: generations whose process answered `initialize`

transportVars == <<generation, attached, restarts, disposed, disposal, nextId, pending,
                   owner, sentTo>>
sessionVars == <<initialized, initializing, awaits, settledInit, callState, aborted>>
processVars == <<alive, killed, unanswered, replies, exits, ready>>
vars == <<transportVars, sessionVars, processVars>>

Init ==
    /\ generation = 0 /\ attached = FALSE /\ restarts = 0
    /\ disposed = FALSE /\ disposal = "none"
    /\ nextId = 1 /\ pending = {}
    /\ owner = [i \in RequestIds |-> Initialize] /\ sentTo = [i \in RequestIds |-> 0]
    /\ initialized = 0 /\ initializing = 0 /\ awaits = [c \in Calls |-> 0]
    /\ settledInit = {}
    /\ callState = [c \in Calls |-> "idle"] /\ aborted = {}
    /\ alive = {} /\ killed = {} /\ unanswered = {} /\ replies = {} /\ exits = {} /\ ready = {}

\* The call c is rejected or resolved with o.
Settle(c, o) == callState' = [callState EXCEPT ![c] = o]

-----------------------------------------------------------------------------
(***************************************************************************)
(* Transport.                                                              *)
(***************************************************************************)

\* `ready()` throws: disposed, or out of restarts.
ReadyError ==
    IF disposed THEN "disposed"
    ELSE IF ~attached /\ restarts > MaxRestarts THEN "limit" ELSE "none"

\* The generation `ready()` returns, after spawning a child if there is none.
ReadyGeneration == IF attached THEN generation ELSE generation + 1

Ready ==
    /\ ReadyError = "none"
    /\ generation' = ReadyGeneration
    /\ attached' = TRUE
    /\ alive' = alive \union {ReadyGeneration}

\* `request` numbers a request of w and writes it to the child just readied.
WriteRequest(w) ==
    /\ nextId' = nextId + 1
    /\ pending' = pending \union {nextId}
    /\ owner' = [owner EXCEPT ![nextId] = w]
    /\ sentTo' = [sentTo EXCEPT ![nextId] = ReadyGeneration]
    /\ unanswered' = unanswered \union {nextId}

\* `#settle` of every request in S: a call settles at once, an initialize
\* through its continuation.
SettleRequests(S, o) ==
    /\ pending' = pending \ S
    /\ callState' = [c \in Calls |-> IF \E i \in S : owner[i] = c THEN o ELSE callState[c]]
    /\ settledInit' = settledInit \union
        {[id |-> i, outcome |-> o] : i \in {j \in S : owner[j] = Initialize}}

\* Fault: the requests in flight stay in the table.
Crash_KeepPending(g, o) ==
    IF g = generation /\ attached
    THEN /\ attached' = FALSE
         /\ restarts' = restarts + 1
         /\ UNCHANGED <<pending, callState, settledInit>>
    ELSE UNCHANGED <<attached, restarts, pending, callState, settledInit>>

\* `#crash`: only the current child counts, and only once.  A disposed
\* transport has no child.
Crash(g, o) ==
    IF g = generation /\ attached
    THEN /\ attached' = FALSE
         /\ restarts' = restarts + 1
         /\ SettleRequests(pending, o)
    ELSE UNCHANGED <<attached, restarts, pending, callState, settledInit>>

-----------------------------------------------------------------------------
(***************************************************************************)
(* Session.                                                                *)
(***************************************************************************)

\* `#initializing` is a request to the child that `ready()` returns.
UnderWay == IF initializing = 0 THEN FALSE ELSE sentTo[initializing] = ReadyGeneration

\* The state of a call whose `#initialize` is entered: it resumes at once when
\* the child is initialized, joins the request under way, or makes one.  A child
\* that is not initialized has no other request in flight, so that one is never
\* refused as one too many.
EnterInitialize(c) ==
    /\ Ready
    /\ \/ /\ initialized = ReadyGeneration
          /\ Settle(c, "resumed")
          /\ UNCHANGED <<nextId, pending, owner, sentTo, unanswered, initializing, awaits>>
       \/ /\ initialized # ReadyGeneration
          /\ UnderWay
          /\ Settle(c, "initializing")
          /\ awaits' = [awaits EXCEPT ![c] = initializing]
          /\ UNCHANGED <<nextId, pending, owner, sentTo, unanswered, initializing>>
       \/ /\ initialized # ReadyGeneration
          /\ ~UnderWay
          /\ nextId \in RequestIds
          /\ WriteRequest(Initialize)
          /\ initializing' = nextId
          /\ awaits' = [awaits EXCEPT ![c] = nextId]
          /\ Settle(c, "initializing")

\* `ready()` throws, or `spawnChild` does: the call is rejected.
ReadyFails(c) ==
    /\ \/ ReadyError # "none" /\ Settle(c, ReadyError)
       \/ ReadyError = "none" /\ ~attached /\ Settle(c, "error")
    /\ UNCHANGED <<transportVars, processVars, initializing, awaits>>

\* `session.request`, up to its first await.
Call(c) ==
    /\ callState[c] = "idle"
    /\ \/ /\ c \in aborted
          /\ Settle(c, "aborted")
          /\ UNCHANGED <<transportVars, processVars, initializing, awaits>>
       \/ c \notin aborted /\ ReadyFails(c)
       \/ /\ c \notin aborted
          /\ EnterInitialize(c)
          /\ UNCHANGED <<restarts, disposed, disposal, killed, replies, exits, ready>>
    /\ UNCHANGED <<initialized, settledInit, aborted>>

\* Why `transport.request` rejects before it writes.
Refusal(c) ==
    IF c \in aborted THEN "aborted"
    ELSE IF Cardinality(pending) >= MaxInFlight THEN "busy" ELSE "none"

\* Fault: the call does not compare the generations again.
SameGeneration_Assumed == TRUE

\* `this.transport.ready() === this.#initializedGeneration`
SameGeneration == ReadyGeneration = initialized

\* The continuation behind `await this.#initialize()`: the request is written
\* if the child is still the initialized one, else the loop starts again.
Resume(c) ==
    /\ callState[c] = "resumed"
    /\ \/ ReadyFails(c)
       \/ /\ SameGeneration
          /\ Ready
          /\ Refusal(c) # "none"
          /\ Settle(c, Refusal(c))
          /\ UNCHANGED <<nextId, pending, owner, sentTo, unanswered, initializing, awaits>>
          /\ UNCHANGED <<restarts, disposed, disposal, killed, replies, exits, ready>>
       \/ /\ SameGeneration
          /\ Ready
          /\ Refusal(c) = "none"
          /\ nextId \in RequestIds
          /\ WriteRequest(c)
          /\ Settle(c, "sent")
          /\ UNCHANGED <<initializing, awaits>>
          /\ UNCHANGED <<restarts, disposed, disposal, killed, replies, exits, ready>>
       \/ /\ SameGeneration   \* the frame cannot be encoded: the number is spent
          /\ Ready
          /\ Refusal(c) = "none"
          /\ nextId \in RequestIds
          /\ nextId' = nextId + 1
          /\ Settle(c, "error")
          /\ UNCHANGED <<pending, owner, sentTo, unanswered, initializing, awaits>>
          /\ UNCHANGED <<restarts, disposed, disposal, killed, replies, exits, ready>>
       \/ /\ ~SameGeneration
          /\ EnterInitialize(c)
          /\ UNCHANGED <<restarts, disposed, disposal, killed, replies, exits, ready>>
    /\ UNCHANGED <<initialized, settledInit, aborted>>

\* The generation the answer to the request i initializes: none if the
\* transport has moved on.
InitializedBy(i) == IF generation = sentTo[i] THEN sentTo[i] ELSE initialized

\* The continuations of an initialize promise: `then`, `finally`, and the calls
\* that await it.
InitializeSettled ==
    \E s \in settledInit :
        /\ settledInit' = settledInit \ {s}
        /\ initialized' = IF s.outcome = "ok" THEN InitializedBy(s.id) ELSE initialized
        /\ initializing' = IF initializing = s.id THEN 0 ELSE initializing
        /\ callState' = [c \in Calls |->
                            IF callState[c] = "initializing" /\ awaits[c] = s.id
                            THEN IF s.outcome = "ok" THEN "resumed" ELSE s.outcome
                            ELSE callState[c]]
        /\ UNCHANGED <<transportVars, processVars, awaits, aborted>>

\* The caller aborts: the listener of a request in flight deletes it, sends a
\* best-effort `$/cancelRequest` and rejects.
Abort(c) ==
    /\ c \notin aborted
    /\ aborted' = aborted \union {c}
    /\ IF callState[c] = "sent"
       THEN /\ pending' = {i \in pending : owner[i] # c}
            /\ Settle(c, "aborted")
       ELSE UNCHANGED <<pending, callState>>
    /\ UNCHANGED <<generation, attached, restarts, disposed, disposal, nextId, owner, sentTo,
                   initialized, initializing, awaits, settledInit, processVars>>

-----------------------------------------------------------------------------
(***************************************************************************)
(* Disposal.                                                               *)
(***************************************************************************)

\* `dispose`: everything in flight is rejected, the child's stdin is closed.
Dispose ==
    /\ ~disposed
    /\ disposed' = TRUE
    /\ attached' = FALSE
    /\ SettleRequests(pending, "disposed")
    /\ disposal' = IF attached THEN "waiting" ELSE "done"
    /\ UNCHANGED <<generation, restarts, nextId, owner, sentTo, initialized, initializing,
                   awaits, aborted, processVars>>

\* Fault: disposal waits for the child however long it takes.
DisposeTimeout_Never == FALSE /\ UNCHANGED vars

\* The child has not exited in time, and is killed; 100 ms later disposal gives
\* up in any case.
DisposeTimeout ==
    /\ disposal \in {"waiting", "killed"}
    /\ disposal' = IF disposal = "waiting" THEN "killed" ELSE "done"
    /\ killed' = IF disposal = "waiting" THEN killed \union {generation} ELSE killed
    /\ UNCHANGED <<generation, attached, restarts, disposed, nextId, pending, owner, sentTo,
                   sessionVars, alive, unanswered, replies, exits, ready>>

-----------------------------------------------------------------------------
(***************************************************************************)
(* Events of the processes.                                                *)
(***************************************************************************)

\* No continuation of a call waits.  An initialize that is settled may still
\* wait for its own: a later frame of the same chunk comes first.
NoneResumed == \A c \in Calls : callState[c] # "resumed"

\* No continuation waits at all: the next event may be handled.
Quiet == NoneResumed /\ settledInit = {}

\* `#receive` of a frame with a result or an error.  A frame of an earlier
\* child is dropped.
ReceiveReply ==
    \E r \in replies :
        /\ NoneResumed
        /\ replies' = replies \ {r}
        /\ IF sentTo[r.id] = generation /\ attached
           THEN SettleRequests({r.id} \intersect pending, r.outcome)
           ELSE UNCHANGED <<pending, callState, settledInit>>
        /\ UNCHANGED <<generation, attached, restarts, disposed, disposal, nextId, owner, sentTo,
                       initialized, initializing, awaits, aborted, alive, killed, unanswered,
                       exits, ready>>

\* A frame that cannot be decoded, or has neither result nor error:
\* `#protocolFailure` crashes the transport and kills the child.
ReceiveGarbage ==
    /\ NoneResumed
    /\ attached /\ generation \in alive
    /\ Crash(generation, "protocol")
    /\ killed' = killed \union {generation}
    /\ UNCHANGED <<generation, disposed, disposal, nextId, owner, sentTo, initialized,
                   initializing, awaits, aborted, alive, unanswered, replies, exits, ready>>

\* An `error` event of one of the child's streams: the transport lets go of the
\* child, which is not killed.
StreamError ==
    /\ Quiet
    /\ attached
    /\ Crash(generation, "crashed")
    /\ UNCHANGED <<generation, disposed, disposal, nextId, owner, sentTo, initialized,
                   initializing, awaits, aborted, processVars>>

\* The `exit` or `error` event of a child; disposal waits for the former.
ChildGone(g) ==
    /\ Quiet
    /\ g \in exits
    /\ exits' = exits \ {g}
    /\ Crash(g, "crashed")
    /\ disposal' = IF disposal \in {"waiting", "killed"} /\ g = generation THEN "done" ELSE disposal
    /\ UNCHANGED <<generation, disposed, nextId, owner, sentTo, initialized, initializing, awaits,
                   aborted, alive, killed, unanswered, replies, ready>>

\* The process answers a request it has read; the first answer to `initialize`
\* makes it usable.
ProcessAnswers(i) ==
    /\ i \in unanswered /\ sentTo[i] \in alive
    /\ unanswered' = unanswered \ {i}
    /\ \E o \in {"ok", "error"} :
        /\ replies' = replies \union {[id |-> i, outcome |-> o]}
        /\ ready' = IF owner[i] = Initialize /\ o = "ok" THEN ready \union {sentTo[i]} ELSE ready
    /\ UNCHANGED <<transportVars, sessionVars, alive, killed, exits>>

\* The process ends, for whatever reason; what it wrote can still be read.
ProcessEnds(g) ==
    /\ g \in alive
    /\ alive' = alive \ {g}
    /\ unanswered' = {i \in unanswered : sentTo[i] # g}
    /\ exits' = exits \union {g}
    /\ UNCHANGED <<transportVars, sessionVars, killed, replies, ready>>

-----------------------------------------------------------------------------
ClientStep ==
    \/ \E c \in Calls : Resume(c)
    \/ InitializeSettled
    \/ ReceiveReply
    \/ \E g \in exits : ChildGone(g)
    \/ DisposeTimeout

\* A process with something to do answers or ends.
ProcessStep ==
    \/ \E i \in unanswered : ProcessAnswers(i)
    \/ \E g \in {sentTo[i] : i \in unanswered} \union killed : ProcessEnds(g)

\* What the caller decides, and what may go wrong.
Environment ==
    \/ \E c \in Calls : Call(c) \/ Abort(c)
    \/ Dispose
    \/ ReceiveGarbage
    \/ StreamError
    \/ \E g \in alive : ProcessEnds(g)

\* Every call is settled and nothing is left to happen.
Idle ==
    /\ \A c \in Calls : callState[c] \notin {"initializing", "resumed", "sent"}
    /\ UNCHANGED vars

Next == ClientStep \/ ProcessStep \/ Environment \/ Idle

Spec == Init /\ [][Next]_vars

\* The client's event loop runs, and a process that owes an answer gives it or
\* ends: `ObligationsMet` of ApiServer is that promise.
LiveSpec == Spec /\ WF_vars(ClientStep) /\ WF_vars(ProcessStep)

-----------------------------------------------------------------------------
(***************************************************************************)
(* Properties.                                                             *)
(***************************************************************************)

Outcomes == {"ok", "error", "crashed", "protocol", "disposed", "aborted", "busy", "limit"}

\* Types, and the bound on requests in flight.
TypeOK ==
    /\ generation \in Nat /\ restarts \in Nat /\ initialized \in Nat
    /\ attached \in BOOLEAN /\ disposed \in BOOLEAN
    /\ disposal \in {"none", "waiting", "killed", "done"}
    /\ nextId \in 1..(MaxRequests + 1)
    /\ pending \subseteq RequestIds /\ Cardinality(pending) <= MaxInFlight
    /\ owner \in [RequestIds -> Calls \union {Initialize}]
    /\ sentTo \in [RequestIds -> Nat]
    /\ initializing \in RequestIds \union {0}
    /\ awaits \in [Calls -> RequestIds \union {0}]
    /\ settledInit \subseteq [id : RequestIds, outcome : Outcomes]
    /\ callState \in [Calls -> {"idle", "initializing", "resumed", "sent"} \union Outcomes]
    /\ aborted \subseteq Calls
    /\ alive \subseteq Nat /\ killed \subseteq Nat /\ exits \subseteq Nat /\ ready \subseteq Nat
    /\ unanswered \subseteq RequestIds
    /\ replies \subseteq [id : RequestIds, outcome : Outcomes]

\* A request in flight was written to the child that is attached now, so there
\* is always someone to settle it: no request outlives its process.
PendingIsServed ==
    pending # {} => attached /\ \A i \in pending : sentTo[i] = generation

\* A call is only ever written to a process that has answered its own
\* `initialize`, whatever crashed and was replaced in between.
SentToInitialized ==
    \A i \in 1..(nextId - 1) : owner[i] # Initialize => sentTo[i] \in ready

\* "The transport permits at most N restarts": one process more than that.
RestartBound == generation <= MaxRestarts + 1

\* A call that waits can be settled: for its own request, or for an initialize
\* request that is in flight or has its continuation queued.
CallIsTracked ==
    \A c \in Calls :
        /\ callState[c] = "sent" => \E i \in pending : owner[i] = c
        /\ callState[c] = "initializing" =>
            awaits[c] \in pending \/ \E s \in settledInit : s.id = awaits[c]

\* A call aborted before it was settled never succeeds.
AbortedNeverSucceeds ==
    [][\A c \in aborted : callState[c] # "ok" => callState'[c] # "ok"]_vars

\* Every call is settled: crashes, replacements and disposal leave none behind.
\* (A call is made once, so from some point on none waits.)
CallsSettle ==
    <>[](\A c \in Calls : callState[c] \notin {"initializing", "resumed", "sent"})

\* `dispose` completes even when the child does not react.
DisposeEnds == <>[](disposed => disposal = "done")
=============================================================================
