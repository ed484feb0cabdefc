-------------------------- MODULE ApiClientProofs --------------------------
(***************************************************************************)
(* Proofs about ApiClient, for any set of calls and any limits.            *)
(***************************************************************************)
EXTENDS ApiClient, FiniteSetTheorems, TLAPS

\* Every request the client knows of has a number that was handed out.
Numbered ==
    /\ \A i \in pending \union unanswered : i < nextId
    /\ \A r \in replies \union settledInit : r.id < nextId
    /\ initializing < nextId
    /\ \A c \in Calls : awaits[c] < nextId
    /\ \A i \in RequestIds : i >= nextId => owner[i] = Initialize

\* Every generation but the attached one has been counted as a restart.
RestartShape ==
    /\ generation <= restarts + 1
    /\ generation <= MaxRestarts + 1
    /\ (~attached /\ ~disposed) => generation <= restarts
    /\ attached => ~disposed /\ generation >= 1

\* What is known of initialize requests: the one in flight is `#initializing`,
\* and each successful answer on its way comes from a process that is ready.
InitShape ==
    /\ initialized # 0 => initialized \in ready
    /\ \A s \in settledInit :
        /\ owner[s.id] = Initialize /\ s.id \notin pending
        /\ s.outcome = "ok" => sentTo[s.id] \in ready
    /\ \A r \in replies : (r.outcome = "ok" /\ owner[r.id] = Initialize) => sentTo[r.id] \in ready
    /\ initializing # 0 =>
        /\ owner[initializing] = Initialize
        /\ initializing \in pending \/ \E s \in settledInit : s.id = initializing
    /\ \A i \in pending : owner[i] = Initialize => i = initializing
    /\ \A i \in pending : owner[i] # Initialize => initialized = generation

\* A call with a request in flight waits for that request, and for no other.
CallShape ==
    /\ \A i \in pending : owner[i] \in Calls =>
        callState[owner[i]] = "sent" /\ owner[i] \notin aborted
    /\ \A i, j \in pending : owner[i] = owner[j] => i = j
    /\ \A c \in Calls : callState[c] = "initializing" =>
        awaits[c] # 0 /\ owner[awaits[c]] = Initialize

\* The inductive invariant: the properties, and the shapes they rest on.
IInv ==
    /\ TypeOK /\ Numbered /\ RestartShape /\ PendingIsServed
    /\ InitShape /\ CallShape /\ CallIsTracked /\ SentToInitialized

-----------------------------------------------------------------------------
\* A set of pending requests only shrinks when requests are settled.
LEMMA PendingFinite ==
    ASSUME TypeOK
    PROVE  /\ IsFiniteSet(pending)
           /\ \A S \in SUBSET pending : Cardinality(S) <= MaxInFlight
           /\ Cardinality(pending) \in Nat
<1>1. IsFiniteSet(RequestIds)
  BY FS_Interval, ClientAssumption DEF RequestIds
<1>2. IsFiniteSet(pending)
  BY <1>1, FS_Subset DEF TypeOK
<1>3. ASSUME NEW S \in SUBSET pending
      PROVE  Cardinality(S) <= MaxInFlight
  <2>1. Cardinality(S) <= Cardinality(pending) /\ Cardinality(S) \in Nat
    BY <1>2, FS_Subset, FS_CardinalityType
  <2> QED BY <1>2, <2>1, FS_CardinalityType, ClientAssumption DEF TypeOK
<1> QED BY <1>2, <1>3, FS_CardinalityType

\* One more request fits while fewer than the limit are in flight.
LEMMA PendingGrows ==
    ASSUME TypeOK, NEW i, Cardinality(pending) < MaxInFlight
    PROVE  Cardinality(pending \union {i}) <= MaxInFlight
<1>1. IsFiniteSet(pending) /\ Cardinality(pending) \in Nat
  BY PendingFinite
<1> QED BY <1>1, FS_AddElement, ClientAssumption

\* A child that is not initialized, and is not being initialized, has nothing in
\* flight.
LEMMA NothingInFlight ==
    ASSUME IInv, initialized # ReadyGeneration, ~UnderWay
    PROVE  pending = {}
<1> SUFFICES ASSUME NEW i \in pending PROVE FALSE
  OBVIOUS
<1>1. attached /\ sentTo[i] = generation /\ ReadyGeneration = generation
  BY DEF IInv, PendingIsServed, ReadyGeneration
<1>2. owner[i] = Initialize
  BY <1>1 DEF IInv, InitShape
<1>3. i = initializing /\ i # 0
  BY <1>2 DEF IInv, InitShape, TypeOK, RequestIds
<1> QED BY <1>1, <1>3 DEF UnderWay

\* What `#initialize` leaves alone in every case.
Entered(c) ==
    /\ callState[c] \in {"idle", "resumed"}
    /\ EnterInitialize(c)
    /\ UNCHANGED <<restarts, disposed, disposal, killed, replies, exits, ready>>
    /\ UNCHANGED <<initialized, settledInit, aborted>>

\* `ready()` alone keeps the invariant's parts about processes: it spawns only
\* when nothing is in flight and the limit allows it.
LEMMA ReadyShape ==
    ASSUME IInv, Ready, UNCHANGED <<restarts, disposed>>
    PROVE  /\ RestartShape'
           /\ ReadyGeneration \in Nat /\ ReadyGeneration >= 1
           /\ pending # {} => ReadyGeneration = generation
           /\ generation' = ReadyGeneration /\ attached'
<1> USE DEF IInv, RestartShape, Ready, ReadyError, ReadyGeneration, TypeOK
<1>1. ~disposed /\ (~attached => restarts <= MaxRestarts)
  BY ClientAssumption
<1>2. RestartShape'
  BY <1>1, ClientAssumption
<1>3. pending # {} => attached
  BY DEF PendingIsServed
<1> QED BY <1>2, <1>3

\* `#initialize` when it makes no request: the call resumes or joins.
LEMMA EnterJoins ==
    ASSUME IInv, NEW c \in Calls, Entered(c), nextId' = nextId
    PROVE  IInv'
<1>1. UNCHANGED <<nextId, pending, owner, sentTo, unanswered, initializing, restarts, disposed,
                  disposal, killed, replies, exits, ready, initialized, settledInit, aborted>>
  BY DEF Entered, EnterInitialize, WriteRequest, IInv, TypeOK
<1>2. /\ generation' = ReadyGeneration /\ attached' /\ alive' = alive \union {ReadyGeneration}
      /\ RestartShape' /\ ReadyGeneration \in Nat
      /\ pending # {} => ReadyGeneration = generation
  BY <1>1, ReadyShape DEF Entered, EnterInitialize, Ready
<1>3. \/ callState' = [callState EXCEPT ![c] = "resumed"] /\ awaits' = awaits
      \/ /\ callState' = [callState EXCEPT ![c] = "initializing"]
         /\ awaits' = [awaits EXCEPT ![c] = initializing]
         /\ initializing # 0
  BY <1>1 DEF Entered, EnterInitialize, Settle, UnderWay, WriteRequest, IInv, TypeOK
<1>4. TypeOK'
  BY <1>1, <1>2, <1>3 DEF IInv, TypeOK, Ready, Entered, EnterInitialize
<1>5. Numbered'
  BY <1>1, <1>3 DEF IInv, Numbered, TypeOK
<1>6. PendingIsServed'
  BY <1>1, <1>2 DEF IInv, PendingIsServed
<1>7. InitShape'
  BY <1>1, <1>2 DEF IInv, InitShape
<1>8. CallShape'
  <2>1. \A i \in pending : owner[i] # c
    BY DEF Entered, IInv, CallShape
  <2> QED BY <1>1, <1>3, <2>1 DEF IInv, CallShape, InitShape, TypeOK
<1>9. CallIsTracked'
  BY <1>1, <1>3 DEF IInv, CallIsTracked, InitShape, TypeOK
<1>10. SentToInitialized'
  BY <1>1 DEF IInv, SentToInitialized
<1> QED BY <1>2, <1>4, <1>5, <1>6, <1>7, <1>8, <1>9, <1>10 DEF IInv

\* `#initialize` when it makes the request.
LEMMA EnterWrites ==
    ASSUME IInv, NEW c \in Calls, Entered(c), nextId' # nextId
    PROVE  IInv'
<1>1. /\ initialized # ReadyGeneration /\ ~UnderWay
      /\ nextId \in RequestIds /\ WriteRequest(Initialize)
      /\ initializing' = nextId
      /\ awaits' = [awaits EXCEPT ![c] = nextId]
      /\ callState' = [callState EXCEPT ![c] = "initializing"]
  BY DEF Entered, EnterInitialize, Settle
<1>2. pending = {} /\ pending' = {nextId}
  BY <1>1, NothingInFlight DEF WriteRequest
<1>3. UNCHANGED <<restarts, disposed, disposal, killed, replies, exits, ready, initialized,
                  settledInit, aborted>>
  BY DEF Entered
<1>4. /\ generation' = ReadyGeneration /\ attached' = TRUE
      /\ alive' = alive \union {ReadyGeneration}
      /\ RestartShape' /\ ReadyGeneration \in Nat
  BY <1>3, ReadyShape DEF Entered, EnterInitialize, Ready
<1>5. /\ owner' = [owner EXCEPT ![nextId] = Initialize]
      /\ sentTo' = [sentTo EXCEPT ![nextId] = ReadyGeneration]
      /\ nextId' = nextId + 1 /\ unanswered' = unanswered \union {nextId}
  BY <1>1 DEF WriteRequest
<1>6. nextId \in Nat /\ nextId >= 1 /\ nextId <= MaxRequests
  BY <1>1, ClientAssumption DEF RequestIds
<1>7. TypeOK'
  <2>1. Cardinality(pending') <= MaxInFlight
    <3>1. Cardinality({nextId}) = 1
      BY FS_Singleton
    <3> QED BY <1>2, <3>1, ClientAssumption
  <2> QED BY <1>1, <1>2, <1>3, <1>4, <1>5, <1>6, <2>1, ClientAssumption DEF IInv, TypeOK, RequestIds
<1>8. Numbered'
  BY <1>1, <1>2, <1>3, <1>5, <1>6 DEF IInv, Numbered, TypeOK, RequestIds
<1>9. PendingIsServed'
  BY <1>1, <1>2, <1>4, <1>5 DEF IInv, PendingIsServed, TypeOK
<1>10. InitShape'
  BY <1>1, <1>2, <1>3, <1>5, <1>6 DEF IInv, InitShape, Numbered, TypeOK
<1>11. CallShape'
  BY <1>1, <1>2, <1>3, <1>5, <1>6, ClientAssumption DEF IInv, CallShape, Numbered, TypeOK
<1>12. CallIsTracked'
  BY <1>1, <1>2, <1>3 DEF IInv, CallIsTracked, TypeOK
<1>13. SentToInitialized'
  BY <1>1, <1>3, <1>5, <1>6 DEF IInv, SentToInitialized, TypeOK, RequestIds
<1> QED BY <1>4, <1>7, <1>8, <1>9, <1>10, <1>11, <1>12, <1>13 DEF IInv

\* A call that is not waiting for a request is settled: `ready()` threw, or
\* `request` refused.
LEMMA CallEnds ==
    ASSUME IInv, NEW c \in Calls, callState[c] \in {"idle", "resumed"},
           NEW o \in Outcomes, callState' = [callState EXCEPT ![c] = o],
           UNCHANGED <<pending, owner, sentTo, initializing, awaits, initialized, settledInit,
                       aborted>>
    PROVE  CallShape' /\ CallIsTracked'
<1>1. \A i \in pending : owner[i] # c
  BY DEF IInv, CallShape
<1>2. o \notin {"initializing", "sent"}
  BY DEF Outcomes
<1>3. CallShape'
  BY <1>1, <1>2 DEF IInv, CallShape, TypeOK
<1>4. CallIsTracked'
  BY <1>2 DEF IInv, CallIsTracked, TypeOK
<1> QED BY <1>3, <1>4

\* The client throws out of `ready()`.
LEMMA ReadyFailsStep ==
    ASSUME IInv, NEW c \in Calls, callState[c] \in {"idle", "resumed"}, ReadyFails(c),
           UNCHANGED <<initialized, settledInit, aborted>>
    PROVE  IInv'
<1>1. PICK o \in Outcomes : callState' = [callState EXCEPT ![c] = o]
  BY DEF ReadyFails, ReadyError, Settle, Outcomes
<1>2. UNCHANGED <<transportVars, processVars, initializing, awaits, initialized, settledInit, aborted>>
  BY DEF ReadyFails
<1>3. CallShape' /\ CallIsTracked'
  BY <1>1, <1>2, CallEnds DEF transportVars
<1>4. TypeOK'
  BY <1>1, <1>2 DEF IInv, TypeOK, transportVars, processVars
<1>5. (Numbered /\ RestartShape /\ PendingIsServed /\ InitShape /\ SentToInitialized)'
  BY <1>2 DEF IInv, transportVars, processVars, Numbered, RestartShape, PendingIsServed,
     InitShape, SentToInitialized
<1> QED BY <1>3, <1>4, <1>5 DEF IInv

\* Every step of `session.request` up to its first await.
LEMMA CallStep ==
    ASSUME IInv, NEW c \in Calls, Call(c)
    PROVE  IInv'
<1> USE DEF Call
<1>1. CASE c \in aborted
  <2>1. /\ callState' = [callState EXCEPT ![c] = "aborted"] /\ "aborted" \in Outcomes
        /\ UNCHANGED <<transportVars, processVars, initializing, awaits, initialized,
                       settledInit, aborted>>
    BY <1>1 DEF Settle, Outcomes
  <2>2. CallShape' /\ CallIsTracked'
    BY <2>1, CallEnds DEF transportVars
  <2>3. TypeOK'
    BY <2>1 DEF IInv, TypeOK, transportVars, processVars
  <2>4. (Numbered /\ RestartShape /\ PendingIsServed /\ InitShape /\ SentToInitialized)'
    BY <2>1 DEF IInv, transportVars, processVars, Numbered, RestartShape, PendingIsServed,
       InitShape, SentToInitialized
  <2> QED BY <2>2, <2>3, <2>4 DEF IInv
<1>2. CASE ReadyFails(c)
  BY <1>2, ReadyFailsStep
<1>3. CASE c \notin aborted /\ ~ReadyFails(c)
  BY <1>3, EnterJoins, EnterWrites DEF Entered
<1> QED BY <1>1, <1>2, <1>3

\* The call's request is written to the child that was initialized.
LEMMA ResumeWrites ==
    ASSUME IInv, NEW c \in Calls, callState[c] = "resumed", SameGeneration, Ready,
           Refusal(c) = "none", nextId \in RequestIds, WriteRequest(c), Settle(c, "sent"),
           UNCHANGED <<initializing, awaits, restarts, disposed, disposal, killed, replies, exits,
                       ready, initialized, settledInit, aborted>>
    PROVE  IInv'
<1>1. /\ pending' = pending \union {nextId}
      /\ owner' = [owner EXCEPT ![nextId] = c]
      /\ sentTo' = [sentTo EXCEPT ![nextId] = ReadyGeneration]
      /\ nextId' = nextId + 1 /\ unanswered' = unanswered \union {nextId}
      /\ callState' = [callState EXCEPT ![c] = "sent"]
  BY DEF WriteRequest, Settle
<1>2. /\ c \notin aborted /\ Cardinality(pending) < MaxInFlight
  <2>1. Cardinality(pending) \in Nat
    BY PendingFinite DEF IInv
  <2> QED BY <2>1, ClientAssumption DEF Refusal
<1>3. /\ generation' = ReadyGeneration /\ attached' = TRUE
      /\ alive' = alive \union {ReadyGeneration}
      /\ RestartShape' /\ ReadyGeneration \in Nat /\ ReadyGeneration >= 1
      /\ pending # {} => ReadyGeneration = generation
  BY ReadyShape DEF Ready
<1>4. nextId \in Nat /\ nextId >= 1 /\ nextId <= MaxRequests
  BY ClientAssumption DEF RequestIds
<1>5. initialized = ReadyGeneration /\ initialized \in ready
  BY <1>3 DEF SameGeneration, IInv, InitShape
<1>6. nextId \notin pending /\ c # Initialize /\ \A i \in pending : owner[i] # c
  BY <1>4, ClientAssumption DEF IInv, Numbered, CallShape, TypeOK
<1>7. TypeOK'
  <2>1. Cardinality(pending') <= MaxInFlight
    BY <1>1, <1>2, PendingGrows DEF IInv
  <2> QED BY <1>1, <1>3, <1>4, <2>1, ClientAssumption DEF IInv, TypeOK, RequestIds
<1>8. Numbered'
  BY <1>1, <1>4 DEF IInv, Numbered, TypeOK, RequestIds
<1>9. PendingIsServed'
  BY <1>1, <1>3 DEF IInv, PendingIsServed, TypeOK
<1>10. InitShape'
  BY <1>1, <1>3, <1>4, <1>5, <1>6 DEF IInv, InitShape, Numbered, TypeOK
<1>11. CallShape'
  BY <1>1, <1>2, <1>4, <1>6 DEF IInv, CallShape, Numbered, TypeOK
<1>12. CallIsTracked'
  BY <1>1, <1>6 DEF IInv, CallIsTracked, TypeOK
<1>13. SentToInitialized'
  BY <1>1, <1>4, <1>5 DEF IInv, SentToInitialized, TypeOK, RequestIds
<1> QED BY <1>3, <1>7, <1>8, <1>9, <1>10, <1>11, <1>12, <1>13 DEF IInv

\* A number that was handed out is one of RequestIds.
LEMMA NumbersInRange ==
    \A n \in 1..(MaxRequests + 1) : \A i \in 1..(n - 1) : i \in RequestIds
BY ClientAssumption DEF RequestIds

\* `request` refuses, or cannot encode the frame: the child is ready, nothing is
\* written, and a number may be spent.
LEMMA ResumeRefused ==
    ASSUME IInv, NEW c \in Calls, callState[c] = "resumed", Ready, SameGeneration,
           NEW o \in Outcomes, Settle(c, o),
           \/ nextId' = nextId
           \/ nextId \in RequestIds /\ nextId' = nextId + 1 /\ Refusal(c) = "none",
           UNCHANGED <<pending, owner, sentTo, unanswered, initializing, awaits, restarts,
                       disposed, disposal, killed, replies, exits, ready, initialized,
                       settledInit, aborted>>
    PROVE  IInv'
<1>1. callState' = [callState EXCEPT ![c] = o]
  BY DEF Settle
<1>2. /\ generation' = ReadyGeneration /\ attached' = TRUE
      /\ alive' = alive \union {ReadyGeneration}
      /\ RestartShape' /\ ReadyGeneration \in Nat
      /\ pending # {} => ReadyGeneration = generation
  BY ReadyShape DEF Ready
<1>3. nextId' \in 1..(MaxRequests + 1) /\ nextId' >= nextId
  BY ClientAssumption DEF IInv, TypeOK, RequestIds
<1>4. CallShape' /\ CallIsTracked'
  BY <1>1, CallEnds
<1>5. TypeOK'
  BY <1>1, <1>2, <1>3 DEF IInv, TypeOK
<1>6. Numbered'
  BY <1>3, ClientAssumption DEF IInv, Numbered, TypeOK, RequestIds
<1>7. PendingIsServed'
  BY <1>2 DEF IInv, PendingIsServed
<1>8. InitShape'
  BY <1>2 DEF IInv, InitShape
<1>9. SentToInitialized'
  <2> SUFFICES ASSUME NEW i \in 1..(nextId' - 1), owner[i] # Initialize
               PROVE  sentTo[i] \in ready
    BY DEF SentToInitialized
  <2>1. i \in RequestIds
    BY <1>3, NumbersInRange, Zenon
  <2>2. i \in 1..(nextId - 1)
    BY <2>1, ClientAssumption DEF IInv, Numbered, TypeOK, RequestIds
  <2> QED BY <2>2 DEF IInv, SentToInitialized
<1> QED BY <1>2, <1>4, <1>5, <1>6, <1>7, <1>8, <1>9 DEF IInv

\* Every continuation behind `await this.#initialize()`.
LEMMA ResumeStep ==
    ASSUME IInv, NEW c \in Calls, Resume(c)
    PROVE  IInv'
<1>1. callState[c] = "resumed" /\ UNCHANGED <<initialized, settledInit, aborted>>
  BY DEF Resume
<1>2. Refusal(c) \in {"aborted", "busy", "none"} /\ {"aborted", "busy", "error"} \subseteq Outcomes
  BY DEF Refusal, Outcomes
<1>3. CASE ReadyFails(c)
  BY <1>1, <1>3, ReadyFailsStep
<1>4. CASE ~ReadyFails(c) /\ ~SameGeneration
  BY <1>1, <1>4, EnterJoins, EnterWrites DEF Resume, Entered
<1>5. CASE ~ReadyFails(c) /\ SameGeneration /\ Refusal(c) # "none"
  <2> DEFINE o == Refusal(c)
  <2>1. o \in Outcomes
    BY <1>2, <1>5
  <2>2. Ready /\ Settle(c, o) /\ nextId' = nextId
    BY <1>5 DEF Resume
  <2>3. UNCHANGED <<pending, owner, sentTo, unanswered, initializing, awaits, restarts,
                    disposed, disposal, killed, replies, exits, ready>>
    BY <1>5 DEF Resume
  <2> HIDE DEF o
  <2> QED BY <1>1, <1>5, <2>1, <2>2, <2>3, ResumeRefused
<1>6. CASE ~ReadyFails(c) /\ SameGeneration /\ Refusal(c) = "none"
  <2>1. Ready /\ nextId \in RequestIds
        /\ UNCHANGED <<initializing, awaits, restarts, disposed, disposal, killed, replies,
                       exits, ready>>
    BY <1>6 DEF Resume
  <2>2. CASE WriteRequest(c) /\ Settle(c, "sent")
    BY <1>1, <1>6, <2>1, <2>2, ResumeWrites
  <2>3. CASE /\ nextId' = nextId + 1 /\ Settle(c, "error")
             /\ UNCHANGED <<pending, owner, sentTo, unanswered>>
    BY <1>1, <1>2, <1>6, <2>1, <2>3, ResumeRefused
  <2> QED BY <1>6, <2>2, <2>3 DEF Resume
<1> QED BY <1>3, <1>4, <1>5, <1>6

\* The continuations of an initialize promise.
LEMMA InitializeSettledStep ==
    ASSUME IInv, InitializeSettled
    PROVE  IInv'
<1>1. PICK s \in settledInit :
        /\ settledInit' = settledInit \ {s}
        /\ initialized' = IF s.outcome = "ok" THEN InitializedBy(s.id) ELSE initialized
        /\ initializing' = IF initializing = s.id THEN 0 ELSE initializing
        /\ callState' = [c \in Calls |->
                            IF callState[c] = "initializing" /\ awaits[c] = s.id
                            THEN IF s.outcome = "ok" THEN "resumed" ELSE s.outcome
                            ELSE callState[c]]
        /\ UNCHANGED <<transportVars, processVars, awaits, aborted>>
  BY DEF InitializeSettled
<1>2. s.id \in RequestIds /\ s.outcome \in Outcomes /\ s.id \notin pending
  BY DEF IInv, TypeOK, InitShape
<1>3. \/ initialized' = initialized
      \/ initialized' = generation /\ generation = sentTo[s.id] /\ sentTo[s.id] \in ready
  BY <1>1 DEF IInv, InitShape, InitializedBy
<1>4. \A c \in Calls : callState'[c] \in {"initializing", "sent"} =>
            callState[c] = callState'[c] /\ (callState[c] = "initializing" => awaits[c] # s.id)
  BY <1>1, <1>2 DEF IInv, TypeOK, Outcomes
<1>5. \A c \in Calls : callState[c] = "sent" => callState'[c] = "sent"
  BY <1>1
<1>6. TypeOK'
  <2>1. initialized' \in Nat
    BY <1>3 DEF IInv, TypeOK
  <2>2. callState' \in [Calls -> {"idle", "initializing", "resumed", "sent"} \union Outcomes]
    BY <1>1, <1>2 DEF IInv, TypeOK
  <2> QED BY <1>1, <2>1, <2>2 DEF IInv, TypeOK, transportVars, processVars
<1>7. (Numbered /\ RestartShape /\ PendingIsServed /\ SentToInitialized)'
  <2>1. Numbered'
    BY <1>1 DEF IInv, Numbered, TypeOK, RequestIds, transportVars, processVars
  <2> QED BY <1>1, <2>1 DEF IInv, RestartShape, PendingIsServed, SentToInitialized,
      transportVars, processVars
<1>8. InitShape'
  <2>1. UNCHANGED <<pending, owner, sentTo, ready, replies, generation>>
    BY <1>1 DEF transportVars, processVars
  <2>2. initialized' # 0 => initialized' \in ready
    BY <1>3 DEF IInv, InitShape
  <2>3. initializing' # 0 =>
          initializing \in pending \/ \E t \in settledInit' : t.id = initializing
    BY <1>1 DEF IInv, InitShape
  <2>4. \A i \in pending : owner[i] = Initialize => i = initializing'
    BY <1>1, <1>2 DEF IInv, InitShape
  <2>5. \A i \in pending : owner[i] # Initialize => initialized' = generation
    BY <1>3 DEF IInv, InitShape
  <2> QED BY <1>1, <2>1, <2>2, <2>3, <2>4, <2>5 DEF IInv, InitShape
<1>9. CallShape'
  <2>1. UNCHANGED <<pending, owner, awaits, aborted>>
    BY <1>1 DEF transportVars
  <2> QED BY <1>4, <1>5, <2>1 DEF IInv, CallShape
<1>10. CallIsTracked'
  <2>1. UNCHANGED <<pending, owner, awaits>>
    BY <1>1 DEF transportVars
  <2> QED BY <1>1, <1>4, <2>1 DEF IInv, CallIsTracked
<1> QED BY <1>6, <1>7, <1>8, <1>9, <1>10 DEF IInv

\* Settling requests, by an answer, a crash or disposal: the calls they belong
\* to are settled, the initialize promises wait for their continuations.
LEMMA SettleStep ==
    ASSUME IInv, NEW S \in SUBSET pending, NEW o \in Outcomes, SettleRequests(S, o),
           \A i \in S : (o = "ok" /\ owner[i] = Initialize) => sentTo[i] \in ready,
           replies' \subseteq replies,
           generation' = generation, attached' = attached \/ S = pending,
           UNCHANGED <<nextId, owner, sentTo, initialized, initializing, awaits, aborted,
                       unanswered, ready>>
    PROVE  /\ pending' \subseteq RequestIds /\ Cardinality(pending') <= MaxInFlight
           /\ settledInit' \subseteq [id : RequestIds, outcome : Outcomes]
           /\ callState' \in [Calls -> {"idle", "initializing", "resumed", "sent"} \union Outcomes]
           /\ Numbered' /\ PendingIsServed' /\ InitShape' /\ CallShape' /\ CallIsTracked'
           /\ SentToInitialized'
<1>1. /\ pending' = pending \ S
      /\ callState' = [c \in Calls |-> IF \E i \in S : owner[i] = c THEN o ELSE callState[c]]
  BY DEF SettleRequests
<1>2. settledInit' = settledInit \union
        {[id |-> i, outcome |-> o] : i \in {j \in S : owner[j] = Initialize}}
  BY DEF SettleRequests
<1>3. \A i \in S : i \in RequestIds /\ i < nextId
  BY DEF IInv, TypeOK, Numbered
<1>4. \A s \in settledInit' :
        s \in settledInit \/ (s.id \in S /\ owner[s.id] = Initialize /\ s.outcome = o)
  BY <1>2
<1>5. ASSUME NEW i \in S, owner[i] = Initialize
      PROVE  \E s \in settledInit' : s.id = i
  <2>1. [id |-> i, outcome |-> o] \in settledInit'
    BY <1>2, <1>5
  <2> QED BY <2>1
<1>6. settledInit \subseteq settledInit'
  BY <1>2
<1>7. o \notin {"initializing", "sent"}
  BY DEF Outcomes
<1>8. /\ pending' \subseteq RequestIds /\ Cardinality(pending') <= MaxInFlight
  <2>1. pending' \in SUBSET pending
    BY <1>1
  <2> QED BY <2>1, PendingFinite DEF IInv, TypeOK
<1>9. settledInit' \subseteq [id : RequestIds, outcome : Outcomes]
  BY <1>2, <1>3 DEF IInv, TypeOK
<1>10. callState' \in [Calls -> {"idle", "initializing", "resumed", "sent"} \union Outcomes]
  BY <1>1 DEF IInv, TypeOK
<1>11. Numbered'
  BY <1>1, <1>3, <1>4 DEF IInv, Numbered
<1>12. PendingIsServed'
  BY <1>1 DEF IInv, PendingIsServed
<1>13. InitShape'
  BY <1>1, <1>4, <1>5, <1>6 DEF IInv, InitShape
<1>14. CallShape'
  <2>1. \A i \in pending' : owner[i] \in Calls => callState'[owner[i]] = callState[owner[i]]
    BY <1>1 DEF IInv, CallShape
  <2>2. \A c \in Calls : callState'[c] = "initializing" => callState[c] = "initializing"
    BY <1>1, <1>7
  <2> QED BY <1>1, <2>1, <2>2 DEF IInv, CallShape
<1>15. CallIsTracked'
  <2>1. ASSUME NEW c \in Calls, callState'[c] = "sent"
        PROVE  \E i \in pending' : owner[i] = c
    BY <1>1, <1>7, <2>1 DEF IInv, CallIsTracked
  <2>2. ASSUME NEW c \in Calls, callState'[c] = "initializing"
        PROVE  awaits[c] \in pending' \/ \E s \in settledInit' : s.id = awaits[c]
    <3>1. callState[c] = "initializing" /\ owner[awaits[c]] = Initialize
      BY <1>1, <1>7, <2>2 DEF IInv, CallShape
    <3>2. CASE awaits[c] \in pending
      BY <1>1, <1>5, <3>1, <3>2
    <3>3. CASE \E s \in settledInit : s.id = awaits[c]
      BY <1>6, <3>3
    <3> QED BY <3>1, <3>2, <3>3 DEF IInv, CallIsTracked
  <2> QED BY <2>1, <2>2 DEF CallIsTracked
<1>16. SentToInitialized'
  BY DEF IInv, SentToInitialized
<1> QED BY <1>8, <1>9, <1>10, <1>11, <1>12, <1>13, <1>14, <1>15, <1>16

\* A crash of the generation g, as seen by whatever handler reports it.
LEMMA CrashStep ==
    ASSUME IInv, NEW g, NEW o \in Outcomes \ {"ok"}, Crash(g, o),
           UNCHANGED <<generation, disposed, nextId, owner, sentTo, initialized, initializing,
                       awaits, aborted, alive, unanswered, replies, ready>>,
           disposal' \in {"none", "waiting", "killed", "done"},
           killed' \subseteq Nat, exits' \subseteq Nat
    PROVE  IInv'
<1>1. CASE g = generation /\ attached
  <2>1. attached' = FALSE /\ restarts' = restarts + 1 /\ SettleRequests(pending, o)
    BY <1>1 DEF Crash
  <2>2. /\ pending' \subseteq RequestIds /\ Cardinality(pending') <= MaxInFlight
        /\ settledInit' \subseteq [id : RequestIds, outcome : Outcomes]
        /\ callState' \in [Calls -> {"idle", "initializing", "resumed", "sent"} \union Outcomes]
        /\ Numbered' /\ PendingIsServed' /\ InitShape' /\ CallShape' /\ CallIsTracked'
        /\ SentToInitialized'
    BY <2>1, SettleStep
  <2>3. TypeOK'
    <3>1. restarts' \in Nat
      BY <2>1 DEF IInv, TypeOK
    <3>2. attached' \in BOOLEAN
      BY <2>1, Zenon
    <3> QED BY <2>2, <3>1, <3>2 DEF IInv, TypeOK
  <2>4. RestartShape'
    BY <1>1, <2>1, ClientAssumption DEF IInv, TypeOK, RestartShape
  <2> QED BY <2>2, <2>3, <2>4 DEF IInv
<1>2. CASE ~(g = generation /\ attached)
  <2>1. UNCHANGED <<attached, restarts, pending, callState, settledInit>>
    BY <1>2 DEF Crash
  <2>2. TypeOK'
    BY <2>1 DEF IInv, TypeOK
  <2>3. (Numbered /\ RestartShape /\ PendingIsServed /\ InitShape)'
    BY <2>1 DEF IInv, Numbered, RestartShape, PendingIsServed, InitShape
  <2>4. (CallShape /\ CallIsTracked /\ SentToInitialized)'
    BY <2>1 DEF IInv, CallShape, CallIsTracked, SentToInitialized
  <2> QED BY <2>2, <2>3, <2>4 DEF IInv
<1> QED BY <1>1, <1>2

\* The handlers of the child's events other than an answer.
LEMMA GoneStep ==
    ASSUME IInv, ReceiveGarbage \/ StreamError \/ (\E g \in exits : ChildGone(g))
    PROVE  IInv'
<1> USE DEF IInv, TypeOK, Outcomes
<1>1. CASE ReceiveGarbage
  BY <1>1, CrashStep DEF ReceiveGarbage
<1>2. CASE StreamError
  BY <1>2, CrashStep DEF StreamError, processVars
<1>3. ASSUME NEW g \in exits, ChildGone(g) PROVE IInv'
  BY <1>3, CrashStep DEF ChildGone
<1> QED BY <1>1, <1>2, <1>3

\* An answer that is read: it settles a request of the attached child or none.
LEMMA ReplyStep ==
    ASSUME IInv, ReceiveReply
    PROVE  IInv'
<1>1. PICK r \in replies :
        /\ replies' = replies \ {r}
        /\ IF sentTo[r.id] = generation /\ attached
           THEN SettleRequests({r.id} \intersect pending, r.outcome)
           ELSE UNCHANGED <<pending, callState, settledInit>>
  BY DEF ReceiveReply
<1>2. UNCHANGED <<generation, attached, restarts, disposed, disposal, nextId, owner, sentTo,
                  initialized, initializing, awaits, aborted, alive, killed, unanswered,
                  exits, ready>>
  BY DEF ReceiveReply
<1>3. r.outcome \in Outcomes /\ replies' \subseteq replies
  BY <1>1 DEF IInv, TypeOK
<1>4. RestartShape'
  BY <1>2 DEF IInv, RestartShape
<1>5. CASE sentTo[r.id] = generation /\ attached
  <2> DEFINE S == {r.id} \intersect pending
  <2>1. \A i \in S : (r.outcome = "ok" /\ owner[i] = Initialize) => sentTo[i] \in ready
    BY DEF IInv, InitShape
  <2>2. S \in SUBSET pending /\ SettleRequests(S, r.outcome)
    BY <1>1, <1>5
  <2> HIDE DEF S
  <2>3. /\ pending' \subseteq RequestIds /\ Cardinality(pending') <= MaxInFlight
        /\ settledInit' \subseteq [id : RequestIds, outcome : Outcomes]
        /\ callState' \in [Calls -> {"idle", "initializing", "resumed", "sent"} \union Outcomes]
        /\ Numbered' /\ PendingIsServed' /\ InitShape' /\ CallShape' /\ CallIsTracked'
        /\ SentToInitialized'
    BY <1>2, <1>3, <2>1, <2>2, SettleStep
  <2>4. TypeOK'
    BY <1>2, <1>3, <2>3 DEF IInv, TypeOK
  <2> QED BY <1>4, <2>3, <2>4 DEF IInv
<1>6. CASE ~(sentTo[r.id] = generation /\ attached)
  <2>1. UNCHANGED <<pending, callState, settledInit>>
    BY <1>1, <1>6
  <2>2. TypeOK'
    BY <1>2, <1>3, <2>1 DEF IInv, TypeOK
  <2>3. (Numbered /\ PendingIsServed /\ InitShape)'
    BY <1>2, <1>3, <2>1 DEF IInv, Numbered, PendingIsServed, InitShape
  <2>4. (CallShape /\ CallIsTracked /\ SentToInitialized)'
    BY <1>2, <2>1 DEF IInv, CallShape, CallIsTracked, SentToInitialized
  <2> QED BY <1>4, <2>2, <2>3, <2>4 DEF IInv
<1> QED BY <1>5, <1>6

\* Disposal rejects everything in flight.
LEMMA DisposeStep ==
    ASSUME IInv, Dispose
    PROVE  IInv'
<1>1. /\ disposed' = TRUE /\ attached' = FALSE /\ SettleRequests(pending, "disposed")
      /\ disposal' \in {"waiting", "done"}
      /\ UNCHANGED <<generation, restarts, nextId, owner, sentTo, initialized, initializing,
                     awaits, aborted, processVars>>
  BY DEF Dispose
<1>2. "disposed" \in Outcomes
  BY DEF Outcomes
<1>3. /\ pending' \subseteq RequestIds /\ Cardinality(pending') <= MaxInFlight
      /\ settledInit' \subseteq [id : RequestIds, outcome : Outcomes]
      /\ callState' \in [Calls -> {"idle", "initializing", "resumed", "sent"} \union Outcomes]
      /\ Numbered' /\ PendingIsServed' /\ InitShape' /\ CallShape' /\ CallIsTracked'
      /\ SentToInitialized'
  BY <1>1, <1>2, SettleStep DEF processVars
<1>4. TypeOK'
  <2>1. disposed' \in BOOLEAN /\ attached' \in BOOLEAN
    BY <1>1, Zenon
  <2> QED BY <1>1, <1>3, <2>1 DEF IInv, TypeOK, processVars
<1>5. RestartShape'
  BY <1>1 DEF IInv, RestartShape
<1> QED BY <1>3, <1>4, <1>5 DEF IInv

\* An abort takes the call's own request out of the table, and no other.
LEMMA AbortStep ==
    ASSUME IInv, NEW c \in Calls, Abort(c)
    PROVE  IInv'
<1>1. /\ aborted' = aborted \union {c}
      /\ UNCHANGED <<generation, attached, restarts, disposed, disposal, nextId, owner, sentTo,
                     initialized, initializing, awaits, settledInit, processVars>>
  BY DEF Abort
<1>2. /\ pending' = {i \in pending : owner[i] # c}
      /\ IF callState[c] = "sent" THEN callState' = [callState EXCEPT ![c] = "aborted"]
         ELSE callState' = callState
  <2>1. CASE callState[c] = "sent"
    BY <2>1 DEF Abort, Settle
  <2>2. CASE callState[c] # "sent"
    <3>1. pending' = pending /\ callState' = callState
      BY <2>2 DEF Abort
    <3>2. \A i \in pending : owner[i] # c
      BY <2>2 DEF IInv, CallShape
    <3> QED BY <2>2, <3>1, <3>2
  <2> QED BY <2>1, <2>2
<1>3. TypeOK'
  <2>1. pending' \in SUBSET pending
    BY <1>2
  <2>2. pending' \subseteq RequestIds /\ Cardinality(pending') <= MaxInFlight
    BY <2>1, PendingFinite DEF IInv, TypeOK
  <2> QED BY <1>1, <1>2, <2>2 DEF IInv, TypeOK, processVars, Outcomes
<1>4. (Numbered /\ RestartShape /\ PendingIsServed /\ SentToInitialized)'
  BY <1>1, <1>2 DEF IInv, Numbered, RestartShape, PendingIsServed, SentToInitialized, processVars
<1>5. InitShape'
  BY <1>1, <1>2, ClientAssumption DEF IInv, InitShape, processVars
<1>6. CallShape'
  BY <1>1, <1>2 DEF IInv, CallShape, TypeOK
<1>7. CallIsTracked'
  BY <1>1, <1>2, ClientAssumption DEF IInv, CallIsTracked, CallShape, TypeOK
<1> QED BY <1>3, <1>4, <1>5, <1>6, <1>7 DEF IInv

\* What the processes do, and the timer of disposal.
LEMMA ProcessStepInv ==
    ASSUME IInv, \/ DisposeTimeout
                 \/ \E i \in unanswered : ProcessAnswers(i)
                 \/ \E g \in Nat : ProcessEnds(g)
    PROVE  IInv'
<1>1. CASE DisposeTimeout
  BY <1>1 DEF DisposeTimeout, sessionVars, IInv, TypeOK, Numbered, RestartShape, PendingIsServed,
     InitShape, CallShape, CallIsTracked, SentToInitialized
<1>2. ASSUME NEW i \in unanswered, ProcessAnswers(i) PROVE IInv'
  <2>1. UNCHANGED <<transportVars, sessionVars, alive, killed, exits>>
        /\ unanswered' = unanswered \ {i}
    BY <1>2 DEF ProcessAnswers
  <2>2. PICK o \in {"ok", "error"} :
          /\ replies' = replies \union {[id |-> i, outcome |-> o]}
          /\ ready' = IF owner[i] = Initialize /\ o = "ok" THEN ready \union {sentTo[i]} ELSE ready
    BY <1>2 DEF ProcessAnswers
  <2>3. i \in RequestIds /\ sentTo[i] \in Nat /\ i < nextId
    BY DEF IInv, TypeOK, Numbered
  <2>4. TypeOK'
    <3>1. ready' \subseteq Nat
      BY <2>2, <2>3 DEF IInv, TypeOK
    <3>2. replies' \subseteq [id : RequestIds, outcome : Outcomes]
      BY <2>2, <2>3 DEF IInv, TypeOK, Outcomes
    <3>3. unanswered' \subseteq RequestIds
      BY <2>1 DEF IInv, TypeOK
    <3> QED BY <2>1, <3>1, <3>2, <3>3 DEF IInv, TypeOK, transportVars, sessionVars
  <2>5. (Numbered /\ RestartShape /\ PendingIsServed)'
    BY <2>1, <2>2, <2>3 DEF IInv, Numbered, RestartShape, PendingIsServed, transportVars, sessionVars
  <2>6. InitShape'
    BY <2>1, <2>2 DEF IInv, InitShape, transportVars, sessionVars
  <2>7. (CallShape /\ CallIsTracked /\ SentToInitialized)'
    BY <2>1, <2>2 DEF IInv, CallShape, CallIsTracked, SentToInitialized, transportVars, sessionVars
  <2> QED BY <2>4, <2>5, <2>6, <2>7 DEF IInv
<1>3. ASSUME NEW g \in Nat, ProcessEnds(g) PROVE IInv'
  BY <1>3 DEF ProcessEnds, sessionVars, transportVars, IInv, TypeOK, Numbered, RestartShape,
     PendingIsServed, InitShape, CallShape, CallIsTracked, SentToInitialized
<1> QED BY <1>1, <1>2, <1>3

-----------------------------------------------------------------------------
\* The inductive invariant holds in every reachable state.
THEOREM ClientInvariance == Spec => []IInv
<1>1. Init => IInv
  <2> SUFFICES ASSUME Init PROVE IInv
    OBVIOUS
  <2>1. TypeOK
    <3>1. Cardinality(pending) <= MaxInFlight
      BY FS_EmptySet, ClientAssumption DEF Init
    <3>2. attached \in BOOLEAN /\ disposed \in BOOLEAN
      BY Zenon DEF Init
    <3> QED BY <3>1, <3>2, ClientAssumption DEF Init, TypeOK, RequestIds
  <2>2. Numbered /\ RestartShape /\ PendingIsServed /\ InitShape
    BY ClientAssumption DEF Init, Numbered, RestartShape, PendingIsServed, InitShape, RequestIds
  <2>3. CallShape /\ CallIsTracked /\ SentToInitialized
    BY DEF Init, CallShape, CallIsTracked, SentToInitialized
  <2> QED BY <2>1, <2>2, <2>3 DEF IInv
<1>2. IInv /\ [Next]_vars => IInv'
  <2> SUFFICES ASSUME IInv, [Next]_vars PROVE IInv'
    OBVIOUS
  <2>1. CASE UNCHANGED vars
    BY <2>1 DEF vars, transportVars, sessionVars, processVars, IInv, TypeOK, Numbered, RestartShape,
       PendingIsServed, InitShape, CallShape, CallIsTracked, SentToInitialized
  <2>2. CASE ClientStep
    BY <2>2, ResumeStep, InitializeSettledStep, ReplyStep, GoneStep, ProcessStepInv DEF ClientStep
  <2>3. CASE ProcessStep
    <3>1. \A i \in unanswered : sentTo[i] \in Nat
      BY DEF IInv, TypeOK
    <3>2. killed \subseteq Nat
      BY DEF IInv, TypeOK
    <3> QED BY <2>3, <3>1, <3>2, ProcessStepInv DEF ProcessStep
  <2>4. CASE Environment
    <3>1. alive \subseteq Nat
      BY DEF IInv, TypeOK
    <3> QED BY <2>4, <3>1, CallStep, AbortStep, DisposeStep, GoneStep, ProcessStepInv DEF Environment
  <2> QED BY <2>1, <2>2, <2>3, <2>4 DEF Next, Idle
<1> QED BY <1>1, <1>2, PTL DEF Spec

\* The client's state is well typed, and never more than `maxInFlight` requests
\* wait, those of `#initialize` included, although it does not ask.
THEOREM ClientTypes == Spec => []TypeOK
<1>1. IInv => TypeOK
  BY DEF IInv
<1> QED BY <1>1, ClientInvariance, PTL

\* No request outlives the process it was written to.
THEOREM RequestsAreServed == Spec => []PendingIsServed
<1>1. IInv => PendingIsServed
  BY DEF IInv
<1> QED BY <1>1, ClientInvariance, PTL

\* A call is only ever written to a process that answered its `initialize`.
THEOREM CallsReachInitialized == Spec => []SentToInitialized
<1>1. IInv => SentToInitialized
  BY DEF IInv
<1> QED BY <1>1, ClientInvariance, PTL

\* No more processes than `maxRestarts` and one are ever spawned.
THEOREM RestartsAreBounded == Spec => []RestartBound
<1>1. IInv => RestartBound
  BY DEF IInv, RestartShape, RestartBound
<1> QED BY <1>1, ClientInvariance, PTL

\* Whoever waits, waits for something that is still to come.
THEOREM CallsAreTracked == Spec => []CallIsTracked
<1>1. IInv => CallIsTracked
  BY DEF IInv
<1> QED BY <1>1, ClientInvariance, PTL

\* A call aborted before it was settled never succeeds.
THEOREM AbortedCalls == Spec => AbortedNeverSucceeds
<1>1. IInv /\ [Next]_vars =>
        [\A c \in aborted : callState[c] # "ok" => callState'[c] # "ok"]_vars
  <2> SUFFICES ASSUME IInv, Next, NEW c \in aborted, callState[c] # "ok"
               PROVE  callState'[c] # "ok"
    OBVIOUS
  <2>1. c \in Calls /\ c # Initialize /\ \A i \in pending : owner[i] # c
    BY ClientAssumption DEF IInv, TypeOK, CallShape
  <2>2. ASSUME NEW S \in SUBSET pending, NEW o, SettleRequests(S, o)
        PROVE  callState'[c] = callState[c]
    BY <2>1, <2>2 DEF SettleRequests
  <2>3. ASSUME NEW d \in Calls, NEW o, o # "ok", Settle(d, o)
        PROVE  callState'[c] # "ok"
    BY <2>1, <2>3 DEF Settle, IInv, TypeOK
  <2>4. ASSUME NEW d \in Calls, Call(d) \/ Resume(d) PROVE callState'[c] # "ok"
    <3>1. \E o : o # "ok" /\ Settle(d, o)
      BY <2>4 DEF Call, Resume, ReadyFails, ReadyError, EnterInitialize, Refusal
    <3> QED BY <3>1, <2>3
  <2>5. ASSUME NEW d \in Calls, Abort(d) PROVE callState'[c] # "ok"
    BY <2>1, <2>3, <2>5 DEF Abort
  <2>6. CASE InitializeSettled
    BY <2>1, <2>6 DEF InitializeSettled
  <2>7. CASE Dispose
    BY <2>2, <2>7 DEF Dispose
  <2>8. CASE ReceiveReply
    <3>1. PICK r \in replies : \/ SettleRequests({r.id} \intersect pending, r.outcome)
                               \/ UNCHANGED callState
      BY <2>8 DEF ReceiveReply
    <3>2. {r.id} \intersect pending \in SUBSET pending
      OBVIOUS
    <3> QED BY <2>2, <3>1, <3>2
  <2>9. ASSUME NEW g, NEW o, Crash(g, o) PROVE callState'[c] # "ok"
    BY <2>2, <2>9 DEF Crash
  <2>10. CASE ReceiveGarbage \/ StreamError \/ (\E g \in exits : ChildGone(g))
    BY <2>9, <2>10 DEF ReceiveGarbage, StreamError, ChildGone
  <2>11. CASE \/ DisposeTimeout \/ ProcessStep \/ Idle
             \/ \E g \in alive : ProcessEnds(g)
    BY <2>11 DEF DisposeTimeout, ProcessStep, ProcessAnswers, ProcessEnds, Idle, sessionVars, vars
  <2> QED BY <2>4, <2>5, <2>6, <2>7, <2>8, <2>10, <2>11 DEF Next, ClientStep, Environment
<1> QED BY <1>1, ClientInvariance, PTL DEF Spec, AbortedNeverSucceeds
=============================================================================
