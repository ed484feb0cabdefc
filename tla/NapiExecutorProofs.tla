------------------------- MODULE NapiExecutorProofs -------------------------
(***************************************************************************)
(* Safety of the addon's executor for any set of jobs and any capacity.    *)
(*                                                                         *)
(* The argument: what `worker_loop` holds at each of its program points    *)
(* (WorkerShape) and what `shutdown` has done at each of its own           *)
(* (ShutdownShape) make the type invariant, the ownership of Deferreds and *)
(* the cancellation of the running invocation inductive together.          *)
(***************************************************************************)
EXTENDS NapiExecutor, TLAPS

\* What the worker holds at each program point of `worker_loop`.
WorkerShape ==
    /\ worker \in {"recv", "exited"} => hand = {}
    /\ worker \in {"classify", "release", "settle", "deliver"} => result # "none"
    /\ worker \in {"execute", "classify", "release"} => active = hand
    /\ worker = "exited" => queue = <<>>

\* What `shutdown` has established at each of its program points.
ShutdownShape ==
    /\ closing <=> js # "idle"
    /\ js = "done" => worker = "exited"

\* The inductive invariant.
IInv ==
    /\ TypeOK
    /\ OneOwner
    /\ WorkerShape
    /\ ShutdownShape
    /\ ShutdownCancelsRunning

-----------------------------------------------------------------------------
\* Type correctness, with the channel's bound, is preserved by every step.
LEMMA TypeStep ==
    ASSUME IInv, [Next]_vars
    PROVE  TypeOK'
<1> USE QueueCapacityAssumption DEF IInv, TypeOK, Phases, Settled
<1>1. CASE UNCHANGED vars
  BY <1>1 DEF vars
<1>2. ASSUME NEW j \in Jobs, Submit(j) PROVE TypeOK'
  <2>1. SubmitOutcome \in {"closed", "full", "queued"}
    BY DEF SubmitOutcome
  <2>2. SubmitOutcome = "queued" => Len(queue) < QueueCapacity
    BY DEF SubmitOutcome
  <2>3. queue' \in Seq(Jobs) /\ Len(queue') <= QueueCapacity
    BY <1>2, <2>2 DEF Submit
  <2> QED BY <1>2, <2>1, <2>3 DEF Submit, workerVars
<1>3. ASSUME NEW j \in Jobs, Abort(j) PROVE TypeOK'
  BY <1>3 DEF Abort, workerVars
<1>4. CASE ShutdownSwap
  BY <1>4 DEF ShutdownSwap, workerVars
<1>5. CASE ShutdownCancel
  BY <1>5 DEF ShutdownCancel, workerVars
<1>6. CASE ShutdownClose
  BY <1>6 DEF ShutdownClose, workerVars
<1>7. CASE ShutdownJoin
  BY <1>7 DEF ShutdownJoin, workerVars
<1>8. CASE WorkerRecv
  BY <1>8 DEF WorkerRecv
<1>9. CASE WorkerExit
  BY <1>9 DEF WorkerExit
<1>10. CASE WorkerClaim
  BY <1>10 DEF WorkerClaim, NextJob
<1>11. CASE WorkerExecute
  BY <1>11 DEF WorkerExecute
<1>12. CASE WorkerPanic
  BY <1>12 DEF WorkerPanic
<1>13. CASE WorkerClassify
  BY <1>13 DEF WorkerClassify
<1>14. CASE WorkerRelease
  BY <1>14 DEF WorkerRelease
<1>15. CASE WorkerSettleCheck
  BY <1>15 DEF WorkerSettleCheck, NextJob
<1>16. CASE WorkerDeliver
  BY <1>16 DEF WorkerDeliver, NextJob, WorkerShape
<1> QED
  BY <1>1, <1>2, <1>3, <1>4, <1>5, <1>6, <1>7, <1>8, <1>9, <1>10, <1>11, <1>12,
     <1>13, <1>14, <1>15, <1>16 DEF Next, JsStep, WorkerStep

\* Taking the head of the channel moves one owner, from the channel to the hand.
LEMMA RecvOwner ==
    ASSUME IInv, WorkerRecv
    PROVE  OneOwner'
<1>1. queue \in Seq(Jobs) /\ queue # <<>> /\ Len(queue) \in Nat /\ Len(queue) > 0
  BY DEF IInv, TypeOK, WorkerRecv
<1>2. Head(queue) = queue[1] /\ Head(queue) \in Jobs
  BY <1>1
<1>3. Len(queue') = Len(queue) - 1 /\ \A i \in 1..Len(queue') : queue'[i] = queue[i + 1]
  BY <1>1 DEF WorkerRecv
<1>4. hand = {} /\ hand' = {queue[1]}
  BY <1>2 DEF IInv, WorkerShape, WorkerRecv
<1>5. \A j \in Jobs : phase'[j] = IF j = queue[1] THEN "held" ELSE phase[j]
  BY <1>2 DEF IInv, TypeOK, WorkerRecv
<1>6. \A i, k \in 1..Len(queue') : queue'[i] = queue'[k] => i = k
  <2> SUFFICES ASSUME NEW i \in 1..Len(queue'), NEW k \in 1..Len(queue'),
                      queue'[i] = queue'[k]
               PROVE  i = k
    OBVIOUS
  <2>1. i + 1 \in 1..Len(queue) /\ k + 1 \in 1..Len(queue) /\ queue[i + 1] = queue[k + 1]
    BY <1>1, <1>3
  <2>2. i + 1 = k + 1
    BY <2>1 DEF IInv, OneOwner
  <2> QED BY <2>2, <1>1, <1>3
<1>7. \A j \in Jobs : phase'[j] = "queued" <=> \E i \in 1..Len(queue') : queue'[i] = j
  <2> TAKE j \in Jobs
  <2>1. CASE j = queue[1]
    <3>1. \A i \in 1..Len(queue') : queue'[i] # queue[1]
      BY <1>1, <1>3 DEF IInv, OneOwner
    <3> QED BY <2>1, <3>1, <1>5
  <2>2. CASE j # queue[1]
    <3>1. ASSUME phase[j] = "queued" PROVE \E i \in 1..Len(queue') : queue'[i] = j
      <4>1. PICK k \in 1..Len(queue) : queue[k] = j
        BY <3>1 DEF IInv, OneOwner
      <4>2. k # 1 /\ k - 1 \in 1..Len(queue')
        BY <4>1, <2>2, <1>1, <1>3
      <4>3. queue'[k - 1] = j
        BY <4>1, <4>2, <1>1, <1>3
      <4> QED BY <4>2, <4>3
    <3>2. ASSUME NEW i \in 1..Len(queue'), queue'[i] = j PROVE phase[j] = "queued"
      <4>1. i + 1 \in 1..Len(queue) /\ queue[i + 1] = j
        BY <3>2, <1>1, <1>3
      <4> QED BY <4>1 DEF IInv, OneOwner
    <3> QED BY <2>2, <3>1, <3>2, <1>5
  <2> QED BY <2>1, <2>2
<1>8. \A j \in Jobs : phase'[j] = "held" <=> j \in hand'
  BY <1>4, <1>5 DEF IInv, OneOwner
<1>9. \E S \in {{}} \union {{j} : j \in Jobs} : hand' = S
  BY <1>2, <1>4
<1> QED BY <1>6, <1>7, <1>8, <1>9 DEF OneOwner

\* Accepting a job gives it to the channel, behind those that already wait.
LEMMA SubmitOwner ==
    ASSUME IInv, NEW j \in Jobs, Submit(j)
    PROVE  OneOwner'
<1>1. queue \in Seq(Jobs) /\ Len(queue) \in Nat /\ hand' = hand
  BY DEF IInv, TypeOK, Submit, workerVars
<1>2. SubmitOutcome \in {"closed", "full", "queued"}
  BY DEF SubmitOutcome
<1>3. \A k \in Jobs : phase'[k] = IF k = j THEN (IF closing THEN "dropped" ELSE SubmitOutcome)
                                           ELSE phase[k]
  BY DEF IInv, TypeOK, Submit
<1>4. phase[j] = "unsent" /\ j \notin hand /\ \A i \in 1..Len(queue) : queue[i] # j
  BY DEF IInv, OneOwner, Submit
<1>5. CASE ~closing /\ SubmitOutcome = "queued"
  <2>1. queue' = Append(queue, j)
    BY <1>5 DEF Submit
  <2>2. /\ Len(queue') = Len(queue) + 1
        /\ queue'[Len(queue) + 1] = j
        /\ \A i \in 1..Len(queue) : queue'[i] = queue[i]
    BY <1>1, <2>1
  <2>3. \A i, k \in 1..Len(queue') : queue'[i] = queue'[k] => i = k
    BY <1>1, <1>4, <2>2 DEF IInv, OneOwner
  <2>4. \A k \in Jobs : phase'[k] = "queued" <=> \E i \in 1..Len(queue') : queue'[i] = k
    BY <1>1, <1>3, <1>4, <1>5, <2>2 DEF IInv, OneOwner
  <2>5. \A k \in Jobs : phase'[k] = "held" <=> k \in hand'
    BY <1>1, <1>3, <1>4, <1>5 DEF IInv, OneOwner
  <2> QED BY <2>3, <2>4, <2>5, <1>1 DEF IInv, OneOwner
<1>6. CASE closing \/ SubmitOutcome # "queued"
  <2>1. queue' = queue /\ phase'[j] \notin {"queued", "held"}
    BY <1>2, <1>3, <1>6 DEF Submit
  <2> QED BY <2>1, <1>1, <1>3, <1>4 DEF IInv, OneOwner
<1> QED BY <1>5, <1>6

\* Every Deferred keeps exactly one owner along every step.
LEMMA OwnerStep ==
    ASSUME IInv, [Next]_vars
    PROVE  OneOwner'
<1> USE DEF IInv, OneOwner
<1>1. CASE UNCHANGED vars
  BY <1>1 DEF vars
<1>2. ASSUME NEW j \in Jobs, Submit(j) PROVE OneOwner'
  BY <1>2, SubmitOwner
<1>3. ASSUME NEW j \in Jobs, Abort(j) PROVE OneOwner'
  BY <1>3 DEF Abort, workerVars
<1>4. CASE ShutdownSwap \/ ShutdownCancel \/ ShutdownClose \/ ShutdownJoin
  BY <1>4 DEF ShutdownSwap, ShutdownCancel, ShutdownClose, ShutdownJoin, workerVars
<1>5. CASE WorkerRecv
  BY <1>5, RecvOwner
<1>6. CASE WorkerExit \/ WorkerExecute \/ WorkerClassify \/ WorkerRelease
  BY <1>6 DEF WorkerExit, WorkerExecute, WorkerClassify, WorkerRelease
<1>7. CASE WorkerClaim
  BY <1>7 DEF WorkerClaim, NextJob, TypeOK
<1>8. CASE WorkerPanic
  <2>1. Len(queue') = 0 /\ hand' = {}
    BY <1>8 DEF WorkerPanic
  <2>2. \A j \in Jobs : phase'[j] \notin {"queued", "held"}
    BY <1>8 DEF WorkerPanic, TypeOK
  <2>3. \A i \in 1..Len(queue') : FALSE
    BY <2>1
  <2>4. \E S \in {{}} \union {{j} : j \in Jobs} : hand' = S
    BY <2>1
  <2> QED BY <2>1, <2>2, <2>3, <2>4
<1>9. CASE WorkerSettleCheck
  BY <1>9 DEF WorkerSettleCheck, NextJob, TypeOK
<1>10. CASE WorkerDeliver
  <2>1. result \in {"resolved", "failed", "cancelled"}
    BY <1>10 DEF WorkerDeliver, WorkerShape, TypeOK
  <2>2. hand' = {} /\ queue' = queue
    BY <1>10 DEF WorkerDeliver, NextJob
  <2>3. \A j \in Jobs : phase'[j] = IF j \in hand THEN result ELSE phase[j]
    BY <1>10 DEF WorkerDeliver, TypeOK
  <2>4. \A j \in Jobs : phase'[j] = "queued" <=> \E i \in 1..Len(queue') : queue'[i] = j
    BY <2>1, <2>2, <2>3
  <2>5. \A j \in Jobs : phase'[j] = "held" <=> j \in hand'
    BY <2>1, <2>2, <2>3
  <2>6. \A i, k \in 1..Len(queue') : queue'[i] = queue'[k] => i = k
    BY <2>2
  <2>7. \E S \in {{}} \union {{j} : j \in Jobs} : hand' = S
    BY <2>2
  <2> HIDE DEF IInv
  <2> QED BY <2>4, <2>5, <2>6, <2>7
<1> QED
  BY <1>1, <1>2, <1>3, <1>4, <1>5, <1>6, <1>7, <1>8, <1>9, <1>10
     DEF Next, JsStep, WorkerStep

\* The shapes of the two threads, and with them the cancellation of what runs.
LEMMA ShapeStep ==
    ASSUME IInv, [Next]_vars
    PROVE  (WorkerShape /\ ShutdownShape /\ ShutdownCancelsRunning)'
<1> USE DEF IInv, WorkerShape, ShutdownShape, ShutdownCancelsRunning, TypeOK
<1>1. CASE UNCHANGED vars
  BY <1>1 DEF vars
<1>2. ASSUME NEW j \in Jobs, Submit(j)
      PROVE  (WorkerShape /\ ShutdownShape /\ ShutdownCancelsRunning)'
  BY <1>2 DEF Submit, SubmitOutcome, workerVars
<1>3. ASSUME NEW j \in Jobs, Abort(j)
      PROVE  (WorkerShape /\ ShutdownShape /\ ShutdownCancelsRunning)'
  BY <1>3 DEF Abort, workerVars
<1>4. CASE ShutdownSwap
  BY <1>4 DEF ShutdownSwap, workerVars
<1>5. CASE ShutdownCancel
  BY <1>5 DEF ShutdownCancel, workerVars
<1>6. CASE ShutdownClose
  BY <1>6 DEF ShutdownClose, workerVars
<1>7. CASE ShutdownJoin
  BY <1>7 DEF ShutdownJoin, workerVars
<1>8. CASE WorkerRecv
  BY <1>8 DEF WorkerRecv
<1>9. CASE WorkerExit
  BY <1>9 DEF WorkerExit
<1>10. CASE WorkerClaim
  BY <1>10 DEF WorkerClaim, NextJob
<1>11. CASE WorkerExecute
  BY <1>11 DEF WorkerExecute
<1>12. CASE WorkerPanic
  BY <1>12 DEF WorkerPanic
<1>13. CASE WorkerClassify
  BY <1>13 DEF WorkerClassify
<1>14. CASE WorkerRelease
  BY <1>14 DEF WorkerRelease
<1>15. CASE WorkerSettleCheck
  BY <1>15 DEF WorkerSettleCheck, NextJob
<1>16. CASE WorkerDeliver
  BY <1>16 DEF WorkerDeliver, NextJob
<1> QED
  BY <1>1, <1>2, <1>3, <1>4, <1>5, <1>6, <1>7, <1>8, <1>9, <1>10, <1>11, <1>12,
     <1>13, <1>14, <1>15, <1>16 DEF Next, JsStep, WorkerStep

-----------------------------------------------------------------------------
\* The inductive invariant holds in every reachable state.
THEOREM Invariance == Spec => []IInv
<1>1. Init => IInv
  <2> SUFFICES ASSUME Init PROVE IInv
    OBVIOUS
  <2> USE DEF Init
  <2>1. TypeOK
    <3>1. queue \in Seq(Jobs) /\ Len(queue) <= QueueCapacity
      BY QueueCapacityAssumption
    <3>2. phase \in [Jobs -> Phases]
      BY DEF Phases
    <3>3. senderOpen \in BOOLEAN /\ closing \in BOOLEAN
      OBVIOUS
    <3> HIDE DEF Init
    <3>4. tokens = {} /\ active = {} /\ hand = {} /\ worker = "recv" /\ result = "none" /\ js = "idle"
      BY DEF Init
    <3> QED BY <3>1, <3>2, <3>3, <3>4 DEF TypeOK
  <2>2. OneOwner
    <3>1. Len(queue) = 0
      OBVIOUS
    <3>2. \A i \in 1..Len(queue) : FALSE
      BY <3>1
    <3>3. \E S \in {{}} \union {{j} : j \in Jobs} : hand = S
      OBVIOUS
    <3> QED BY <3>2, <3>3 DEF OneOwner
  <2>3. WorkerShape /\ ShutdownShape /\ ShutdownCancelsRunning
    BY DEF WorkerShape, ShutdownShape, ShutdownCancelsRunning
  <2> QED BY <2>1, <2>2, <2>3 DEF IInv
<1>2. IInv /\ [Next]_vars => IInv'
  BY TypeStep, OwnerStep, ShapeStep DEF IInv
<1> QED BY <1>1, <1>2, PTL DEF Spec

\* The executor's state stays well typed and its channel within its bound.
THEOREM TypeCorrect == Spec => []TypeOK
<1>1. IInv => TypeOK
  BY DEF IInv
<1> QED BY <1>1, Invariance, PTL

\* Every accepted Deferred has exactly one owner.
THEOREM OwnerCorrect == Spec => []OneOwner
<1>1. IInv => OneOwner
  BY DEF IInv
<1> QED BY <1>1, Invariance, PTL

\* An invocation that outlives the start of `shutdown` has been cancelled.
THEOREM ShutdownCancels == Spec => []ShutdownCancelsRunning
<1>1. IInv => ShutdownCancelsRunning
  BY DEF IInv
<1> QED BY <1>1, Invariance, PTL

\* `shutdown` returns only when no Deferred is left behind.
THEOREM ShutdownReleases == Spec => []ShutdownReleasesAll
<1>1. IInv => ShutdownReleasesAll
  BY DEF IInv, TypeOK, OneOwner, WorkerShape, ShutdownShape, ShutdownReleasesAll
<1> QED BY <1>1, Invariance, PTL

\* A settled or dropped promise never changes again.
THEOREM FinalStates == Spec => FinalIsFinal
<1>1. IInv /\ [Next]_vars =>
        [\A j \in Jobs : phase[j] \in Settled \union {"dropped"} => phase'[j] = phase[j]]_vars
  <2> SUFFICES ASSUME IInv, Next, NEW j \in Jobs, phase[j] \in Settled \union {"dropped"}
               PROVE  phase'[j] = phase[j]
    OBVIOUS
  <2> USE DEF IInv, TypeOK, OneOwner, Settled
  <2>1. j \notin hand /\ phase[j] \notin {"queued", "held", "unsent"}
    OBVIOUS
  <2>2. CASE JsStep
    BY <2>1, <2>2 DEF JsStep, Submit, Abort, ShutdownSwap, ShutdownCancel,
       ShutdownClose, ShutdownJoin
  <2>3. CASE WorkerRecv
    <3>1. Head(queue) = queue[1] /\ 1 \in 1..Len(queue) /\ phase[Head(queue)] = "queued"
      BY <2>3 DEF WorkerRecv
    <3> QED BY <2>1, <2>3, <3>1 DEF WorkerRecv
  <2>4. CASE WorkerStep /\ ~WorkerRecv
    BY <2>1, <2>4 DEF WorkerStep, WorkerExit, WorkerClaim, WorkerExecute, WorkerPanic,
       WorkerClassify, WorkerRelease, WorkerSettleCheck, WorkerDeliver
  <2> QED BY <2>2, <2>3, <2>4 DEF Next
<1> QED BY <1>1, Invariance, PTL DEF Spec, FinalIsFinal

\* The job's token is cancelled and the worker has not yet read it as unset.
Doomed(j) ==
    /\ j \in tokens
    /\ phase[j] \notin {"unsent", "resolved", "failed"}
    /\ (phase[j] = "held" /\ worker \in {"release", "settle", "deliver"}) => result = "cancelled"

\* Doomed is stable: only the read of the token in `worker_loop` decides.
LEMMA DoomedStable ==
    ASSUME IInv, [Next]_vars, NEW j \in Jobs, Doomed(j)
    PROVE  Doomed(j)'
<1> USE DEF IInv, TypeOK, OneOwner, Doomed
<1>1. CASE UNCHANGED vars
  BY <1>1 DEF vars
<1>2. CASE JsStep
  BY <1>2 DEF JsStep, Submit, SubmitOutcome, Abort, ShutdownSwap, ShutdownCancel,
     ShutdownClose, ShutdownJoin, workerVars
<1>3. CASE WorkerRecv
  BY <1>3 DEF WorkerRecv
<1>4. CASE WorkerExit \/ WorkerExecute \/ WorkerPanic \/ WorkerRelease
  BY <1>4 DEF WorkerExit, WorkerExecute, WorkerPanic, WorkerRelease
<1>5. CASE WorkerClassify
  <2>1. phase[j] = "held" => hand = {j}
    OBVIOUS
  <2> QED BY <1>5, <2>1 DEF WorkerClassify
<1>6. CASE WorkerClaim \/ WorkerSettleCheck
  BY <1>6 DEF WorkerClaim, WorkerSettleCheck, NextJob
<1>7. CASE WorkerDeliver
  BY <1>7 DEF WorkerDeliver, NextJob
<1> QED
  BY <1>1, <1>2, <1>3, <1>4, <1>5, <1>6, <1>7 DEF Next, WorkerStep

\* A job aborted while it waits is never reported as completed.
THEOREM AbortedJobs == Spec => AbortedNeverResolves
<1> SUFFICES ASSUME NEW j \in Jobs
             PROVE  Spec => [](AbortedWaiting(j) => [](phase[j] \notin {"resolved", "failed"}))
  BY DEF AbortedNeverResolves
<1>1. AbortedWaiting(j) => Doomed(j)
  BY DEF AbortedWaiting, Doomed
<1>2. IInv /\ [Next]_vars /\ Doomed(j) => Doomed(j)'
  BY DoomedStable
<1>3. Doomed(j) => phase[j] \notin {"resolved", "failed"}
  BY DEF Doomed
<1> QED BY <1>1, <1>2, <1>3, Invariance, PTL DEF Spec
=============================================================================
