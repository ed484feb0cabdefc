---------------------------- MODULE NapiExecutor ----------------------------
(***************************************************************************)
(* The in-process executor of the Node-API addon                           *)
(* (crates/bamts-napi/src/lib.rs): the JavaScript thread submits jobs to a *)
(* bounded channel, one worker thread runs them one at a time, and the     *)
(* environment's cleanup hook shuts the executor down.                     *)
(*                                                                         *)
(* Two threads interleave.  The JavaScript thread runs `submit`, the       *)
(* abort listeners and `shutdown`; `shutdown` blocks it in `join`, so none *)
(* of the others runs once `shutdown` has begun.  The worker runs          *)
(* `worker_loop`.  Every critical section of a mutex, every atomic access  *)
(* and every channel operation is one step.                                *)
(***************************************************************************)
EXTENDS Integers, Sequences, FiniteSets

CONSTANTS
    Jobs,           \* the calls of `run` that may be made
    QueueCapacity,  \* QUEUE_CAPACITY, the bound of the sync_channel
    MayPanic        \* whether `execute` may unwind the worker thread

ASSUME QueueCapacityAssumption == QueueCapacity \in Nat \ {0}
ASSUME MayPanicAssumption == MayPanic \in BOOLEAN

VARIABLES
    phase,      \* where each job, and with it its Deferred, is
    tokens,     \* the jobs whose CancellationToken is cancelled
    queue,      \* the jobs inside the channel, oldest first
    senderOpen, \* `sender` is Some
    closing,    \* `Shared::closing`
    active,     \* `Shared::active`: the set of at most one claimed job
    worker,     \* the program point of `worker_loop`
    hand,       \* the set of at most one job `worker_loop` has received
    result,     \* the local `result` of `worker_loop`
    js          \* the program point of `shutdown` on the JavaScript thread

workerVars == <<worker, hand, result>>
vars == <<phase, tokens, queue, senderOpen, closing, active, worker, hand,
          result, js>>

Settled == {"resolved", "failed", "cancelled", "full", "closed"}
Phases == {"unsent", "queued", "held", "dropped"} \union Settled

Init ==
    /\ phase = [j \in Jobs |-> "unsent"]
    /\ tokens = {}
    /\ queue = <<>>
    /\ senderOpen = TRUE
    /\ closing = FALSE
    /\ active = {}
    /\ worker = "recv"
    /\ hand = {}
    /\ result = "none"
    /\ js = "idle"

-----------------------------------------------------------------------------
(***************************************************************************)
(* The JavaScript thread.                                                  *)
(***************************************************************************)

\* What `try_send` answers: the receiver lives until the worker's thread ends.
SubmitOutcome ==
    CASE ~senderOpen \/ worker = "exited" -> "closed"
      [] senderOpen /\ worker # "exited" /\ Len(queue) >= QueueCapacity -> "full"
      [] OTHER -> "queued"

\* `run` followed by `Executor::submit`.  A job submitted while closing is
\* dropped and its promise is left unsettled.
Submit(j) ==
    /\ js \in {"idle", "done"}
    /\ phase[j] = "unsent"
    /\ phase' = [phase EXCEPT ![j] = IF closing THEN "dropped" ELSE SubmitOutcome]
    /\ queue' = IF ~closing /\ SubmitOutcome = "queued" THEN Append(queue, j) ELSE queue
    /\ UNCHANGED <<tokens, senderOpen, closing, active, js>> /\ UNCHANGED workerVars

\* The abort listener `run` installs: it may fire at any time after the call.
Abort(j) ==
    /\ js \in {"idle", "done"}
    /\ phase[j] # "unsent"
    /\ j \notin tokens
    /\ tokens' = tokens \union {j}
    /\ UNCHANGED <<phase, queue, senderOpen, closing, active, js>> /\ UNCHANGED workerVars

\* `shutdown`: the swap that lets only the first caller through.  The cleanup
\* hook, the instance-data finalizer and Drop all call it.
ShutdownSwap ==
    /\ js \in {"idle", "done"}
    /\ closing' = TRUE
    /\ js' = IF closing THEN js ELSE "cancel"
    /\ UNCHANGED <<phase, tokens, queue, senderOpen, active>> /\ UNCHANGED workerVars

\* `shutdown`: the token of the active invocation, under the active lock.
ShutdownCancel ==
    /\ js = "cancel"
    /\ tokens' = tokens \union active
    /\ js' = "close"
    /\ UNCHANGED <<phase, queue, senderOpen, closing, active>> /\ UNCHANGED workerVars

\* Fault: the sender is left in place.
ShutdownClose_KeepSender ==
    /\ js = "close"
    /\ senderOpen' = senderOpen
    /\ js' = "join"
    /\ UNCHANGED <<phase, tokens, queue, closing, active>> /\ UNCHANGED workerVars

\* `shutdown`: the sender is taken and dropped, which disconnects the channel.
ShutdownClose ==
    /\ js = "close"
    /\ senderOpen' = FALSE
    /\ js' = "join"
    /\ UNCHANGED <<phase, tokens, queue, closing, active>> /\ UNCHANGED workerVars

\* `shutdown`: `worker.join()` returns once the worker's thread has ended.
ShutdownJoin ==
    /\ js = "join"
    /\ worker = "exited"
    /\ js' = "done"
    /\ UNCHANGED <<phase, tokens, queue, senderOpen, closing, active>> /\ UNCHANGED workerVars

-----------------------------------------------------------------------------
(***************************************************************************)
(* The worker thread.                                                      *)
(***************************************************************************)

\* `receiver.recv()` returns a job.
WorkerRecv ==
    /\ worker = "recv"
    /\ queue # <<>>
    /\ hand' = {Head(queue)}
    /\ queue' = Tail(queue)
    /\ phase' = [phase EXCEPT ![Head(queue)] = "held"]
    /\ worker' = "claim"
    /\ UNCHANGED <<tokens, senderOpen, closing, active, result, js>>

\* `receiver.recv()` fails: the channel is empty and has no sender.
WorkerExit ==
    /\ worker = "recv"
    /\ queue = <<>>
    /\ ~senderOpen
    /\ worker' = "exited"
    /\ UNCHANGED <<phase, tokens, queue, senderOpen, closing, active, hand, result, js>>

\* Back to the head of the loop with nothing in hand.
NextJob ==
    /\ hand' = {}
    /\ result' = "none"
    /\ worker' = "recv"

\* Fault: the job is claimed without reading `closing` under the lock.
WorkerClaim_Unchecked ==
    /\ worker = "claim"
    /\ active' = hand
    /\ worker' = "execute"
    /\ UNCHANGED <<phase, hand, result, tokens, queue, senderOpen, closing, js>>

\* The critical section that reads `closing` and sets `active`.
WorkerClaim ==
    /\ worker = "claim"
    /\ IF closing
       THEN /\ phase' = [j \in Jobs |-> IF j \in hand THEN "dropped" ELSE phase[j]]
            /\ active' = active
            /\ NextJob
       ELSE /\ active' = hand
            /\ worker' = "execute"
            /\ UNCHANGED <<phase, hand, result>>
    /\ UNCHANGED <<tokens, queue, senderOpen, closing, js>>

\* `execute` returns an outcome or an error of its own.
WorkerExecute ==
    /\ worker = "execute"
    /\ result' \in {"resolved", "failed"}
    /\ worker' = "classify"
    /\ UNCHANGED <<phase, tokens, queue, senderOpen, closing, active, hand, js>>

\* `execute` unwinds.  Nothing catches it: the thread ends, the Deferred in
\* hand and the channel with every job in it are dropped, `active` stays set.
WorkerPanic ==
    /\ MayPanic
    /\ worker = "execute"
    /\ phase' = [j \in Jobs |->
                    IF phase[j] \in {"queued", "held"} THEN "dropped" ELSE phase[j]]
    /\ queue' = <<>>
    /\ hand' = {}
    /\ worker' = "exited"
    /\ UNCHANGED <<tokens, senderOpen, closing, active, result, js>>

\* `token.is_cancelled()` replaces the result.
WorkerClassify ==
    /\ worker = "classify"
    /\ result' = IF hand \subseteq tokens THEN "cancelled" ELSE result
    /\ worker' = "release"
    /\ UNCHANGED <<phase, tokens, queue, senderOpen, closing, active, hand, js>>

\* `active.take()`.
WorkerRelease ==
    /\ worker = "release"
    /\ active' = {}
    /\ worker' = "settle"
    /\ UNCHANGED <<phase, tokens, queue, senderOpen, closing, hand, result, js>>

\* Fault: the Deferred is forgotten by the early `continue`.
WorkerSettleCheck_Leak ==
    /\ worker = "settle"
    /\ IF closing
       THEN NextJob /\ UNCHANGED phase
       ELSE /\ worker' = "deliver"
            /\ UNCHANGED <<phase, hand, result>>
    /\ UNCHANGED <<tokens, queue, senderOpen, closing, active, js>>

\* The last read of `closing`: the Deferred will be dropped, or settled.
WorkerSettleCheck ==
    /\ worker = "settle"
    /\ IF closing
       THEN /\ phase' = [j \in Jobs |-> IF j \in hand THEN "dropped" ELSE phase[j]]
            /\ NextJob
       ELSE /\ worker' = "deliver"
            /\ UNCHANGED <<phase, hand, result>>
    /\ UNCHANGED <<tokens, queue, senderOpen, closing, active, js>>

\* `deferred.resolve` or `deferred.reject`.
WorkerDeliver ==
    /\ worker = "deliver"
    /\ phase' = [j \in Jobs |-> IF j \in hand THEN result ELSE phase[j]]
    /\ NextJob
    /\ UNCHANGED <<tokens, queue, senderOpen, closing, active, js>>

-----------------------------------------------------------------------------
JsStep ==
    \/ \E j \in Jobs : Submit(j) \/ Abort(j)
    \/ ShutdownSwap
    \/ ShutdownCancel
    \/ ShutdownClose
    \/ ShutdownJoin

WorkerStep ==
    \/ WorkerRecv
    \/ WorkerExit
    \/ WorkerClaim
    \/ WorkerExecute
    \/ WorkerPanic
    \/ WorkerClassify
    \/ WorkerRelease
    \/ WorkerSettleCheck
    \/ WorkerDeliver

Next == JsStep \/ WorkerStep

Spec == Init /\ [][Next]_vars

\* The threads are scheduled, but an invocation that nobody cancels may run for
\* ever: only a cancelled `execute` is owed a return, which is what handing the
\* token to `cli_outcome_in_context_with_cancel` is for.
CancelledExecutionReturns == (hand \subseteq tokens) /\ WorkerExecute

WorkerBookkeeping ==
    \/ WorkerRecv \/ WorkerExit \/ WorkerClaim \/ WorkerClassify
    \/ WorkerRelease \/ WorkerSettleCheck \/ WorkerDeliver

LiveSpec ==
    /\ Spec
    /\ WF_vars(ShutdownCancel) /\ WF_vars(ShutdownClose) /\ WF_vars(ShutdownJoin)
    /\ WF_vars(WorkerBookkeeping)
    /\ WF_vars(CancelledExecutionReturns)

-----------------------------------------------------------------------------
(***************************************************************************)
(* Properties.                                                             *)
(***************************************************************************)

\* Types, and the channel's bound: never more than QUEUE_CAPACITY jobs wait.
TypeOK ==
    /\ phase \in [Jobs -> Phases]
    /\ tokens \subseteq Jobs
    /\ queue \in Seq(Jobs) /\ Len(queue) <= QueueCapacity
    /\ senderOpen \in BOOLEAN /\ closing \in BOOLEAN
    /\ active \subseteq Jobs /\ hand \subseteq Jobs
    /\ worker \in {"recv", "claim", "execute", "classify", "release", "settle",
                   "deliver", "exited"}
    /\ result \in {"none", "resolved", "failed", "cancelled"}
    /\ js \in {"idle", "cancel", "close", "join", "done"}

\* Every accepted Deferred has exactly one owner, the channel or the worker's
\* hand, and nothing else is there: no promise is lost by a path of
\* `worker_loop` and none can be settled twice.
OneOwner ==
    /\ \A i, k \in 1..Len(queue) : queue[i] = queue[k] => i = k
    /\ \A j \in Jobs : phase[j] = "queued" <=> \E i \in 1..Len(queue) : queue[i] = j
    /\ \A j \in Jobs : phase[j] = "held" <=> j \in hand
    /\ \E S \in {{}} \union {{j} : j \in Jobs} : hand = S

\* Once `shutdown` is past its cancellation, an invocation that is running has
\* a cancelled token: `join` never waits for one nobody told to stop.  The
\* worker may claim a job on either side of the swap of `closing`.
ShutdownCancelsRunning ==
    (js \in {"close", "join", "done"} /\ worker = "execute") => hand \subseteq tokens

\* When `shutdown` has returned, the worker is gone and no Deferred is left in
\* the channel or in its hand to outlive the environment.
ShutdownReleasesAll ==
    js = "done" => /\ worker = "exited" /\ hand = {} /\ queue = <<>>
                   /\ \A j \in Jobs : phase[j] \notin {"queued", "held"}

\* A promise whose state is final keeps it.
FinalIsFinal ==
    [][\A j \in Jobs : phase[j] \in Settled \union {"dropped"} => phase'[j] = phase[j]]_vars

\* Aborted before the worker claimed it.
AbortedWaiting(j) ==
    /\ j \in tokens
    /\ phase[j] = "queued" \/ (phase[j] = "held" /\ worker = "claim")

\* A job aborted while it waits never resolves and never reports an error of
\* its own: it is rejected as cancelled, or dropped by shutdown.
AbortedNeverResolves ==
    \A j \in Jobs : [](AbortedWaiting(j) => [](phase[j] \notin {"resolved", "failed"}))

\* `shutdown` terminates, whatever the worker is doing when it begins.
ShutdownTerminates == closing ~> js = "done"

\* If invocations return, every job the channel accepted is settled, or dropped
\* because the executor is closing or a panic has ended its worker.
AcceptedIsSettled ==
    WF_vars(WorkerExecute) =>
        \A j \in Jobs : phase[j] = "queued" ~>
            \/ phase[j] \in Settled
            \/ phase[j] = "dropped" /\ (closing \/ worker = "exited")
=============================================================================
