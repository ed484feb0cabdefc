------------------------------ MODULE EventLoop ------------------------------
(***************************************************************************)
(* `Machine::run` of crates/bamts-runtime: the entry module, the event     *)
(* loop that follows (`drive_entry_to_settlement`, then                    *)
(* `run_to_quiescence`) and the machine's timer table, over the provider   *)
(* of NodeTimers.                                                          *)
(*                                                                         *)
(* A job is a piece of JavaScript: the entry module, a microtask or a      *)
(* timer callback.  What it does is free; each operation costs one unit of *)
(* fuel, so every behaviour is finite.  The inbox of external jobs is left *)
(* out: nothing in the build ever pushes to it.                            *)
(***************************************************************************)
EXTENDS NodeTimers

CONSTANTS
    MaxTimers,      \* `limits.max_timers`
    MaxMicrotasks,  \* `limits.max_microtasks`
    Fuel,           \* `limits.fuel`
    MayCancel       \* whether the embedder cancels the machine

ASSUME LoopAssumption ==
    /\ MaxTimers \in Nat /\ MaxMicrotasks \in Nat /\ Fuel \in Nat
    /\ MayCancel \in BOOLEAN

VARIABLES
    loop,         \* the program point of the machine's thread
    mode,         \* "entry" under drive_entry_to_settlement, "quiesce" after it
    settled,      \* the entry's evaluation promise
    microtasks,   \* how many microtasks are queued
    running,      \* the timer whose callback runs, 0 for none
    fuel,         \* `fuel`
    cancelled,    \* the CancellationToken is set
    outcome,      \* what `run` returns
    live,         \* the ids in `timers`
    deadline,     \* the fields of their TimerRecords ...
    sequence,     \* ... a generation is taken with every sequence, so one
                  \*     number stands for both
    interval,     \* `interval_delay`, 0 for None
    handle,       \* the generation in the HeapEntry::Timeout of each id
    ready,        \* `ready_timers`: keys <<deadline, sequence>>
    watermark,    \* `timer_watermark`, 0 for None
    nextId,       \* `next_timer_id`
    nextSequence  \* `next_timer_sequence` and `next_timer_generation`

tableVars == <<live, deadline, sequence, interval, handle, nextId, nextSequence>>
timerVars == <<tableVars, ready, watermark>>
loopVars == <<loop, mode, settled, microtasks, running, fuel, outcome>>
vars == <<providerVars, timerVars, loopVars, cancelled>>

Init ==
    /\ ProviderInit
    /\ loop = "entry" /\ mode = "entry" /\ settled = "no"
    /\ microtasks = 0 /\ running = 0 /\ fuel = Fuel
    /\ cancelled = FALSE /\ outcome = "none"
    /\ live = {}
    /\ deadline = [i \in TimerIds |-> 0] /\ sequence = [i \in TimerIds |-> 0]
    /\ interval = [i \in TimerIds |-> 0] /\ handle = [i \in TimerIds |-> 0]
    /\ ready = {} /\ watermark = 0
    /\ nextId = 1 /\ nextSequence = 0

\* `run` returns; a failing callback takes its timer with it.
End(o) == loop' = "done" /\ outcome' = o

Key(i) == <<deadline[i], sequence[i]>>
Before(k, l) == k[1] < l[1] \/ (k[1] = l[1] /\ k[2] < l[2])

-----------------------------------------------------------------------------
(***************************************************************************)
(* What a job may do.  `consume_fuel` refuses when the token is set.       *)
(***************************************************************************)

InJob == loop \in {"entry", "microjob", "callback"}

Operation ==
    /\ InJob
    /\ fuel > 0 /\ ~cancelled
    /\ fuel' = fuel - 1
    /\ UNCHANGED cancelled

\* `schedule_timer`: setTimeout when r is 0, setInterval when r is the delay.
SetTimer(d, r) ==
    /\ Operation
    /\ nextId \in TimerIds
    /\ Cardinality(live) < MaxTimers
    /\ Schedule(nextId, d)
    /\ live' = live \union {nextId}
    /\ deadline' = [deadline EXCEPT ![nextId] = now + d]
    /\ sequence' = [sequence EXCEPT ![nextId] = nextSequence]
    /\ interval' = [interval EXCEPT ![nextId] = r]
    /\ handle' = [handle EXCEPT ![nextId] = nextSequence]
    /\ nextId' = nextId + 1 /\ nextSequence' = nextSequence + 1
    /\ UNCHANGED <<ready, watermark, loop, mode, settled, microtasks, running, outcome>>

\* The runtime error of `schedule_timer` ends the job and the machine: the
\* table is full, the worker cannot be spawned, or the handle has no room.
SetTimerFails(d) ==
    /\ Operation
    /\ nextId \in TimerIds
    /\ \/ /\ Cardinality(live) >= MaxTimers
          /\ UNCHANGED <<providerVars, nextId, nextSequence>>
       \/ /\ Cardinality(live) < MaxTimers
          /\ nextId' = nextId + 1 /\ nextSequence' = nextSequence + 1
          /\ \/ SpawnFails /\ worker = "none" /\ UNCHANGED providerVars
             \/ ScheduleUndone(nextId, d)
    /\ live' = live \ {running}
    /\ running' = 0
    /\ End("failed")
    /\ UNCHANGED <<deadline, sequence, interval, handle, ready, watermark, mode, settled,
                   microtasks>>

\* `clear_timeout`, by number or by handle: a handle of another generation
\* clears nothing.  A timer that is not live is not touched either.
ClearTimer(i, byHandle) ==
    /\ Operation
    /\ i \in live
    /\ byHandle => handle[i] = sequence[i]
    /\ live' = live \ {i}
    /\ ready' = ready \ {Key(i)}
    /\ Cancel(i)
    /\ UNCHANGED <<deadline, sequence, interval, handle, nextId, nextSequence, watermark>>
    /\ UNCHANGED <<loop, mode, settled, microtasks, running, outcome>>

\* `enqueue_microtask_callback`, or a reaction of a settled promise.
QueueMicrotask ==
    /\ Operation
    /\ microtasks < MaxMicrotasks
    /\ microtasks' = microtasks + 1
    /\ UNCHANGED <<providerVars, timerVars, loop, mode, settled, running, outcome>>

\* The queue is at its limit: a runtime error.
QueueMicrotaskFails ==
    /\ Operation
    /\ microtasks >= MaxMicrotasks
    /\ live' = live \ {running}
    /\ running' = 0
    /\ End("failed")
    /\ UNCHANGED <<providerVars, deadline, sequence, interval, handle, nextId, nextSequence,
                   ready, watermark, mode, settled, microtasks>>

\* A microtask resumes the entry module to its end.
SettleEntry ==
    /\ Operation
    /\ loop = "microjob" /\ mode = "entry" /\ settled = "no"
    /\ settled' \in {"fulfilled", "rejected"}
    /\ UNCHANGED <<providerVars, timerVars, loop, mode, microtasks, running, outcome>>

\* The next instruction finds the token set, or no fuel.
JobStops ==
    /\ InJob
    /\ cancelled \/ fuel = 0
    /\ live' = live \ {running}
    /\ running' = 0
    /\ End(IF cancelled THEN "cancelled" ELSE "fuel")
    /\ UNCHANGED <<providerVars, deadline, sequence, interval, handle, nextId, nextSequence,
                   ready, watermark, mode, settled, microtasks, fuel, cancelled>>

-----------------------------------------------------------------------------
(***************************************************************************)
(* How a job ends.                                                         *)
(***************************************************************************)

\* The entry module completes, or suspends on a top-level await.
EntryReturns ==
    /\ loop = "entry"
    /\ mode' \in {"entry", "quiesce"}
    /\ loop' = "microtasks"
    /\ UNCHANGED <<providerVars, timerVars, settled, microtasks, running, fuel, outcome, cancelled>>

\* The entry module or a queueMicrotask callback throws.
JobThrows ==
    /\ loop \in {"entry", "microjob"}
    /\ End("uncaught")
    /\ UNCHANGED <<providerVars, timerVars, mode, settled, microtasks, running, fuel, cancelled>>

MicrotaskReturns ==
    /\ loop = "microjob"
    /\ loop' = "microtasks"
    /\ UNCHANGED <<providerVars, timerVars, mode, settled, microtasks, running, fuel, outcome,
                   cancelled>>

\* Fault: the handle keeps the generation of the previous arming.
Rearm_OldHandle(i) ==
    /\ Schedule(i, interval[i])
    /\ deadline' = [deadline EXCEPT ![i] = now + interval[i]]
    /\ sequence' = [sequence EXCEPT ![i] = nextSequence]
    /\ ready' = IF now + interval[i] <= watermark
                THEN ready \union {<<now + interval[i], nextSequence>>} ELSE ready
    /\ nextSequence' = nextSequence + 1
    /\ UNCHANGED <<live, interval, handle, nextId, watermark>>

\* An interval is armed again under its id, with a new sequence.
Rearm(i) ==
    /\ Schedule(i, interval[i])
    /\ deadline' = [deadline EXCEPT ![i] = now + interval[i]]
    /\ sequence' = [sequence EXCEPT ![i] = nextSequence]
    /\ handle' = [handle EXCEPT ![i] = nextSequence]
    /\ ready' = IF now + interval[i] <= watermark
                THEN ready \union {<<now + interval[i], nextSequence>>} ELSE ready
    /\ nextSequence' = nextSequence + 1
    /\ UNCHANGED <<live, interval, nextId, watermark>>

\* The callback returns or throws.  Its timer is removed, or armed again if it
\* repeats and was not cleared; only then does an exception stop the loop.
CallbackReturns(throws) ==
    /\ loop = "callback"
    /\ IF running \in live /\ interval[running] # 0
       THEN Rearm(running)
       ELSE /\ live' = live \ {running}
            /\ UNCHANGED <<providerVars, deadline, sequence, interval, handle, nextId,
                           nextSequence, ready, watermark>>
    /\ running' = 0
    /\ IF throws THEN End("uncaught") ELSE loop' = "microtasks" /\ UNCHANGED outcome
    /\ UNCHANGED <<mode, settled, microtasks, fuel, cancelled>>

-----------------------------------------------------------------------------
(***************************************************************************)
(* The event loop.                                                         *)
(***************************************************************************)

\* `drain_microtasks_core` charges before it pops.
RunMicrotask ==
    /\ loop = "microtasks"
    /\ microtasks > 0
    /\ IF cancelled \/ fuel = 0
       THEN /\ End(IF cancelled THEN "cancelled" ELSE "fuel")
            /\ UNCHANGED <<microtasks, fuel>>
       ELSE /\ fuel' = fuel - 1
            /\ microtasks' = microtasks - 1
            /\ loop' = "microjob"
            /\ UNCHANGED outcome
    /\ UNCHANGED <<providerVars, timerVars, mode, settled, running, cancelled>>

\* The microtasks are drained.
Checkpoint == loop = "microtasks" /\ microtasks = 0

\* Fault: the loop does not look at the entry's promise.
AwaitsEntry_Always == mode = "entry"

\* `drive_entry_to_settlement` still waits for the entry's promise.
AwaitsEntry == mode = "entry" /\ settled = "no"

\* The entry has settled: its completion is returned, or the loop goes on
\* under `run_to_quiescence`.
EntrySettled ==
    /\ Checkpoint
    /\ mode = "entry" /\ ~AwaitsEntry
    /\ mode' = "quiesce"
    /\ IF settled = "rejected" THEN End("uncaught") ELSE UNCHANGED <<loop, outcome>>
    /\ UNCHANGED <<providerVars, timerVars, settled, microtasks, running, fuel, cancelled>>

\* The loop ends: nothing is left, the entry can never settle, or the token is
\* set.
LoopStops ==
    /\ Checkpoint
    /\ \/ AwaitsEntry /\ live = {} /\ End("stalled")
       \/ AwaitsEntry /\ live # {} /\ ready = {} /\ cancelled /\ End("cancelled")
       \/ mode = "quiesce" /\ cancelled /\ End("cancelled")
       \/ mode = "quiesce" /\ ~cancelled /\ live = {} /\ End("ok")
    /\ UNCHANGED <<providerVars, timerVars, mode, settled, microtasks, running, fuel, cancelled>>

\* `wait_for_timer_expiry_state` blocks only when no timer is ready.
AwaitTimer ==
    /\ Checkpoint
    /\ live # {}
    /\ AwaitsEntry \/ (mode = "quiesce" /\ ~cancelled)
    /\ ready = {} => ~cancelled
    /\ loop' = IF ready = {} THEN "wait" ELSE "run"
    /\ UNCHANGED <<providerVars, timerVars, mode, settled, microtasks, running, fuel, outcome,
                   cancelled>>

\* The live timers that S reports.
Reported(S) == {e \in S : e.id \in live}

\* `promote_timer_wakeup`: the watermark rises to the latest deadline reported.
WatermarkAfter(S) == Max({watermark} \union {e.deadline : e \in Reported(S)})

\* Fault: only the timers that were reported become ready.
ReadyAfter_ReportedOnly(S) == ready \union {Key(e.id) : e \in Reported(S)}

\* One report makes every timer at or below the watermark ready.
ReadyAfter(S) ==
    IF Reported(S) = {} THEN ready
    ELSE ready \union {Key(i) : i \in {j \in live : deadline[j] <= WatermarkAfter(S)}}

\* `wait_expired` receives a wakeup.  A stale one of the provider is skipped;
\* one that makes no machine timer ready sends the loop around.
WaitReceives ==
    /\ loop = "wait"
    /\ ~cancelled
    /\ \E i \in TimerIds : pending[i] # 0
    /\ \E S \in SUBSET {expiries[k] : k \in 1..Len(expiries)} :
        /\ ReceiveExpiry(S)
        /\ watermark' = WatermarkAfter(S)
        /\ ready' = ReadyAfter(S)
        /\ loop' = IF S = {} THEN "wait"
                   ELSE IF ready' = {} THEN "microtasks" ELSE "run"
    /\ UNCHANGED <<tableVars, mode, settled, microtasks, running, fuel, outcome, cancelled>>

\* Fault: `wait_expired` does not look at the token.
WaitEnds_Deaf ==
    /\ loop = "wait"
    /\ \A i \in TimerIds : pending[i] = 0
    /\ End(IF cancelled THEN "cancelled" ELSE "lost")
    /\ UNCHANGED <<providerVars, timerVars, mode, settled, microtasks, running, fuel, cancelled>>

\* `wait_expired` returns None: nothing is armed, which is an error while the
\* machine has a live timer, or the token is set.
WaitEnds ==
    /\ loop = "wait"
    /\ cancelled \/ \A i \in TimerIds : pending[i] = 0
    /\ End(IF cancelled THEN "cancelled" ELSE "lost")
    /\ UNCHANGED <<providerVars, timerVars, mode, settled, microtasks, running, fuel, cancelled>>

First(keys) == CHOOSE k \in keys : \A l \in keys \ {k} : Before(k, l)

\* Fault: a timer is run without paying for it.
Affordable_Always == TRUE

\* `consume_fuel` lets the timer run.
Affordable == fuel > 0 /\ ~cancelled

\* `run_one_expired_timer`, up to the call of the callback: the provider is
\* polled, and the first ready timer is charged for and taken.  A refusal
\* leaves it ready.
RunTimer ==
    /\ loop = "run"
    /\ \E S \in SUBSET {expiries[k] : k \in 1..Len(expiries)} :
        /\ PollExpired(S)
        /\ watermark' = WatermarkAfter(S)
        /\ LET first == First(ReadyAfter(S))
               owners == {i \in live : Key(i) = first}
           IN IF owners # {} /\ Affordable
              THEN /\ ready' = ReadyAfter(S) \ {first}
                   /\ running' \in owners
                   /\ fuel' = fuel - 1
                   /\ loop' = "callback"
                   /\ UNCHANGED outcome
              ELSE /\ ready' = ReadyAfter(S)
                   /\ End(IF owners = {} THEN "invalid"
                          ELSE IF cancelled THEN "cancelled" ELSE "fuel")
                   /\ UNCHANGED <<running, fuel>>
    /\ UNCHANGED <<tableVars, mode, settled, microtasks, cancelled>>

\* The host is dropped after the machine: `Worker::drop`.
HostDrop ==
    /\ loop = "done"
    /\ CloseCommands
    /\ loop' = "joining"
    /\ UNCHANGED <<timerVars, mode, settled, microtasks, running, fuel, outcome, cancelled>>

\* The worker, if there is one, is joined.
HostJoin ==
    /\ loop = "joining"
    /\ worker \in {"none", "exited"}
    /\ loop' = "dropped"
    /\ UNCHANGED <<providerVars, timerVars, mode, settled, microtasks, running, fuel, outcome,
                   cancelled>>

-----------------------------------------------------------------------------
\* What a running job chooses to do.
JobOperation ==
    \/ \E d \in Delays : SetTimer(d, 0) \/ SetTimer(d, d) \/ SetTimerFails(d)
    \/ \E i \in TimerIds, byHandle \in BOOLEAN : ClearTimer(i, byHandle)
    \/ QueueMicrotask
    \/ QueueMicrotaskFails
    \/ SettleEntry

JobEnds ==
    \/ EntryReturns
    \/ MicrotaskReturns
    \/ JobThrows
    \/ JobStops
    \/ \E throws \in BOOLEAN : CallbackReturns(throws)

LoopStep ==
    \/ RunMicrotask \/ EntrySettled \/ LoopStops \/ AwaitTimer
    \/ WaitReceives \/ WaitEnds \/ RunTimer \/ HostDrop \/ HostJoin

\* The embedder, on another thread.
CancelMachine ==
    /\ MayCancel
    /\ ~cancelled
    /\ cancelled' = TRUE
    /\ UNCHANGED <<providerVars, timerVars, loopVars>>

Clock == Tick /\ UNCHANGED <<timerVars, loopVars, cancelled>>

Provider == WorkerStep /\ UNCHANGED <<timerVars, loopVars, cancelled>>

Dropped == loop = "dropped" /\ UNCHANGED vars

Next == JobOperation \/ JobEnds \/ LoopStep \/ CancelMachine \/ Clock \/ Provider \/ Dropped

Spec == Init /\ [][Next]_vars

\* Both threads are scheduled and every job ends; time need not pass.
LiveSpec == Spec /\ WF_vars(JobEnds) /\ WF_vars(LoopStep) /\ WF_vars(Provider)

-----------------------------------------------------------------------------
(***************************************************************************)
(* Properties.                                                             *)
(***************************************************************************)

CommandType == [op : {"schedule", "cancel"}, id : TimerIds, deadline : Nat,
                generation : Nat, delay : Nat]

\* Types.
TypeOK ==
    /\ now \in Nat
    /\ pending \in [TimerIds -> Nat] /\ nextGeneration \in Nat \ {0}
    /\ commands \in Seq(CommandType)
    /\ delayQueue \subseteq [id : TimerIds, deadline : Nat, generation : Nat, due : Nat]
    /\ expiries \in Seq([id : TimerIds, deadline : Nat, generation : Nat])
    /\ worker \in {"none", "commands", "expiries", "exited"}
    /\ senderOpen \in BOOLEAN /\ cancelled \in BOOLEAN
    /\ loop \in {"entry", "microtasks", "microjob", "wait", "run", "callback", "done",
                 "joining", "dropped"}
    /\ mode \in {"entry", "quiesce"} /\ settled \in {"no", "fulfilled", "rejected"}
    /\ microtasks \in 0..MaxMicrotasks /\ fuel \in 0..Fuel
    /\ running \in TimerIds \union {0}
    /\ live \subseteq TimerIds /\ Cardinality(live) <= MaxTimers
    /\ deadline \in [TimerIds -> Nat] /\ sequence \in [TimerIds -> Nat]
    /\ interval \in [TimerIds -> Nat] /\ handle \in [TimerIds -> Nat]
    /\ ready \subseteq Nat \X Nat /\ watermark \in Nat
    /\ nextId \in Nat \ {0} /\ nextSequence \in Nat
    /\ outcome \in {"none", "ok", "stalled", "lost", "invalid", "cancelled", "fuel",
                    "uncaught", "failed"}

\* The two failures the code has an error for and believes impossible never
\* happen: a live timer the provider has forgotten, and a ready key that no
\* live timer owns.
NoInternalFailure == outcome \notin {"lost", "invalid"}

\* The last command in the channel about an id.
LastFor(k, i) ==
    commands[k].id = i /\ \A l \in (k + 1)..Len(commands) : commands[l].id # i

Unmentioned(i) == \A k \in 1..Len(commands) : commands[k].id # i

\* An id the provider counts as armed is on its way to be reported: in the
\* command channel, in the DelayQueue or in the expiry channel, under its
\* current generation and with nothing behind it that would take it away.
ArmedIsTracked ==
    \A i \in TimerIds : pending[i] # 0 =>
        \/ \E k \in 1..Len(commands) :
            LastFor(k, i) /\ commands[k].op = "schedule" /\ commands[k].generation = pending[i]
        \/ /\ Unmentioned(i)
           /\ \/ \E e \in delayQueue : e.id = i /\ e.generation = pending[i]
              \/ \E k \in 1..Len(expiries) :
                    expiries[k].id = i /\ expiries[k].generation = pending[i]

\* The handle JavaScript holds always clears its timer: an interval that was
\* armed again does not leave its handle behind.
HandleIsCurrent == \A i \in live : handle[i] = sequence[i]

\* "No timer beyond the settling turn fires here."
EntryStopsAtSettlement ==
    [][(loop # "callback" /\ loop' = "callback") => ~(mode = "entry" /\ settled # "no")]_vars

\* Timers fire one at a time, never early, in the order of (deadline,
\* sequence) over all armed timers, although the worker may report them late
\* and in any order; a cleared timer never fires and is never armed again.
Queue == INSTANCE TimerQueue WITH
    armed <- {[id |-> i, deadline |-> deadline[i], sequence |-> sequence[i]]
                : i \in live \ {running}},
    firing <- running,
    repeats <- running \in live /\ interval[running] # 0,
    used <- nextId - 1,
    counter <- nextSequence

TimersInOrder == Queue!Init /\ [][Queue!Next]_(Queue!queueVars)

\* A cancelled machine stops even if no timer ever expires.  (The token is
\* never reset.)
CancelEndsLoop == <>[](cancelled => loop = "dropped")

\* If time passes, the loop never hangs in a wait whose wakeup is lost, and the
\* worker's thread ends with its host.
RunEnds == WF_vars(Clock) => <>(loop = "dropped")
=============================================================================
