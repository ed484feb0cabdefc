----------------------------- MODULE NodeTimers -----------------------------
(***************************************************************************)
(* The timer provider of the Node host: `NodeTimers` of                    *)
(* crates/bamts-node/src/timers.rs, and the worker thread that owns its    *)
(* DelayQueue.                                                             *)
(*                                                                         *)
(* The JavaScript thread and the worker share two FIFO channels: commands  *)
(* go one way and expiries the other.  The clock counts the milliseconds   *)
(* since the provider's `base`.                                            *)
(***************************************************************************)
EXTENDS Integers, Sequences, FiniteSets, FiniteSetsExt

CONSTANTS
    TimerIds,    \* the identifiers the machine arms
    Delays,      \* the delays it asks for, clamped to 1 or more by `clamp_delay`
    MaxNow,      \* bound on the time that passes while no timer waits for it
    SpawnFails   \* whether the worker's thread or runtime may fail to start

ASSUME ProviderAssumption ==
    /\ TimerIds \subseteq Nat \ {0}
    /\ Delays \subseteq Nat \ {0}
    /\ MaxNow \in Nat
    /\ SpawnFails \in BOOLEAN

VARIABLES
    now,            \* the monotonic clock
    pending,        \* `pending`: the generation each id is armed with, 0 for none
    nextGeneration, \* `next_generation`
    commands,       \* the channel of Commands
    delayQueue,     \* the worker's DelayQueue; `keys` holds the ids in it
    expiries,       \* the channel of ArmedWakeups
    worker,         \* the worker: not spawned, what it polls next, or exited
    senderOpen      \* `command_tx` is Some

providerVars == <<now, pending, nextGeneration, commands, delayQueue, expiries,
                  worker, senderOpen>>

ProviderInit ==
    /\ now = 0
    /\ pending = [i \in TimerIds |-> 0]
    /\ nextGeneration = 1
    /\ commands = <<>>
    /\ delayQueue = {}
    /\ expiries = <<>>
    /\ worker = "none"
    /\ senderOpen = TRUE

-----------------------------------------------------------------------------
(***************************************************************************)
(* Called by the JavaScript thread.                                        *)
(***************************************************************************)

ScheduleCommand(i, d) == [op |-> "schedule", id |-> i, deadline |-> now + d,
                          generation |-> nextGeneration, delay |-> d]
CancelCommand(i) == [op |-> "cancel", id |-> i, deadline |-> 0, generation |-> 0, delay |-> 0]

\* The worker is spawned by the first `schedule`.
Spawned == IF worker = "none" THEN "commands" ELSE worker

\* `schedule`: the deadline it returns is now + d.  Arming an id again replaces
\* its generation.
Schedule(i, d) ==
    /\ pending' = [pending EXCEPT ![i] = nextGeneration]
    /\ nextGeneration' = nextGeneration + 1
    /\ commands' = Append(commands, ScheduleCommand(i, d))
    /\ worker' = Spawned
    /\ UNCHANGED <<now, delayQueue, expiries, senderOpen>>

\* `schedule`, and the `cancel` that undoes it when the handle has no room.
ScheduleUndone(i, d) ==
    /\ nextGeneration' = nextGeneration + 1
    /\ commands' = commands \o <<ScheduleCommand(i, d), CancelCommand(i)>>
    /\ worker' = Spawned
    /\ UNCHANGED <<now, pending, delayQueue, expiries, senderOpen>>

\* `cancel`.
Cancel(i) ==
    IF pending[i] # 0
    THEN /\ pending' = [pending EXCEPT ![i] = 0]
         /\ commands' = Append(commands, CancelCommand(i))
         /\ UNCHANGED <<now, nextGeneration, delayQueue, expiries, worker, senderOpen>>
    ELSE UNCHANGED providerVars

\* Fault: the identifier alone is compared.
Accepted_AnyGeneration(e) == pending[e.id] # 0

\* `accept_wakeup`: only the current arming of an id is reported.
Accepted(e) == pending[e.id] = e.generation

\* `pending` once the wakeups in S have been accepted.
Retired(S) == [i \in TimerIds |-> IF \E e \in S : e.id = i THEN 0 ELSE pending[i]]

\* `poll_expired` reports what it accepts of the whole channel.
PollExpired(S) ==
    /\ S = {e \in {expiries[k] : k \in 1..Len(expiries)} : Accepted(e)}
    /\ pending' = Retired(S)
    /\ expiries' = <<>>
    /\ UNCHANGED <<now, nextGeneration, commands, delayQueue, worker, senderOpen>>

\* One wakeup received by the loop of `wait_expired`.
ReceiveExpiry(S) ==
    /\ expiries # <<>>
    /\ S = {e \in {Head(expiries)} : Accepted(e)}
    /\ pending' = Retired(S)
    /\ expiries' = Tail(expiries)
    /\ UNCHANGED <<now, nextGeneration, commands, delayQueue, worker, senderOpen>>

\* Fault: the sender outlives the provider.
CloseCommands_Kept == UNCHANGED providerVars

\* `Worker::drop` gives the sender up.
CloseCommands ==
    /\ senderOpen' = FALSE
    /\ UNCHANGED <<now, pending, nextGeneration, commands, delayQueue, expiries, worker>>

-----------------------------------------------------------------------------
(***************************************************************************)
(* The worker thread: `worker_loop`.  Each turn polls the commands first   *)
(* and the DelayQueue only when there was none.                            *)
(***************************************************************************)

\* Fault: an id that is already in the queue keeps its previous arming.
WorkerSchedule_KeepFirst(c) ==
    delayQueue' = IF \E e \in delayQueue : e.id = c.id THEN delayQueue
                  ELSE delayQueue \union
                    {[id |-> c.id, deadline |-> c.deadline, generation |-> c.generation,
                      due |-> now + c.delay]}

\* Command::Schedule: the delay runs from the moment the worker sees it.
WorkerSchedule(c) ==
    delayQueue' = {e \in delayQueue : e.id # c.id} \union
        {[id |-> c.id, deadline |-> c.deadline, generation |-> c.generation,
          due |-> now + c.delay]}

\* Command::Cancel.
WorkerCancel(c) == delayQueue' = {e \in delayQueue : e.id # c.id}

\* A command is polled and carried out.
WorkerCommand ==
    /\ worker = "commands"
    /\ commands # <<>>
    /\ LET c == Head(commands) IN
        IF c.op = "schedule" THEN WorkerSchedule(c) ELSE WorkerCancel(c)
    /\ commands' = Tail(commands)
    /\ UNCHANGED <<now, pending, nextGeneration, expiries, worker, senderOpen>>

\* No command is ready: the DelayQueue is polled next.
WorkerNoCommand ==
    /\ worker = "commands"
    /\ commands = <<>> /\ senderOpen
    /\ worker' = "expiries"
    /\ UNCHANGED <<now, pending, nextGeneration, commands, delayQueue, expiries, senderOpen>>

\* Every sender is gone and the channel is empty.
WorkerExit ==
    /\ worker = "commands"
    /\ commands = <<>> /\ ~senderOpen
    /\ worker' = "exited"
    /\ UNCHANGED <<now, pending, nextGeneration, commands, delayQueue, expiries, senderOpen>>

Due == {e \in delayQueue : e.due <= now}

\* An entry whose time has come is reported.
WorkerExpire ==
    /\ worker = "expiries"
    /\ \E e \in Due :
        /\ delayQueue' = delayQueue \ {e}
        /\ expiries' = Append(expiries, [id |-> e.id, deadline |-> e.deadline,
                                         generation |-> e.generation])
    /\ worker' = "commands"
    /\ UNCHANGED <<now, pending, nextGeneration, commands, senderOpen>>

\* Neither is ready: the worker sleeps until one is, and polls again.
WorkerIdle ==
    /\ worker = "expiries"
    /\ Due = {}
    /\ worker' = "commands"
    /\ UNCHANGED <<now, pending, nextGeneration, commands, delayQueue, expiries, senderOpen>>

WorkerStep ==
    WorkerCommand \/ WorkerNoCommand \/ WorkerExit \/ WorkerExpire \/ WorkerIdle

\* Time passes: freely up to MaxNow, and beyond while an entry waits for it.
Tick ==
    /\ now < MaxNow \/ \E e \in delayQueue : e.due > now
    /\ now' = now + 1
    /\ UNCHANGED <<pending, nextGeneration, commands, delayQueue, expiries, worker, senderOpen>>
=============================================================================
