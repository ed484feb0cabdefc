# Verification of bamTiScript's concurrent core

bamTiScript compiles and runs TypeScript: a compiler, a bytecode machine with an
event loop, a native code generator, a command line with a long-running `--api`
service, a Node-API addon and an npm package that drives them. Most of its lines
are pure functions over source texts. The parts that are hard to test are the
ones where threads, processes, queues and timers meet. This directory models
those parts in TLA+, model-checks them with TLC and proves the core results with
TLAPS.

## 1. The system

| Component | Source | State it keeps | Operations |
|---|---|---|---|
| Node-API executor | `crates/bamts-napi/src/lib.rs` | a bounded channel of jobs with their Deferreds, `closing`, the active token, the worker thread | `run`/`submit`, abort listener, `shutdown`, `worker_loop` |
| Admission queue of the API transport | `crates/bamts-cli/src/api_server/control.rs` | queue with two partitions, counters, identifiers in use, cancellation ledger, `stop`, `fatal`, `reader_exit` | `offer`, `reject`, `fatal`, `next`, `begin`, `retire`, `stop`, `drain`, `wait_reaped` |
| Reader, inputs and serving loop | `api_server/{mod,reader,input}.rs` | program points of two threads, frame in hand, wakes, first error | `reader_main`, `serve_reaped`, four kinds of `ReaderWaker` |
| Wire format and dispatch | `api_server/{wire,session}.rs` | session stopped or not | `read_frame`, `drain_body`, `plan`, `apply` |
| Timer provider | `crates/bamts-node/src/timers.rs` | pending generations, command and expiry channels, DelayQueue, worker thread | `schedule`, `cancel`, `poll_expired`, `wait_expired`, `worker_loop`, drop |
| Event loop of the runtime | `crates/bamts-runtime/src/lib.rs`, `builtins/timers.rs` | timer table, ready keys, watermark, microtask queue, fuel, entry promise | `run`, `drive_entry_to_settlement`, `run_to_quiescence`, set/clear timers, microtask checkpoint |
| JavaScript client | `npm/bamti/internal/{session,transport}.js` | child process and generation, pending requests, restarts, `initialize` promise, disposal | `request`, `ready`, `dispose`, handlers of the child's events |
| Cancellation token | `crates/bamts-cancel` | one atomic flag | `cancel`, `is_cancelled` |
| Collector | `crates/bamts-runtime/src/gc.rs` | marks, work list, weak collections found so far | `collect` with its passes |
| Weak references and finalization | `crates/bamts-runtime/src/builtins/weakref_finalization.rs`, `lib.rs` | targets, cells, pending holdings, kept-alive list, cleanup candidates, microtasks, byte ledger | `WeakRef`, `deref`, `register`, `unregister`, checkpoint, cleanup jobs |
| Language service | `crates/bamts-compiler/src/service/{mod,sync,async,language_service}.rs` | documents with versions and metadata, source ids, a write lock, a request limiter | open, update, close, queries, `snapshot`, cancellation |
| LSP server | `crates/bamts-cli/src/lsp.rs` | lifecycle, cancelled requests, snapshots beside the service's documents | requests, `$/cancelRequest`, `didOpen`, `didChange`, `didClose`, diagnostics |
| Projects | `crates/bamts-compiler/src/project.rs` | graph of project references | build order, up-to-date check |
| Promises, modules, objects of the runtime | `crates/bamts-runtime` | objects, reactions, module records | settlement, evaluation |
| Code memory, tiering, cache | `crates/bamts-codegen`, `crates/bamts-native` | pages, profiles, compiled functions | emit, seal, promote, deoptimize |
| Scanner to emitter, bytecode and its verifier | `crates/bamts-compiler`, `crates/bamts-bytecode` | none | pure functions |

How they interact. The client writes frames to the stdin of a child that runs the
API transport, and reads frames from its stdout. In the child the reader thread
turns frames into `offer`, `reject` and `fatal` on the admission queue, and the
serving thread turns items into calls of the session and responses. The addon runs
the same command line inside a Node.js process on one worker thread; tokens are
the only thing both of its threads write while an invocation runs. The machine
talks to the timer provider through two channels, with one worker thread behind
them, and an embedder may cancel it from a third. The machine collects its heap at
safepoints inside jobs; the collector queues cleanup candidates which the next
microtask checkpoint turns into jobs. The language service is one state behind a
lock: the API transport and embedders call it through the limiter, the LSP server
owns one of its own, and both read files that other programs write.

What is hard, and what makes each component correct:

* Executor: shutdown races the worker's claim of a job. Every accepted Deferred
  has one owner, nothing runs uncancelled behind shutdown, and `join` returns.
* Transport: a cancel races completion and the reuse of an identifier; the loop
  can end for five reasons with items queued; the reader may be stuck in a read.
  Every admitted request is answered once, in order, and the session ends.
* Timers: the worker reports late, out of order and for generations that are
  gone. JavaScript must see (deadline, sequence) order, no fired timer that was
  cleared, no wait that nothing ends.
* Client: children die, are replaced and report their death more than once, all
  while calls wait in promise continuations. Every call is settled, and none is
  sent to a process that was not initialized.
* Collector: weak maps make liveness a fixed point over entries found while marking,
  in any order. What is swept is exactly what is not live.
* Weak references: collections fall between any two operations of a job and between
  the steps of a cleanup. What the machine or an entry holds is not swept (with one
  exception, section 5), a target a job has seen survives it, and each holding is
  delivered once.
* Language service: requests race for permits and for the lock, are cancelled at any
  point, unwind by a panic, and read files in two steps while others write them.
  Errors change nothing, an open document precedes the disk, and answers are no
  older than their request.
* LSP server: paths stop resolving when files are deleted, so the server refuses
  notifications the editor has already applied. They never diverge silently.

`PROJECT.json` lists the individual hazards at the lines where they bite.

## 2. The modules

`NapiExecutor` models the executor. A job's `phase` says where its Deferred is;
`queue`, `hand` and `active` are the channel, the job in `worker_loop` and
`Shared::active`. Each critical section, atomic access or channel operation is
one action: `ShutdownSwap`, `ShutdownCancel`, `ShutdownClose`, `ShutdownJoin` for
`shutdown`, and `WorkerRecv` ... `WorkerDeliver` for `worker_loop`.
`WorkerPanic` unwinds the thread. What an invocation computes is one of two
outcomes.

`ApiControl` models `Control`. One mutex guards its state, so each operation is
one step; `Offer` has one disjunct per path of `offer`. `owed` is a history
variable: the tickets that were admitted with a response to come. `ApiServer`
extends it with the two threads. The reader's actions are the outcomes of
`read_frame` (a request, an invalid body, an oversize body, malformed headers, end
of file, an error, a wake) and its reactions; the actions named `Serve...` follow
`serve_reaped` from `next` to `join`. The variable `input`, chosen
from the constant `Inputs`, is the transport's input: `socket`, `poll`, `channel` or
`stdin`. `carried` and `abandoned` remember whether
the frame in hand was parsed while the loop ran and was then refused.

`NodeTimers` models the provider and its worker over a discrete clock; the
DelayQueue is a set of entries due at a time, external to the repository and
modelled from its use. `EventLoop` extends it with the machine: `loop` is the
program point, a job is any sequence of `JobOperation`s that ends with one of
`JobEnds`, and `mode` tells the drive of a top-level await from the loop that
follows it. The two failures the code has an error for and regards as impossible,
a lost timer and a ready key without a timer, are outcomes of the model.
`TimerQueue` is the abstract specification: a set of armed timers that fire one at
a time, never early and in order. `EventLoop` implements it under the mapping
`Queue` (the property `TimersInOrder`).

`ApiClient` models `Session` over `Transport` with its child processes.
JavaScript runs to completion, so an action is a synchronous call, an event
handler or a continuation. `settledInit` and the state `resumed` are the
continuations that wait; `Quiet` lets an event in only when none does, while
`NoneResumed` lets a second frame of one chunk in before them. The processes
answer, die, answer with garbage or do nothing; each may be told to die.

`HeapGraph` has no state: it defines the heap as the collector sees it, the edges
`trace_entry` follows, the reference definition `Live` (the least set closed under
those edges and under ephemerons) and what one collection does to an entry.
`Collector` runs `collect` step by step over an arbitrary heap, with the work list and
the list of weak collections as sets, so that every order is covered. `WeakJobs` uses
the same operators with a program that allocates, links, drops, registers and derefs;
there a collection is one step (`Collect`) that may happen at any safepoint, because
`Collector` shows what it computes. `job` is the popped job, a local of the Rust code
and no root. The ledger counts in units of one value. `fields` are the properties and the
prototype of an entry that lead to something the program made; a `WeakRef` and a registry
have them too (`SetField`, and `WithPrototype` for a `new.target` of the program), although
the collector does not follow them. `lost` is a history variable, what collections swept
behind such a field. A value read from there is copied and passed on like any other
(`Operands`), and refused where an object is needed (`Holdable`).

`CompilerService` models the service. A request is a record in `req` with a program
point; the points between two steps are exactly where other threads, a cancellation
or another program's write can get in: before the permit, before the lock, between the
read of metadata and of text. A text is the number of the write that put it on the
disk, which is how "no older than" is stated. `torn` is a history variable, the
documents `close` cached under the metadata of a later text (section 5). The build is
opaque: it succeeds, fails, sees the token or panics.

`LspServer` models a session as it reads messages one after the other, with the editor's
own documents (`editor`, `shown`) beside the server's (`docs`, `snapshots`) and a file
system in which files come and go. `told` are the documents whose last notification was
refused with a message.

Definitions whose names end in `_Something` under a comment "Fault" are wrong
variants of the definition below them. They are not used by any specification;
replacing the right definition by one of them makes a property fail, which shows
that the property depends on the code.

## 3. What is checked

| Run | Shows | Bounds |
|---|---|---|
| `NapiExecutor` | one owner per Deferred; shutdown cancels what runs and terminates; an accepted job is settled, or dropped by a shutdown | 3 jobs, capacity 2, panics |
| `ApiServer` | no obligation is lost, responses in order of admission, identifiers, cancellations and counters belong to what is queued or in flight, a cancelled request that waits never starts, obligations are met, the reader's error is returned, the session ends | 3 frames of 2 sizes, one item and one byte of work, one reject, socket and pollable stdin, failing input and output |
| `EventLoop` | refinement of `TimerQueue`, armed timers are tracked, no internal failure, handles stay current | 2 timers, delays 1 and 2, clock to 2, fuel 4 |
| `EventLoopLive` | nothing fires between settlement and the entry's return; cancellation ends the loop although time stands still; no wait is left without a wakeup when time passes | 2 timers, delay 1, fuel 5, cancellation |
| `ApiClient` | requests reach only an initialized child, calls settle, disposal completes | 2 calls, 1 restart, 1 in flight, 4 requests (two processes never need more) |
| `Collector` | what is swept is exactly what is not live; the collection ends | 4 slots, weak maps, weak sets, a WeakRef or a registry, all sets of roots |
| `WeakJobs` | no reference dangles but by the fields of weak entries, observed targets survive, cleanups are queued once, holdings are delivered when due, exact ledger | 4 slots, 3 of them given, 2 microtasks, 2 registrations, 1 entry with a property or prototype |
| `CompilerService` | permits, source ids, errors change nothing, open documents precede the disk, answers are current, requests complete | 2 threads, 2 paths, 3 requests, 1 permit, 1 cancellation, 2 writes |
| `LspServer` | published diagnostics are those of the server's document; no silent divergence | 2 paths, 2 texts, 2 versions, 3 requests |
| `ApiPollWake` | violation, see section 5 | 1 frame |
| `ApiShutdownDrain` | violation, see section 5 | 2 frames |
| `JobEntry` | violation, see section 5 | 4 slots, 2 microtasks, 1 registration |

A property that section 4 proves for every value of the constants is repeated in a
run only where it is one of the results a reader should know of; the others
(finality, tracking, bounds, the mirrors of the LSP server) are in the modules and in
the proofs.

Why the bounds are enough. The races here involve two threads or two processes and
one or two items each: a third job fills the channel while one runs and one
waits; with partitions of size one every frame past the first meets a full queue,
and three frames leave room for a request, its cancellation or the reuse of its
identifier, and the end of the session; two timers give every order of two keys, and
fuel is what bounds a job; with two generations of children a late event of the
first meets the second. Four slots hold a chain of two weak entries in two maps
whose order matters, and a registry whose holding keeps another target alive. Three
requests are an open, a close and a query of one document, which is what the race of
`close` takes, and one permit makes two requests compete. One ordinary and one
overlong identifier suffice because identifiers are only compared, and reuse is the
interesting case. No counter wraps in the code's range (tickets, generations,
source ids and sequences are 64 bits or checked), so they are naturals bounded by the
number of frames, requests or operations.

Fairness.

* `NapiExecutor`: both threads are scheduled. `execute` may run forever unless
  its token is set, which is what the token is passed down for; `AcceptedIsSettled`
  has the return of invocations as its hypothesis.
* `ApiServer`: both threads are scheduled (`ReaderStep`, `ServerStep`). Nothing is
  asked of what the peer sends: it may stop at any point, in the middle of a frame
  too. A write returns, with success or an error; a peer that never reads the output
  and so blocks the serving thread is not modelled. The wait for the reader has a deadline, so it ends.
* `EventLoop`: the machine and the worker are scheduled and every job ends, which
  fuel guarantees. Only `RunEnds` assumes, as its hypothesis, that time passes.
* `ApiClient`: the event loop runs, and a process that owes an answer gives it or
  ends. The first half of the latter is what `ObligationsMet` and `SessionEnds`
  establish for the server. A process that does not react to the end of its input
  is allowed.
* `Collector`: `collect` is one call of the machine's thread and runs to its end.
* `CompilerService`: the thread of every request is scheduled. A request that waits
  for the lock gets it: it is held only by requests that end.

## 4. What is proved

### The executor

`NapiExecutorProofs` proves, for every set of jobs and every positive capacity
(`QueueCapacityAssumption`; `MayPanicAssumption` says that `MayPanic` is a
Boolean), with panics and without:

| Theorem | States |
|---|---|
| `Invariance` | the inductive invariant holds in every reachable state |
| `TypeCorrect` | `TypeOK`, the bound of the channel included |
| `OwnerCorrect` | `OneOwner` |
| `ShutdownCancels` | `ShutdownCancelsRunning` |
| `ShutdownReleases` | `ShutdownReleasesAll` |
| `FinalStates` | `FinalIsFinal` |
| `AbortedJobs` | `AbortedNeverResolves` |

The invariant is the conjunction of `TypeOK`, `OneOwner`, `WorkerShape`,
`ShutdownShape` and `ShutdownCancelsRunning`. `ShutdownCancelsRunning` alone is not
inductive: when shutdown takes its cancellation step, one must know that a running
job is in `active` (`WorkerShape` ties `active` and `hand` to the worker's program
point), and when the worker claims a job later, that `closing` was set before
(`ShutdownShape` ties `closing` and `senderOpen` to the progress of `shutdown`).
`ShutdownReleasesAll` follows from the same two and `OneOwner`: past `join` the
worker has exited, an exited worker holds nothing, and the channel it leaves is
empty. The two action properties need `OneOwner`, which says that the job a step
writes to is held or queued and therefore not final.

### The client

`ApiClientProofs` proves, for every set of calls and all limits
(`ClientAssumption`: `Initialize` is not a call, `maxInFlight` is positive):

| Theorem | States |
|---|---|
| `ClientInvariance` | the inductive invariant holds in every reachable state |
| `ClientTypes` | `TypeOK`, the bound on requests in flight included |
| `RequestsAreServed` | `PendingIsServed` |
| `CallsReachInitialized` | `SentToInitialized` |
| `RestartsAreBounded` | `RestartBound` |
| `CallsAreTracked` | `CallIsTracked` |
| `AbortedCalls` | `AbortedNeverSucceeds` |

The properties lean on each other and on four shapes. `Numbered`: every request the
client knows of has a number that was handed out, so a new number is fresh.
`RestartShape`: every generation but the attached one has been counted as a restart,
which is what makes the limit one on processes. `InitShape`: the initialize request
in flight is `#initializing`, one that is settled has left the table, and a
successful answer that is still on its way comes from a process that is ready.
`CallShape`: a call with a request in flight has exactly one and is not aborted.
The interesting step is `#initialize` writing its request without asking for room
(`EnterWrites`): `NothingInFlight` shows that a child that is neither initialized
nor being initialized has nothing in flight, so the bound holds all the same.
Crashes, answers and disposal all settle requests, and share `SettleStep`.

### The collector

`CollectorProofs` proves, for heaps of any size (`MaxSlotsAssumption`) and any set of
well-typed heaps to start from (`HeapsAssumption`):

| Theorem | States |
|---|---|
| `StepInv` | the inductive invariant is kept by every step |
| `TypeCorrect` | `TypeOK` |
| `MarkingIsPrecise` | `MarkedIsLive` |
| `CollectionIsExact` | `SweepsExactlyGarbage` |
| `CollectionLeavesNoDangling` | `NothingDangles` |
| `CollectionKeepsRegistrations` | `RegistrationsKept` |

`MarksInv` says that the marks are contained in every closed set, which is what
`MarkedIsLive` needs and each marking step keeps.
Exactness needs the converse, that the marks are closed when marking ends:
`TracedInv` says that what is marked and no longer on the work list has its edges
marked, and `PassInv` that, if the current ephemeron pass has pushed nothing, the
entries it has visited are satisfied; a pass that ends with an empty work list has
therefore visited all of them and found the marks closed. `HeapInv` says what the
heap and the cleanup queue are in each phase in terms of the heap before.

### The language service

`CompilerServiceProofs` proves, for every set of paths, every finite set of threads and
any limits (`ServiceAssumption`):

| Theorem | States |
|---|---|
| `ServiceInvariance` | the inductive invariant holds in every reachable state |
| `ServiceTypes` | `TypeOK` |
| `LimiterCounts` | `PermitsAreCounted` |
| `SourceIdsAreUnique` | `SourceIdNamesOnePath` |
| `FailuresChangeNothing` | `ErrorsChangeNothing` |
| `OpenDocumentsPrecede` | `OpenPrecedesDisk` |
| `AnswersAreCurrent` | `AnswerIsCurrent` |

The invariant adds to the types that the lock has one owner and that a request is at a
point inside exactly if it is the owner (`LockShape`), what a request inside knows of
its document and its source id (`Purpose`), and what it has read relative to the disk
(`Reading`): a query reads the metadata before the text, so the text is not older than
the metadata, and a cached document whose metadata still match the disk is current
(`DocumentShape`). `Purpose` of every other request survives a commit because of
`LockShape`. `close` reads in the other order, and `DocumentShape` holds for the
documents outside `torn` only.

### The LSP server

`LspServerProofs` proves, for all paths, texts, versions and any number of requests
(`LspAssumption`):

| Theorem | States |
|---|---|
| `LspInvariance` | the inductive invariant holds in every reachable state |
| `LspTypes` | `TypeOK` |
| `SnapshotsMirror` | `MirrorsService` |
| `DiagnosticsAreCurrent` | `PublishedIsCurrent` |
| `DivergenceIsTold` | `NoSilentDivergence` |
| `CancellationHitsItsRequest` | `CancelledNeverSucceeds` |
| `QueriesAnswerEditor` | `QueryAnswersEditor` |

`QuietStart` says that no document is open before `initialized`, so that `initialize`,
which makes the service anew, loses none; `CancelShape` that the set of cancelled
requests and the history agree on the requests still to come.

### The API transport

`ApiServerProofs` proves, for all identifiers, sizes, limits of the partitions and
numbers of frames, and for every kind of input (`ControlAssumption`,
`ServerAssumption`):

| Theorem | States |
|---|---|
| `ApiInvariant` | the inductive invariant holds in every reachable state |
| `ApiTypes` | `TypeOK`: no counter drops below zero |
| `ApiCancellationIsLive` | `CancellationIsLive` |
| `ApiObligationsConserved` | `ObligationsConserved` |
| `ApiResponsesInOrder` | `ResponsesInOrder` |
| `ApiAccounting` | `Accounting`, the limits of the partitions included |
| `ApiCancelledNeverRuns` | `CancelledNeverRuns` |

`ResponsesInOrder` speaks of the output only. To be inductive it must be tied to what
will be written: `Order` says that tickets grow along the queue, the item in hand, the
drained list and the output, one after the other. `Points` says what the serving thread
knows at each program point, in particular that the queue is empty once it has been
drained, and that it was stopped before: nothing is admitted behind the drain, and an
item in hand has a response exactly if it owes one. `Shapes` gives every item that owes
a response its own ticket, which makes `ObligationsConserved` a statement about sets of
tickets. `Ledger` says that identifiers are outstanding under tickets already issued,
and that an item whose response is being written has given its identifier back: a
cancellation that arrives then finds nothing. `Counting` adds finiteness to the
counters, because they are cardinalities.

### The event loop

`EventLoopProofs` proves, for any set of timer ids, any delays, any length of time and
any limits of timers, microtasks and fuel (`ProviderAssumption`, `LoopAssumption`; a
delay is at least 1, which is what `clamp_delay` sees to):

| Theorem | States |
|---|---|
| `LoopInvariant` | the inductive invariant holds in every reachable state |
| `LoopTypes` | `TypeOK`, the limits included |
| `LoopNoInternalFailure` | `NoInternalFailure` |
| `LoopArmedIsTracked` | `ArmedIsTracked` |
| `LoopHandleIsCurrent` | `HandleIsCurrent` |
| `LoopEntryStops` | `EntryStopsAtSettlement` |
| `LoopTimersInOrder` | `TimersInOrder`: `EventLoop` implements `TimerQueue` |

The invariant has three parts. `ProviderInv`: `ArmedIsTracked` and `InFlight`, which
follows an arming from the command channel through the DelayQueue to the expiry channel
and says that it carries the machine's deadline while its generation is current, and
that it is past it when it arrives. `TableInv`: `Fresh` (ids and sequences are handed
out once), `Promoted` (`ready` is exactly what lies at or below the watermark, and the
watermark never runs ahead of the clock) and `Watched` (a timer that waits is armed in
the provider or lies below the watermark). `ControlInv`: where the loop may be; it waits
only with a live timer and none ready.

`NoInternalFailure` follows: a wait without an armed timer contradicts `Watched` and
`Promoted`, and a ready key has an owner by `Promoted`. The refinement is proved step by
step (`LoopStepsQueue`). Its heart is `FirstIsLive`: the least ready key is the least of
all live timers, because whatever is not ready lies above the watermark; it is due
because the watermark is not ahead of the clock.

### Weak references

`WeakJobsProofs` proves, for heaps of any size, any number of microtasks and
registrations, and every program the module allows (`MaxSlotsAssumption`,
`WeakJobsAssumption`):

| Theorem | States |
|---|---|
| `WeakInvariant` | the inductive invariant holds in every reachable state |
| `WeakTypes` | `TypeOK`, the limit of the microtask queue included |
| `WeakNoOtherDanglingReference` | `NoOtherDanglingReference` |
| `WeakObservedTargetSurvives` | `ObservedTargetSurvives` |
| `WeakCleanupIsQueuedOnce` | `CleanupIsQueuedOnce` |
| `WeakHoldingsAreDue` | `HoldingsAreDue` |
| `WeakLedgerIsExact` | `LedgerIsExact` |

A collection may come at any safepoint, so every property has to survive `Collect`.
`LiveClosed` shows that the reference definition of liveness is closed under the edges,
and `CollectHeap` that an entry which is kept refers only to entries that are kept, to
what this collection adds to `lost`, or to what was in `lost` before. So
`NoOtherDanglingReference` says exactly where the fault of section 5 ends: dangling
values come from fields of weak entries and travel by the program's own copies, never
into the kept-alive list or the queues, and while `lost` is empty nothing dangles.
`HeapShape` says that an entry uses the internal slots of its kind only, and that the dead
target of a holding has a slot below the heap's length, which is never used again: a
target that is gone stays gone. `Numbering` makes registrations distinct across all
registries, `Keeping` says that what a job has seen is on the kept-alive list.
`Queues` says that a cleanup is in one of the two queues, once, exactly while the flag of
its registry is set. `JobShape` is what a callback that throws needs: holdings that
arrive behind the last one the running cleanup knew of are queued already, so nothing
is left behind when the job ends. `WeakJobs` uses the result of `CollectorProofs`, that
a collection leaves exactly the live entries, as the definition of `Collect`.

### Only model-checked

All liveness properties: `ShutdownTerminates`, `AcceptedIsSettled`, `ObligationsMet`,
`ReaderErrorReported`, `SessionEnds`, `CancelEndsLoop`, `RunEnds`, `CallsSettle`,
`DisposeEnds`, `Terminates` and `RequestsComplete`. The prover does not handle fairness
and `ENABLED`. Every invariant, action property and refinement that a passing run checks
is also proved.

## 5. Findings

* `ApiPollWake` (`WakeEndsReader`). `PollWaker` claims that a wake makes an idle
  read return promptly. It makes `PollReader::read` fail with
  `ErrorKind::Interrupted`, which the standard library's `read_line` and
  `read_exact` retry, so an idle reader swallows both wakes. The session ends after
  `REAP_DEADLINE` with its reader orphaned: it ends in either case (`SessionEnds`).
* `ApiShutdownDrain` (`CarriedIsAnswered`). The comment above the drain says that
  reaping the reader first keeps a request that is being parsed from leaving
  unanswered. The queue is stopped before the reader is reaped, and a stopped queue
  refuses every `offer`: that request is refused without a response.
* `JobEntry` (`JobFindsItsEntry`). A job that was popped from the microtask queue is
  no root. If the program has dropped the promise that `then` returned, a collection
  inside the handler sweeps it, and the reaction fails with an internal error instead
  of settling. A registry whose cleanup runs is held in the same way.

A fourth disagreement is part of the passing run `WeakJobs`. The comment on
`trace_strong_edges` (`weakref_finalization.rs:322`) says "Marks every strong edge owned by
a weak-reference heap entry". The function marks the callback, holdings and tokens of a
registry and nothing of a `WeakRef`; the properties and the prototype of both, which
`set_own_data`, `set_prototype` and `constructor_prototype` store, it does not mark. An
object that only they lead to is swept while the program can still read the reference. The
model has it: `lost = {}` is no invariant of that run. The shortest way there is a turn
that makes a registry with a prototype of its own, deletes the global that held the
prototype, and meets a collection. `NoOtherDanglingReference` says that this is the only
cause of dangling references, and where they can get.

Observations without a run, because no line of the repository promises otherwise:

* `close` reads the text before the metadata. A write in between caches the old text
  under the new metadata, and queries answer from it until the file changes again.
  `AnswerIsCurrent` excludes exactly these documents (`torn`).
* A checkpoint schedules all cleanup candidates before it pops a job. When they do not
  fit into the queue, every later checkpoint fails at its head.
* A `$/cancelRequest` that arrives after the answer stays in the LSP server's set; as
  identifiers are not reused, it hits nothing.

## 6. What is not modelled

* Header and JSON parsing, encodings and messages: frames are classified by their
  outcome. The answers of the compiler service are opaque.
* The inbox of external jobs of the runtime: at this commit `builtins/atomics.rs` is
  not compiled, and nothing else sends to the inbox.
* The compiler's stages (scanner, parser, binder, checker, lowering, emitter), the
  bytecode verifier, the code generator and the interpreter with its builtins: well
  over nine tenths of the repository's roughly 437,000 lines. They are sequential
  functions whose inputs are programs; a small instance would be a transliteration
  that says nothing about real programs, and so the share of lines the models
  stand for is small. Generated tables (diagnostic messages) have no behaviour.
* Which entries of the heap hold which fields: `trace_entry` is modelled by kinds of
  entries, so a field it forgets would not be seen.
* Two URIs that resolve to one file through a link: the paths of `LspServer` are
  canonical.
* The import resolution of the language service, part of its opaque build.
* The verification harness, corpora and benchmarks: they test the product. The
  vendored libraries are third-party.

## 7. Plan

Modules, in this order:

1. `ClientServer`: `ApiClient` composed with the abstract promise of `ApiServer`
   (admitted requests are answered in order or the process ends), so that the
   fairness assumed of the processes becomes a property of the server.
2. `Framing`: the incremental decoder of `internal/framing.js` over every split of a
   stream into chunks, against the whole-stream definition.
3. `BuildGraph`: the order and the up-to-date check of project references, against
   a reference definition on graphs.
4. `ModuleEvaluation`: asynchronous evaluation with cycles and errors.
5. `CodeMemory` and `Tiering`: the write-xor-execute cycle of pages, promotion and
   deoptimization, the cache guard.

Theorems: the safety half of what the liveness runs show, as invariants about what
each waiting thread waits for (an idle worker of the timer provider is woken by a
command or by time; `join` waits for a worker whose channel is closed), and the
soundness of `Collect` as a theorem that cites the collector instead of a definition.
