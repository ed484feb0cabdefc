------------------------------ MODULE WeakJobs ------------------------------
(* WeakRef, FinalizationRegistry, the microtask checkpoint and the collector  *)
(* together (crates/bamts-runtime/src/builtins/weakref_finalization.rs,       *)
(* lib.rs, gc.rs): a program that allocates, links and drops objects, with a  *)
(* collection possible at every safepoint, jobs that call back into the       *)
(* program, and cleanup jobs the collector queues.                            *)
(*                                                                            *)
(* A collection is one step here; that it computes Live is what Collector     *)
(* shows.  When it happens is decided by watermarks on bytes and slots        *)
(* (GcState::request_collection); the model lets it happen at any safepoint.  *)
(* Bytes are counted in units of size_of::<Value>().                          *)
EXTENDS HeapGraph, Sequences

CONSTANTS
    MaxMicrotasks,  \* Limits::max_microtasks
    MaxIds,         \* bound on the calls of register
    Given,          \* slots allocated before the model starts: Callback and objects
    MaxLinks        \* bound on the entries with a property or a prototype of the program

ASSUME WeakJobsAssumption ==
    /\ MaxMicrotasks \in Nat
    /\ MaxIds \in Nat
    /\ MaxLinks \in Nat
    /\ Given \in 1..MaxSlots

VARIABLES
    heap,           \* Machine::heap ...
    top,            \* ... and its length
    globals,        \* slots the machine holds for good: global object, modules, timers
    frame,          \* slots in the registers of the running activations
    keptAlive,      \* Machine::kept_alive
    microtasks,     \* Machine::microtasks
    cleanupQueue,   \* Machine::finalization_cleanup_queue
    pc,             \* where the machine's thread is
    job,            \* the job being executed: a local of the Rust code, not a root
    slotBytes,      \* Machine::slot_bytes
    machineBytes,   \* Machine::machine_bytes
    nextId,         \* number of the next registration (history)
    delivered,      \* registrations whose holding was passed to a callback (history)
    observed,       \* targets a WeakRef showed to the running job (history)
    lost            \* slots swept while a weak entry still led to them (history)

heapVars == <<heap, top, slotBytes>>
rootVars == <<globals, frame>>
queueVars == <<microtasks, cleanupQueue>>
jobVars == <<pc, job>>
history == <<nextId, delivered, observed, lost>>
vars == <<heapVars, rootVars, keptAlive, machineBytes, queueVars, jobVars, history>>

Callback == 1   \* a function the program keeps in a global

NoJob == [kind |-> "none", slot |-> None, hasMore |-> FALSE]

(* MicrotaskJob: a reaction with its derived promise, a queueMicrotask        *)
(* callback, the cleanup of a registry.  The handler is Callback throughout.  *)
Job(k, s) == [NoJob EXCEPT !.kind = k, !.slot = s]
Jobs == [kind : {"reaction", "callback", "cleanup"}, slot : Values, hasMore : BOOLEAN]

EntryBytes == 1     \* HeapEntry::initial_bytes
CellBytes == 4      \* FinalizationCell::BYTES
ValueBytes == 1

Elements(q) == {q[i] : i \in DOMAIN q}

(* Fault: the queued jobs are not roots.                                      *)
Roots_NoMicrotasks == frame \cup globals \cup keptAlive \cup Elements(cleanupQueue)

(* GcState::trace_roots.  microtasks and the cleanup queue are roots; the job *)
(* that was popped is not.                                                    *)
Roots ==
    frame \cup globals \cup keptAlive \cup Elements(cleanupQueue)
        \cup ({j.slot : j \in Elements(microtasks)} \cap Slots)

Init ==
    /\ heap = [s \in Slots |-> IF s <= Given THEN [Vacant EXCEPT !.kind = "plain"] ELSE Vacant]
    /\ top = Given
    /\ globals = 1..Given
    /\ frame = {}
    /\ keptAlive = {}
    /\ microtasks = <<>>
    /\ cleanupQueue = <<>>
    /\ pc = "idle"
    /\ job = NoJob
    /\ slotBytes = [s \in Slots |-> IF s <= Given THEN EntryBytes ELSE 0]
    /\ machineBytes = 0
    /\ nextId = 1
    /\ delivered = {}
    /\ observed = {}
    /\ lost = {}

-----------------------------------------------------------------------------
(* The program.  It runs in a turn (evaluate, a timer) or in the callback of  *)
(* a job, and works on the values it can read: those in its registers, the    *)
(* globals, and the properties and prototypes of both.  Such a value may be a *)
(* reference to a slot that was swept: it is read, stored and passed on       *)
(* unexamined, and is an error where an object is needed (runtime_slot).      *)
Running == pc \in {"turn", "callback"}

Operands ==
    LET near == (frame \cup globals) \cap Occupied(heap)
    IN  (near \cup UNION {heap[s].fields : s \in near}) \ {Callback}

(* require_weakly_holdable, is_object.                                        *)
Holdable == Operands \cap Occupied(heap)

Objects(k) == {s \in Holdable : heap[s].kind = k}

(* Machine::allocate, with a new entry e put in a register.                   *)
Allocate(e) ==
    /\ top < MaxSlots
    /\ top' = top + 1
    /\ heap' = [heap EXCEPT ![top + 1] = e]
    /\ slotBytes' = [slotBytes EXCEPT ![top + 1] = EntryBytes]

RoomForLink == Cardinality({s \in Slots : heap[s].fields # {}}) < MaxLinks

(* set_own_data and set_prototype: o.p = v on an object, a WeakRef or a       *)
(* registry.  The bytes of the property are left out of the ledger.           *)
SetField(o, v) ==
    /\ Running
    /\ RoomForLink
    /\ heap[o].fields = {}
    /\ heap' = [heap EXCEPT ![o].fields = {v}]
    /\ UNCHANGED <<top, slotBytes, rootVars, keptAlive, machineBytes, queueVars, jobVars, history>>

(* A value in a register is stored in a global, a global is deleted.          *)
SetGlobal(v) ==
    /\ Running
    /\ v \notin globals
    /\ globals' = globals \cup {v}
    /\ UNCHANGED <<heapVars, frame, keptAlive, machineBytes, queueVars, jobVars, history>>

DeleteGlobal(v) ==
    /\ Running
    /\ v # Callback
    /\ globals' = globals \ {v}
    /\ UNCHANGED <<heapVars, frame, keptAlive, machineBytes, queueVars, jobVars, history>>

-----------------------------------------------------------------------------
(* Machine::keep_alive_for_job.                                               *)
KeepAlive(t) ==
    /\ keptAlive' = keptAlive \cup {t}
    /\ machineBytes' = machineBytes + (IF t \in keptAlive THEN 0 ELSE ValueBytes)

(* constructor_prototype: the prototype p of new.target if that is an object, *)
(* else the intrinsic one, which is never swept and is no field here.         *)
WithPrototype(e, p) == [e EXCEPT !.fields = {p} \cap Slots]

MayUsePrototype(p) == p # None => RoomForLink

(* weak_ref_constructor.                                                      *)
NewWeakRef(t, p) ==
    /\ Running
    /\ MayUsePrototype(p)
    /\ Allocate(WithPrototype([Vacant EXCEPT !.kind = "weakref", !.target = t], p))
    /\ frame' = frame \cup {top + 1}
    /\ KeepAlive(t)
    /\ observed' = observed \cup {t}
    /\ UNCHANGED <<globals, queueVars, jobVars, nextId, delivered, lost>>

(* Fault: deref does not keep its target for the job.                         *)
Deref_Forgets(w) ==
    /\ Running
    /\ heap[w].target # None
    /\ observed' = observed \cup {heap[w].target}
    /\ UNCHANGED <<heapVars, keptAlive, machineBytes, rootVars, queueVars, jobVars,
                   nextId, delivered, lost>>

(* weak_ref_deref: undefined once the target was cleared.                     *)
Deref(w) ==
    /\ Running
    /\ heap[w].target # None
    /\ KeepAlive(heap[w].target)
    /\ observed' = observed \cup {heap[w].target}
    /\ UNCHANGED <<heapVars, rootVars, queueVars, jobVars, nextId, delivered, lost>>

(* finalization_registry_constructor.                                         *)
NewRegistry(p) ==
    /\ Running
    /\ MayUsePrototype(p)
    /\ Allocate(WithPrototype([Vacant EXCEPT !.kind = "registry", !.callback = Callback], p))
    /\ frame' = frame \cup {top + 1}
    /\ UNCHANGED <<globals, keptAlive, machineBytes, queueVars, jobVars, history>>

(* finalization_registry_register.                                            *)
Register(r, t, h, k) ==
    /\ Running
    /\ t # h
    /\ nextId <= MaxIds
    /\ heap' = [heap EXCEPT ![r].cells =
                  @ \cup {[id |-> nextId, target |-> t, held |-> h, token |-> k]}]
    /\ slotBytes' = [slotBytes EXCEPT ![r] = @ + CellBytes]
    /\ nextId' = nextId + 1
    /\ UNCHANGED <<top, rootVars, keptAlive, machineBytes, queueVars, jobVars,
                   delivered, observed, lost>>

(* finalization_registry_unregister: only active cells are searched.          *)
Unregister(r, k) ==
    LET removed == {c \in heap[r].cells : c.token = k}
    IN  /\ Running
        /\ removed # {}
        /\ heap' = [heap EXCEPT ![r].cells = @ \ removed]
        /\ slotBytes' = [slotBytes EXCEPT ![r] = @ - Cardinality(removed) * CellBytes]
        /\ UNCHANGED <<top, rootVars, keptAlive, machineBytes, queueVars, jobVars, history>>

(* Fault: the limit is compared before the job is counted.                    *)
QueueMicrotask_OffByOne ==
    /\ Running
    /\ Len(microtasks) <= MaxMicrotasks
    /\ microtasks' = Append(microtasks, Job("callback", None))
    /\ UNCHANGED <<heapVars, rootVars, keptAlive, machineBytes, cleanupQueue, jobVars, history>>

(* enqueue_microtask_callback.                                                *)
QueueMicrotask ==
    /\ Running
    /\ Len(microtasks) + 1 <= MaxMicrotasks
    /\ microtasks' = Append(microtasks, Job("callback", None))
    /\ UNCHANGED <<heapVars, rootVars, keptAlive, machineBytes, cleanupQueue, jobVars, history>>

(* promise_then on a settled promise: the derived promise goes into the       *)
(* reaction and to the program, which here does not keep it.                  *)
Then ==
    /\ Running
    /\ Len(microtasks) + 1 <= MaxMicrotasks
    /\ Allocate([Vacant EXCEPT !.kind = "plain"])
    /\ microtasks' = Append(microtasks, Job("reaction", top + 1))
    /\ UNCHANGED <<rootVars, keptAlive, machineBytes, cleanupQueue, jobVars, history>>

-----------------------------------------------------------------------------
(* collect_if_pending at a safepoint: before an instruction of the program,   *)
(* and in the checkpoint before a job is popped.  The registries that become  *)
(* candidates are queued in the order of their slots.                         *)
InSlotOrder(S) ==
    {q \in [1..Cardinality(S) -> S] :
        Elements(q) = S /\ \A i, j \in DOMAIN q : i < j => q[i] < q[j]}

(* Fault: a cell that becomes a holding is refunded in full.                  *)
Refund_WholeCell(h, marks, s) ==
    IF h[s].kind = "registry"
    THEN Cardinality(DeadCells(h[s], marks)) * CellBytes ELSE 0

Refund(h, marks, s) ==
    IF h[s].kind = "registry"
    THEN Cardinality(DeadCells(h[s], marks)) * (CellBytes - ValueBytes) ELSE 0

(* What the collection takes although a property or the prototype of a marked *)
(* WeakRef or registry leads to it: trace_strong_edges skips both.            *)
Skipped(h, marks) ==
    (UNION {h[s].fields : s \in {w \in marks : h[w].kind \in {"weakref", "registry"}}}) \ marks

Collect ==
    /\ Running \/ pc = "pop"
    /\ \E marks \in {Live(heap, Roots)} :
           /\ heap' = Collected(heap, marks)
           /\ \E q \in InSlotOrder(NewlyQueued(heap, marks)) : cleanupQueue' = cleanupQueue \o q
           /\ slotBytes' = [s \in Slots |-> IF s \in marks
                              THEN slotBytes[s] - Refund(heap, marks, s) ELSE 0]
           /\ lost' = lost \cup Skipped(heap, marks)
    /\ UNCHANGED <<top, rootVars, keptAlive, machineBytes, microtasks, jobVars,
                   nextId, delivered, observed>>

-----------------------------------------------------------------------------
(* Machine::clear_kept_alive_for_job and the frames popped, at the end of a   *)
(* job or of a turn.                                                          *)
ClearKeptAlive ==
    /\ keptAlive' = {}
    /\ machineBytes' = machineBytes - Cardinality(keptAlive) * ValueBytes

EndJob(next) ==
    /\ pc' = next
    /\ job' = NoJob
    /\ frame' = {}
    /\ ClearKeptAlive

(* A turn of the host: evaluate, or run_one_expired_timer.                    *)
StartTurn ==
    /\ pc = "idle"
    /\ pc' = "turn"
    /\ observed' = {}
    /\ UNCHANGED <<heapVars, rootVars, keptAlive, machineBytes, queueVars, job,
                   nextId, delivered, lost>>

EndTurn ==
    /\ pc = "turn"
    /\ EndJob("idle")
    /\ UNCHANGED <<heapVars, globals, queueVars, history>>

(* drain_microtasks_core is entered.                                          *)
StartDrain ==
    /\ pc = "idle"
    /\ microtasks # <<>> \/ cleanupQueue # <<>>
    /\ pc' = "head"
    /\ UNCHANGED <<heapVars, rootVars, keptAlive, machineBytes, queueVars, job, history>>

(* schedule_finalization_cleanup_jobs at the head of the loop: with no room   *)
(* for every candidate the checkpoint fails and the candidates stay queued.   *)
Schedule ==
    /\ pc = "head"
    /\ IF Len(microtasks) + Len(cleanupQueue) > MaxMicrotasks
       THEN pc' = "idle" /\ UNCHANGED queueVars
       ELSE /\ microtasks' = microtasks \o
                 [i \in DOMAIN cleanupQueue |-> Job("cleanup", cleanupQueue[i])]
            /\ cleanupQueue' = <<>>
            /\ pc' = IF microtasks' = <<>> THEN "idle" ELSE "pop"
    /\ UNCHANGED <<heapVars, rootVars, keptAlive, machineBytes, job, history>>

(* consume_fuel fails: cancelled, or out of fuel.  The queue is kept.         *)
OutOfFuel ==
    /\ pc = "pop"
    /\ pc' = "idle"
    /\ UNCHANGED <<heapVars, rootVars, keptAlive, machineBytes, queueVars, job, history>>

(* pop_front and execute_microtask_job up to the call of the callback.        *)
PopCallback ==
    /\ pc = "pop"
    /\ Head(microtasks).kind # "cleanup"
    /\ job' = Head(microtasks)
    /\ microtasks' = Tail(microtasks)
    /\ pc' = "callback"
    /\ observed' = {}
    /\ UNCHANGED <<heapVars, rootVars, keptAlive, machineBytes, cleanupQueue,
                   nextId, delivered, lost>>

(* execute_finalization_cleanup_job, before its loop.                         *)
PopCleanup ==
    /\ pc = "pop"
    /\ Head(microtasks).kind = "cleanup"
    /\ job' = Head(microtasks)
    /\ microtasks' = Tail(microtasks)
    /\ heap' = [heap EXCEPT ![job'.slot].scheduled = FALSE]
    /\ pc' = "cleanup"
    /\ observed' = {}
    /\ UNCHANGED <<top, slotBytes, rootVars, keptAlive, machineBytes, cleanupQueue,
                   nextId, delivered, lost>>

(* Fault: the holding is passed on but stays in the registry.                 *)
CleanupNext_Peek ==
    /\ pc = "cleanup"
    /\ heap[job.slot].kind = "registry"
    /\ \E c \in heap[job.slot].pending :
          /\ frame' = {c.held} \cap Slots
          /\ delivered' = delivered \cup {c.id}
          /\ job' = [job EXCEPT !.hasMore = (heap[job.slot].pending # {c})]
    /\ pc' = "callback"
    /\ UNCHANGED <<heapVars, globals, keptAlive, machineBytes, queueVars, nextId,
                   observed, lost>>

(* A turn of its loop: the entry is looked up again, a holding is taken and   *)
(* passed to the callback.                                                    *)
CleanupNext ==
    /\ pc = "cleanup"
    /\ heap[job.slot].kind = "registry"
    /\ \E c \in heap[job.slot].pending :
          /\ heap' = [heap EXCEPT ![job.slot].pending = @ \ {c}]
          /\ slotBytes' = [slotBytes EXCEPT ![job.slot] = @ - ValueBytes]
          /\ frame' = {c.held} \cap Slots
          /\ delivered' = delivered \cup {c.id}
          /\ job' = [job EXCEPT !.hasMore = (heap[job.slot].pending # {c})]
    /\ pc' = "callback"
    /\ UNCHANGED <<top, globals, keptAlive, machineBytes, queueVars, nextId,
                   observed, lost>>

CleanupDone ==
    /\ pc = "cleanup"
    /\ heap[job.slot].kind = "registry"
    /\ heap[job.slot].pending = {}
    /\ EndJob("head")
    /\ UNCHANGED <<heapVars, globals, queueVars, history>>

(* The registry was swept while its callback ran: InvalidValue.               *)
CleanupLost ==
    /\ pc = "cleanup"
    /\ heap[job.slot].kind # "registry"
    /\ EndJob("idle")
    /\ UNCHANGED <<heapVars, globals, queueVars, history>>

(* Fault: a registry is queued without a look at its flag.                    *)
QueueCandidate_Again(r) ==
    IF heap[r].kind = "registry"
    THEN /\ heap' = [heap EXCEPT ![r].scheduled = TRUE]
         /\ cleanupQueue' = Append(cleanupQueue, r)
    ELSE UNCHANGED <<heap, cleanupQueue>>

(* Machine::queue_finalization_cleanup_candidate.                             *)
QueueCandidate(r) ==
    IF heap[r].kind = "registry" /\ ~heap[r].scheduled
    THEN /\ heap' = [heap EXCEPT ![r].scheduled = TRUE]
         /\ cleanupQueue' = Append(cleanupQueue, r)
    ELSE UNCHANGED <<heap, cleanupQueue>>

(* The callback of a cleanup job returns.                                     *)
CleanupReturns ==
    /\ pc = "callback" /\ job.kind = "cleanup"
    /\ pc' = "cleanup"
    /\ frame' = {}
    /\ UNCHANGED <<heapVars, globals, keptAlive, machineBytes, queueVars, job, history>>

(* It throws, or fails with a runtime error: what is left is queued again and *)
(* the checkpoint ends.                                                       *)
CleanupThrows ==
    /\ pc = "callback" /\ job.kind = "cleanup"
    /\ IF job.hasMore THEN QueueCandidate(job.slot) ELSE UNCHANGED <<heap, cleanupQueue>>
    /\ EndJob("idle")
    /\ UNCHANGED <<top, slotBytes, globals, microtasks, history>>

(* execute_promise_handler after the call: the derived promise is settled     *)
(* with what the handler returned or threw.                                   *)
ReactionSettles ==
    /\ pc = "callback" /\ job.kind = "reaction"
    /\ heap[job.slot].kind # "vacant"
    /\ EndJob("head")
    /\ UNCHANGED <<heapVars, globals, queueVars, history>>

(* settle_promise finds no entry: InvalidRuntimeHeapReference.                *)
ReactionLost ==
    /\ pc = "callback" /\ job.kind = "reaction"
    /\ heap[job.slot].kind = "vacant"
    /\ EndJob("idle")
    /\ UNCHANGED <<heapVars, globals, queueVars, history>>

(* A queueMicrotask callback returns, or throws: its exception is collected   *)
(* by a manual checkpoint and ends an automatic one, as a runtime error does. *)
CallbackEnds ==
    /\ pc = "callback" /\ job.kind \in {"callback", "reaction"}
    /\ \E next \in {"head", "idle"} :
          /\ job.kind = "reaction" => next = "idle"
          /\ EndJob(next)
    /\ UNCHANGED <<heapVars, globals, queueVars, history>>

-----------------------------------------------------------------------------
Program ==
    \/ QueueMicrotask \/ Then
    \/ \E o \in Holdable, v \in Operands : SetField(o, v)
    \/ \E v \in frame : SetGlobal(v)
    \/ \E v \in globals : DeleteGlobal(v)
    \/ \E p \in Holdable \cup {None} : NewRegistry(p)
    \/ \E t \in Holdable, p \in Holdable \cup {None} : NewWeakRef(t, p)
    \/ \E w \in Objects("weakref") : Deref(w)
    \/ \E r \in Objects("registry"), t \in Holdable, h \in Operands \cup {None} :
          \E k \in {t, None} : Register(r, t, h, k)
    \/ \E r \in Objects("registry"), k \in Holdable : Unregister(r, k)

Machine ==
    \/ Collect
    \/ StartTurn \/ EndTurn
    \/ StartDrain \/ Schedule \/ OutOfFuel
    \/ PopCallback \/ CallbackEnds
    \/ ReactionSettles \/ ReactionLost
    \/ PopCleanup \/ CleanupNext \/ CleanupDone \/ CleanupLost
    \/ CleanupReturns \/ CleanupThrows

Next == Program \/ Machine

Spec == Init /\ [][Next]_vars

-----------------------------------------------------------------------------
TypeOK ==
    /\ heap \in [Slots -> Entries]
    /\ top \in Slots
    /\ globals \in SUBSET Slots
    /\ frame \in SUBSET Slots
    /\ keptAlive \in SUBSET Slots
    /\ microtasks \in Seq(Jobs) /\ Len(microtasks) <= MaxMicrotasks
    /\ cleanupQueue \in Seq(Slots)
    /\ pc \in {"idle", "turn", "head", "pop", "callback", "cleanup"}
    /\ job \in Jobs \cup {NoJob}
    /\ slotBytes \in [Slots -> Nat]
    /\ machineBytes \in Nat
    /\ lost \in SUBSET Slots

(* The values a program may come across.                                      *)
Readable == Occupied(heap) \cup lost

(* References dangle from one cause only.  What the machine keeps alive or    *)
(* has queued is in the heap (trace_roots).  A register, a global, and what   *)
(* an entry of the heap holds by its properties, its prototype or its         *)
(* internal slots, is in the heap too (trace_entry), or it is a value that a  *)
(* collection had swept while a property or the prototype of a WeakRef or a   *)
(* registry led to it, and that the program copied from there.                *)
NoOtherDanglingReference ==
    /\ keptAlive \cup Elements(cleanupQueue) \subseteq Occupied(heap)
    /\ \A j \in Elements(microtasks) : j.slot \in Occupied(heap) \cup {None}
    /\ frame \cup globals \subseteq Readable
    /\ \A s \in Occupied(heap) : OwnedEdges(heap[s]) \subseteq Readable

(* A target a WeakRef has shown to the running job, by its construction or by *)
(* deref, is not collected before that job ends (keep_alive_for_job,          *)
(* clear_kept_alive_for_job).                                                 *)
ObservedTargetSurvives == 
    pc \in {"turn", "callback", "cleanup"} => observed \subseteq Occupied(heap)

Occurrences(r) ==
    Cardinality({i \in DOMAIN cleanupQueue : cleanupQueue[i] = r})
      + Cardinality({i \in DOMAIN microtasks : microtasks[i] = Job("cleanup", r)})

(* A cleanup is neither lost nor doubled: a registry has a cleanup queued,    *)
(* exactly one, while its flag says so, and a registry with holdings to       *)
(* deliver has the flag set or is in the middle of its cleanup, also when a   *)
(* callback throws, or a collection inside the callback finds more            *)
(* (cleanup_scheduled).                                                       *)
CleanupIsQueuedOnce ==
    \A r \in Slots : heap[r].kind = "registry" =>
        /\ Occurrences(r) = (IF heap[r].scheduled THEN 1 ELSE 0)
        /\ heap[r].pending # {} =>
              heap[r].scheduled \/ (job.kind = "cleanup" /\ job.slot = r)

(* A holding is passed to the callback at most once and only for a target     *)
(* that is gone; while the target lives its registration stays a cell         *)
(* (process_weak_targets_after_marking, execute_finalization_cleanup_job).    *)
HoldingsAreDue ==
    \A r \in Slots : heap[r].kind = "registry" =>
        /\ \A c \in heap[r].cells : c.target \in Occupied(heap) /\ c.id \notin delivered
        /\ \A c \in heap[r].pending : c.target \notin Occupied(heap) /\ c.id \notin delivered
        /\ \A c, d \in heap[r].cells \cup heap[r].pending : c.id = d.id => c = d

(* The byte ledger is exact, so that no refund exceeds its charge: an entry   *)
(* is charged for itself, its cells and its undelivered holdings, the machine *)
(* for the targets it keeps alive (charge_slot, refund_slot, refund_machine). *)
LedgerIsExact ==
    /\ \A s \in Slots : slotBytes[s] =
          IF heap[s].kind = "vacant" THEN 0
          ELSE EntryBytes + CellBytes * Cardinality(heap[s].cells)
                          + ValueBytes * Cardinality(heap[s].pending)
    /\ machineBytes = ValueBytes * Cardinality(keptAlive)

(* What a running job works for is there until the job ends: "reactions       *)
(* settle their derived promises", "queued cleanup registry survives gc until *)
(* microtask finishes" (execute_promise_handler,                              *)
(* execute_finalization_cleanup_job).                                         *)
JobFindsItsEntry == job.slot # None => heap[job.slot].kind # "vacant"
=============================================================================
