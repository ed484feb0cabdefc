----------------------------- MODULE Collector -----------------------------
(* GcState::collect (crates/bamts-runtime/src/gc.rs), step by step over an    *)
(* arbitrary heap: roots, the work list, the ephemeron fixed point, weak      *)
(* targets, purge and sweep.  The mutator does not run meanwhile.  The Vecs   *)
(* work and weak_collections are modelled as sets: the steps take any member, *)
(* so every order of tracing is covered.                                      *)
EXTENDS HeapGraph

CONSTANT Heaps      \* the heaps a collection may start from

ASSUME HeapsAssumption == Heaps \subseteq [Slots -> Entries]

VARIABLES
    before,     \* the heap and ...
    roots,      \* ... the slots the machine holds when the collection starts
    heap,       \* Machine::heap
    marks,      \* GcState::marks
    work,       \* GcState::work
    weakColls,  \* GcState::weak_collections
    todo,       \* weak entries the current ephemeron pass has not looked at
    queued,     \* registries pushed on finalization_cleanup_queue
    phase

vars == <<before, roots, heap, marks, work, weakColls, todo, queued, phase>>

Phases == {"roots", "drain", "ephemerons", "targets", "purge", "sweep", "done"}

Init ==
    /\ heap \in Heaps
    /\ before = heap
    /\ roots \in SUBSET Slots
    /\ marks = {}
    /\ work = {}
    /\ weakColls = {}
    /\ todo = {}
    /\ queued = {}
    /\ phase = "roots"

-----------------------------------------------------------------------------
(* gc.rs mark_index on a set of indices: those that are in the heap, not yet  *)
(* marked and not vacant are marked and pushed on the work list.              *)
Unmarked(S) == (S \cap Occupied(heap)) \ marks

MarkAll(S) ==
    /\ marks' = marks \cup Unmarked(S)
    /\ work' = (work \cup Unmarked(S))

(* GcState::trace_roots.                                                      *)
TraceRoots ==
    /\ phase = "roots"
    /\ MarkAll(roots)
    /\ phase' = "drain"
    /\ UNCHANGED <<before, roots, heap, weakColls, todo, queued>>

(* One turn of GcState::drain: pop an index and trace its entry.              *)
Drain(i) ==
    /\ phase = "drain"
    /\ i \in work
    /\ LET reached == Unmarked(TraceEntry(heap[i]))
       IN  /\ marks' = marks \cup reached
           /\ work' = (work \ {i}) \cup reached
    /\ weakColls' = IF IsWeakCollection(heap[i]) THEN weakColls \cup {i} ELSE weakColls
    /\ UNCHANGED <<before, roots, heap, todo, queued, phase>>

(* The work list is empty: GcState::ephemeron_fixed_point starts a pass over  *)
(* the weak collections found so far.                                         *)
StartPass ==
    /\ phase = "drain"
    /\ work = {}
    /\ todo' = UNION {{<<c, p>> : p \in Ephemerons(heap[c])} : c \in weakColls}
    /\ phase' = "ephemerons"
    /\ UNCHANGED <<before, roots, heap, marks, work, weakColls, queued>>

(* One entry of a pass: its value is marked when its key is.                  *)
VisitEntry(t) ==
    /\ phase = "ephemerons"
    /\ t \in todo
    /\ MarkAll(IF t[2][1] \in marks THEN {t[2][2]} ELSE {})
    /\ todo' = todo \ {t}
    /\ UNCHANGED <<before, roots, heap, weakColls, queued, phase>>

(* Fault: a single pass.                                                      *)
EndPass_Once ==
    /\ phase = "ephemerons"
    /\ todo = {}
    /\ phase' = "targets"
    /\ UNCHANGED <<before, roots, heap, marks, work, weakColls, todo, queued>>

(* Fault: another pass follows even if nothing was marked.                    *)
EndPass_Again ==
    /\ phase = "ephemerons"
    /\ todo = {}
    /\ phase' = "drain"
    /\ UNCHANGED <<before, roots, heap, marks, work, weakColls, todo, queued>>

(* A pass is over: the fixed point is reached if it marked nothing, else what *)
(* it marked is traced and another pass follows.                              *)
EndPass ==
    /\ phase = "ephemerons"
    /\ todo = {}
    /\ phase' = IF work = {} THEN "targets" ELSE "drain"
    /\ UNCHANGED <<before, roots, heap, marks, work, weakColls, todo, queued>>

(* Machine::process_weak_targets_after_marking.                               *)
ProcessWeakTargets ==
    /\ phase = "targets"
    /\ heap' = ProcessTargets(heap, marks)
    /\ queued' = queued \cup NewlyQueued(heap, marks)
    /\ phase' = "purge"
    /\ UNCHANGED <<before, roots, marks, work, weakColls, todo>>

PurgeWeakEntries ==
    /\ phase = "purge"
    /\ heap' = Purge(heap, marks, weakColls)
    /\ phase' = "sweep"
    /\ UNCHANGED <<before, roots, marks, work, weakColls, todo, queued>>

SweepHeap ==
    /\ phase = "sweep"
    /\ heap' = Sweep(heap, marks)
    /\ phase' = "done"
    /\ UNCHANGED <<before, roots, marks, work, weakColls, todo, queued>>

Next ==
    \/ TraceRoots
    \/ \E i \in Slots : Drain(i)
    \/ StartPass
    \/ \E t \in todo : VisitEntry(t)
    \/ EndPass
    \/ ProcessWeakTargets
    \/ PurgeWeakEntries
    \/ SweepHeap

Spec == Init /\ [][Next]_vars

(* collect runs to its end in one call of the machine's thread.               *)
LiveSpec == Spec /\ WF_vars(Next)

-----------------------------------------------------------------------------
TypeOK ==
    /\ before \in [Slots -> Entries]
    /\ roots \in SUBSET Slots
    /\ heap \in [Slots -> Entries]
    /\ marks \in SUBSET Slots
    /\ work \in SUBSET marks
    /\ weakColls \in SUBSET marks
    /\ todo \in SUBSET (Slots \X (Slots \X Values))
    /\ queued \in SUBSET Slots
    /\ phase \in Phases

(* Marking is exact: what is marked is reachable at every moment of the       *)
(* collection, so nothing unreachable is kept (trace_roots, drain,            *)
(* ephemeron_fixed_point).                                                    *)
MarkedIsLive == marks \subseteq Live(before, roots)

(* A collection removes exactly what is not live: the entries that were there *)
(* and are reachable through strong edges and through WeakMap entries with a  *)
(* live key survive, every other slot is vacant (collect, sweep).             *)
SweepsExactlyGarbage == phase = "done" => Occupied(heap) = Live(before, roots)

(* After a collection no weak reference leads to a vacant slot: the target of *)
(* a surviving WeakRef, of a surviving cell, the keys of surviving weak       *)
(* collections (process_weak_targets_after_marking, purge_weak_entries); nor  *)
(* does a traced edge that led to an entry.                                   *)
NothingDangles ==
    phase = "done" =>
        \A s \in Occupied(heap) :
            /\ heap[s].kind = "weakref" => heap[s].target \in Occupied(heap) \cup {None}
            /\ heap[s].kind = "registry" =>
                  \A c \in heap[s].cells : c.target \in Occupied(heap)
            /\ IsWeakCollection(heap[s]) =>
                  \A p \in heap[s].weak : p[1] \in Occupied(heap)
            /\ TraceEntry(heap[s]) \cap Occupied(before) \subseteq Occupied(heap)
            /\ \A p \in Ephemerons(heap[s]) :
                  p[2] \in Occupied(before) => p[2] \in Occupied(heap)

(* No registration of a surviving registry is lost or doubled by a            *)
(* collection: a cell stays a cell exactly while its target lives, otherwise  *)
(* its holding waits for cleanup, and a registry with holdings has been       *)
(* queued once (process_weak_targets_after_marking).                          *)
RegistrationsKept ==
    phase = "done" =>
        \A s \in Occupied(heap) : heap[s].kind = "registry" =>
            /\ heap[s].cells \cup heap[s].pending = before[s].cells \cup before[s].pending
            /\ \A c \in before[s].cells :
                  c \in heap[s].cells <=> c.target \in Live(before, roots)
            /\ before[s].pending \subseteq heap[s].pending
            /\ heap[s].pending # {} => heap[s].scheduled
            /\ s \in queued <=> heap[s].scheduled /\ ~before[s].scheduled

(* The collection ends: every pass of the ephemeron loop but the last marks   *)
(* something.                                                                 *)
Terminates == <>(phase = "done")
=============================================================================
