----------------------------- MODULE HeapGraph -----------------------------
(* The runtime heap as the collector sees it (crates/bamts-runtime/src/gc.rs  *)
(* and builtins/weakref_finalization.rs): entries, the edges tracing follows, *)
(* and what one collection does to an entry.                                  *)
(*                                                                            *)
(* A slot of Machine::heap is an index in 1..MaxSlots; slots are never used   *)
(* again (Machine::allocate only pushes), so a slot that was swept, and one   *)
(* that was not allocated yet, are both "vacant".  A JavaScript value is a    *)
(* slot, or None for every value that is not a heap reference.                *)
EXTENDS Naturals, FiniteSets

CONSTANT MaxSlots   \* bound on the length of Machine::heap

ASSUME MaxSlotsAssumption == MaxSlots \in Nat

Slots == 1..MaxSlots

(* Value::UNDEFINED, numbers, ...: runtime_index answers None for them.       *)
None == 0

Values == 0..MaxSlots

(* HeapEntry, grouped by how it is traced.  "plain" stands for the entries    *)
(* whose every field is a strong edge (objects, arrays, functions, promises,  *)
(* timers, activations, strings, ...).                                        *)
Kinds == {"vacant", "plain", "weakmap", "weakset", "weakref", "registry"}

(* FinalizationCell.  The id numbers the calls of register, so that two equal *)
(* registrations stay apart when the Vec of cells is modelled as a set.       *)
Cells == [id : Nat, target : Slots, held : Values, token : Values]

(* fields: own properties, prototype, elements, captures, ...; weak: the live *)
(* (key, value) entries of a weak collection; target: of a WeakRef; the rest: *)
(* of a FinalizationRegistry.                                                 *)
Entries == [kind : Kinds, fields : SUBSET Slots, weak : SUBSET (Slots \X Values),
            target : Values, callback : Values, cells : SUBSET Cells,
            pending : SUBSET Cells, scheduled : BOOLEAN]

Vacant == [kind |-> "vacant", fields |-> {}, weak |-> {}, target |-> None,
           callback |-> None, cells |-> {}, pending |-> {}, scheduled |-> FALSE]

Occupied(h) == {s \in Slots : h[s].kind # "vacant"}

IsWeakCollection(e) == e.kind \in {"weakmap", "weakset"}

-----------------------------------------------------------------------------
(* weakref_finalization::trace_strong_edges, for a registry: the callback,    *)
(* the holdings and the tokens of its cells, the holdings awaiting cleanup.   *)
RegistryEdges(e) ==
    ({e.callback} \cup {c.held : c \in e.cells} \cup {c.token : c \in e.cells}
        \cup {c.held : c \in e.pending}) \cap Slots

(* gc.rs trace_entry: the slots marked because entry e is marked.  A WeakRef  *)
(* and a registry are left to trace_strong_edges, which visits neither their  *)
(* properties nor their prototype.                                            *)
TraceEntry(e) ==
    CASE e.kind = "plain"     -> e.fields
      [] IsWeakCollection(e)  -> e.fields
      [] e.kind = "registry"  -> RegistryEdges(e)
      [] OTHER                -> {}

(* The slots a program reaches from entry e by reading its properties, its    *)
(* prototype or its internal strong slots, whatever the collector does.       *)
OwnedEdges(e) == e.fields \cup RegistryEdges(e)

(* The ephemeron edges of a WeakMap: the value is an edge once the key is     *)
(* marked.  A WeakSet has none.                                               *)
Ephemerons(e) == IF e.kind = "weakmap" THEN e.weak ELSE {}

-----------------------------------------------------------------------------
(* S is a set of slots from which tracing leads nowhere else.  mark_index     *)
(* ignores a reference to a vacant slot.                                      *)
Closed(S, h, roots) ==
    /\ roots \cap Occupied(h) \subseteq S
    /\ \A s \in S : TraceEntry(h[s]) \cap Occupied(h) \subseteq S
    /\ \A s \in S : \A p \in Ephemerons(h[s]) :
          p[1] \in S /\ p[2] \in Occupied(h) => p[2] \in S

(* The reference definition of what is live: the least closed set.            *)
Live(h, roots) ==
    {s \in Slots : \A S \in SUBSET Slots : Closed(S, h, roots) => s \in S}

-----------------------------------------------------------------------------
(* Machine::process_weak_targets_after_marking, the part on one marked entry: *)
(* a WeakRef forgets an unmarked target; the cells of a registry whose target *)
(* is unmarked become pending holdings, and a registry with holdings is       *)
(* queued unless it already was.                                              *)
DeadCells(e, marks) == {c \in e.cells : c.target \notin marks}

QueuesRegistry(e, marks) ==
    /\ e.kind = "registry"
    /\ e.pending \cup DeadCells(e, marks) # {}
    /\ ~e.scheduled

WeakTargetsProcessed(e, marks) ==
    CASE e.kind = "weakref" /\ e.target \notin marks ->
            [e EXCEPT !.target = None]
      [] e.kind = "registry" ->
            [e EXCEPT !.cells = @ \ DeadCells(e, marks),
                      !.pending = @ \cup DeadCells(e, marks),
                      !.scheduled = @ \/ QueuesRegistry(e, marks)]
      [] OTHER -> e

ProcessTargets(h, marks) ==
    [s \in Slots |-> IF s \in marks THEN WeakTargetsProcessed(h[s], marks)
                     ELSE h[s]]

NewlyQueued(h, marks) == {s \in marks : QueuesRegistry(h[s], marks)}

(* GcState::purge_weak_entries: of the weak collections found while tracing,  *)
(* the marked ones keep the entries whose key is marked.                      *)
Purge(h, marks, weakCollections) ==
    [s \in Slots |->
        IF s \in weakCollections \cap marks /\ IsWeakCollection(h[s])
        THEN [h[s] EXCEPT !.weak = {p \in @ : p[1] \in marks}]
        ELSE h[s]]

(* GcState::sweep.                                                            *)
Sweep(h, marks) == [s \in Slots |-> IF s \in marks THEN h[s] ELSE Vacant]

(* One whole collection of a heap, given what was marked.                     *)
Collected(h, marks) ==
    Sweep(Purge(ProcessTargets(h, marks), marks, Slots), marks)
=============================================================================
