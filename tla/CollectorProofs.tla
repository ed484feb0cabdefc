-------------------------- MODULE CollectorProofs --------------------------
(* For every heap and every set of roots, a collection (Collector) marks the  *)
(* least closed set and sweeps exactly the rest.  The inductive invariant is  *)
(* the three-colour one: a slot that is marked and no longer on the work list *)
(* has its strong edges marked (black), a marked slot on the list is grey,    *)
(* and an ephemeron pass that marks nothing has seen every entry.             *)
EXTENDS Collector, TLAPS

(* Until the weak targets are processed the collector only reads the heap.    *)
Reading == {"roots", "drain", "ephemerons", "targets"}

(* Phases entered with the fixed point reached.                               *)
Marked == {"targets", "purge", "sweep", "done"}

HeapInv ==
    /\ phase \in Reading => heap = before /\ queued = {}
    /\ phase = "purge" =>
          heap = ProcessTargets(before, marks) /\ queued = NewlyQueued(before, marks)
    /\ phase = "sweep" =>
          /\ heap = Purge(ProcessTargets(before, marks), marks, weakColls)
          /\ queued = NewlyQueued(before, marks)
    /\ phase = "done" =>
          /\ heap = Sweep(Purge(ProcessTargets(before, marks), marks, weakColls), marks)
          /\ queued = NewlyQueued(before, marks)

MarksInv ==
    /\ marks \subseteq Occupied(before)
    /\ \A S \in SUBSET Slots : Closed(S, before, roots) => marks \subseteq S
    /\ phase = "roots" => marks = {}
    /\ phase # "roots" => roots \cap Occupied(before) \subseteq marks

TracedInv ==
    /\ \A s \in marks \ work : TraceEntry(before[s]) \cap Occupied(before) \subseteq marks
    /\ \A s \in marks \ work : IsWeakCollection(before[s]) => s \in weakColls
    /\ phase \in Marked \cup {"roots"} => work = {}

PassInv ==
    /\ phase = "ephemerons" /\ work = {} =>
          \A s \in marks : \A p \in Ephemerons(before[s]) :
              <<s, p>> \in todo \/ (p[1] \in marks /\ p[2] \in Occupied(before) => p[2] \in marks)
    /\ \A t \in todo : t[1] \in marks /\ t[2] \in Ephemerons(before[t[1]])
    /\ phase # "ephemerons" => todo = {}
    /\ phase \in Marked => Closed(marks, before, roots)

IInv == TypeOK /\ HeapInv /\ MarksInv /\ TracedInv /\ PassInv

-----------------------------------------------------------------------------
(* The edges of an entry are slots.                                           *)
LEMMA EdgesAreSlots ==
    ASSUME NEW e \in Entries
    PROVE  /\ TraceEntry(e) \subseteq Slots
           /\ Ephemerons(e) \subseteq Slots \X Values
<1>1. RegistryEdges(e) \subseteq Slots
  BY DEF RegistryEdges
<1>2. e.fields \subseteq Slots /\ e.weak \subseteq Slots \X Values
  BY DEF Entries
<1> QED
  BY <1>1, <1>2 DEF TraceEntry, Ephemerons, IsWeakCollection

(* Only a weak collection has ephemerons.                                     *)
LEMMA EphemeronsAreWeak ==
    ASSUME NEW e, NEW p \in Ephemerons(e)
    PROVE  IsWeakCollection(e)
BY DEF Ephemerons, IsWeakCollection

(* Processing weak targets keeps an entry an entry, of the same kind, with    *)
(* the same fields and weak entries.                                          *)
LEMMA TargetsKeepEntry ==
    ASSUME NEW e \in Entries, NEW M
    PROVE  LET f == WeakTargetsProcessed(e, M)
           IN  /\ f \in Entries
               /\ f.kind = e.kind /\ f.fields = e.fields /\ f.weak = e.weak
               /\ f.callback = e.callback
               /\ e.kind # "registry" =>
                     f.cells = e.cells /\ f.pending = e.pending /\ f.scheduled = e.scheduled
               /\ e.kind = "registry" =>
                     /\ f.cells = e.cells \ DeadCells(e, M)
                     /\ f.pending = e.pending \cup DeadCells(e, M)
                     /\ f.scheduled = (e.scheduled \/ QueuesRegistry(e, M))
               /\ e.kind = "weakref" =>
                     f.target = IF e.target \in M THEN e.target ELSE None
<1> DEFINE f == WeakTargetsProcessed(e, M)
<1>1. /\ e.kind \in Kinds /\ e.fields \in SUBSET Slots
      /\ e.weak \in SUBSET (Slots \X Values) /\ e.target \in Values
      /\ e.callback \in Values /\ e.cells \in SUBSET Cells
      /\ e.pending \in SUBSET Cells /\ e.scheduled \in BOOLEAN
  BY DEF Entries
<1>2. DeadCells(e, M) \subseteq Cells
  BY <1>1 DEF DeadCells
<1>3. CASE e.kind = "weakref" /\ e.target \notin M
  <2>1. f = [e EXCEPT !.target = None]
    BY <1>3 DEF WeakTargetsProcessed
  <2>2. None \in Values
    BY MaxSlotsAssumption DEF None, Values
  <2> QED
    BY <1>1, <1>3, <2>1, <2>2 DEF Entries
<1>4. CASE e.kind = "registry"
  <2> DEFINE q == QueuesRegistry(e, M)
  <2>1. f = [e EXCEPT !.cells = @ \ DeadCells(e, M),
                      !.pending = @ \cup DeadCells(e, M),
                      !.scheduled = @ \/ q]
    BY <1>4 DEF WeakTargetsProcessed
  <2>2. (e.scheduled \/ q) \in BOOLEAN
    OBVIOUS
  <2> HIDE DEF q
  <2>3. f \in Entries
    BY <1>1, <1>2, <2>1, <2>2 DEF Entries
  <2>4. /\ f.kind = e.kind /\ f.fields = e.fields /\ f.weak = e.weak
        /\ f.callback = e.callback
        /\ f.cells = e.cells \ DeadCells(e, M)
        /\ f.pending = e.pending \cup DeadCells(e, M)
        /\ f.scheduled = (e.scheduled \/ q)
    BY <1>1, <2>1 DEF Entries
  <2> QED
    BY <1>4, <2>3, <2>4 DEF q
<1>5. CASE ~(e.kind = "weakref" /\ e.target \notin M) /\ e.kind # "registry"
  <2>1. f = e
    BY <1>5 DEF WeakTargetsProcessed
  <2> QED
    BY <1>5, <2>1
<1> QED
  BY <1>3, <1>4, <1>5

(* Processing weak targets adds no strong edge.                               *)
LEMMA TargetsAddNoEdge ==
    ASSUME NEW e \in Entries, NEW M
    PROVE  /\ TraceEntry(WeakTargetsProcessed(e, M)) \subseteq TraceEntry(e)
           /\ Ephemerons(WeakTargetsProcessed(e, M)) = Ephemerons(e)
<1> DEFINE f == WeakTargetsProcessed(e, M)
<1>1. f.kind = e.kind /\ f.fields = e.fields /\ f.weak = e.weak /\ f.callback = e.callback
  BY TargetsKeepEntry
<1>2. e.kind = "registry" => /\ f.cells = e.cells \ DeadCells(e, M)
                             /\ f.pending = e.pending \cup DeadCells(e, M)
  BY TargetsKeepEntry
<1> HIDE DEF f
<1>3. e.kind = "registry" => RegistryEdges(f) \subseteq RegistryEdges(e)
  <2> SUFFICES ASSUME e.kind = "registry", NEW x \in RegistryEdges(f)
               PROVE  x \in RegistryEdges(e)
    OBVIOUS
  <2>1. DeadCells(e, M) \subseteq e.cells
    BY DEF DeadCells
  <2> QED
    BY <1>1, <1>2, <2>1 DEF RegistryEdges
<1>4. TraceEntry(f) \subseteq TraceEntry(e)
  BY <1>1, <1>3 DEF TraceEntry, IsWeakCollection
<1>5. Ephemerons(f) = Ephemerons(e)
  BY <1>1 DEF Ephemerons
<1> QED
  BY <1>4, <1>5 DEF f

-----------------------------------------------------------------------------
(* The three passes after marking map heaps to heaps.                         *)
LEMMA PassesKeepType ==
    ASSUME NEW h \in [Slots -> Entries], NEW M \in SUBSET Slots, NEW W
    PROVE  /\ ProcessTargets(h, M) \in [Slots -> Entries]
           /\ Purge(h, M, W) \in [Slots -> Entries]
           /\ Sweep(h, M) \in [Slots -> Entries]
<1>1. ProcessTargets(h, M) \in [Slots -> Entries]
  <2>1. \A s \in Slots : WeakTargetsProcessed(h[s], M) \in Entries
    BY TargetsKeepEntry
  <2> QED
    BY <2>1 DEF ProcessTargets
<1>2. Purge(h, M, W) \in [Slots -> Entries]
  <2>1. \A e \in Entries : [e EXCEPT !.weak = {p \in @ : p[1] \in M}] \in Entries
    BY DEF Entries
  <2> QED
    BY <2>1 DEF Purge
<1>3. Sweep(h, M) \in [Slots -> Entries]
  <2>1. Vacant \in Entries
    BY MaxSlotsAssumption DEF Vacant, Entries, Kinds, None, Values
  <2> QED
    BY <2>1 DEF Sweep
<1> QED
  BY <1>1, <1>2, <1>3

(* The invariant holds when collect has cleared its marks and its work list. *)
THEOREM InitInv == Init => IInv
<1> SUFFICES ASSUME Init PROVE IInv
  OBVIOUS
<1>1. TypeOK
  BY HeapsAssumption DEF Init, TypeOK, Phases
<1>2. HeapInv
  BY DEF Init, HeapInv, Reading
<1>3. MarksInv
  BY DEF Init, MarksInv
<1>4. TracedInv
  BY DEF Init, TracedInv
<1>5. PassInv
  BY DEF Init, PassInv, Marked
<1> QED
  BY <1>1, <1>2, <1>3, <1>4, <1>5 DEF IInv

-----------------------------------------------------------------------------
(* Tracing the roots preserves the invariant.                                 *)
LEMMA TraceRootsKeeps == IInv /\ TraceRoots => IInv'
<1> SUFFICES ASSUME IInv, TraceRoots PROVE IInv'
  OBVIOUS
<1> USE DEF IInv, TraceRoots
<1>1. /\ phase = "roots" /\ phase' = "drain" /\ marks = {} /\ work = {} /\ todo = {}
      /\ heap = before /\ queued = {}
  BY DEF HeapInv, MarksInv, TracedInv, PassInv, Reading, Marked
<1>2. marks' = roots \cap Occupied(before) /\ work' = marks'
  BY <1>1 DEF MarkAll, Unmarked
<1>3. marks' \subseteq Slots
  BY <1>2 DEF Occupied
<1>4. TypeOK'
  BY <1>1, <1>2, <1>3 DEF TypeOK, Phases
<1>5. HeapInv'
  BY <1>1 DEF HeapInv, Reading
<1>6. MarksInv'
  BY <1>1, <1>2 DEF MarksInv, Closed
<1>7. TracedInv'
  BY <1>1, <1>2 DEF TracedInv, Marked
<1>8. PassInv'
  BY <1>1 DEF PassInv, Marked
<1> QED
  BY <1>4, <1>5, <1>6, <1>7, <1>8

(* Tracing one entry: it turns black, what it reaches grey.                   *)
LEMMA DrainKeeps == ASSUME NEW i \in Slots PROVE IInv /\ Drain(i) => IInv'
<1> SUFFICES ASSUME IInv, Drain(i) PROVE IInv'
  OBVIOUS
<1> DEFINE reached == (TraceEntry(before[i]) \cap Occupied(before)) \ marks
<1>1. /\ phase = "drain" /\ phase' = "drain" /\ heap = before /\ queued = {} /\ todo = {}
      /\ i \in work /\ i \in marks
      /\ UNCHANGED <<before, roots, heap, todo, queued>>
  BY DEF IInv, TypeOK, HeapInv, PassInv, Reading, Drain
<1>2. marks' = marks \cup reached /\ work' = (work \ {i}) \cup reached
  BY <1>1 DEF Drain, Unmarked
<1>3. weakColls' = IF IsWeakCollection(before[i]) THEN weakColls \cup {i} ELSE weakColls
  BY <1>1 DEF Drain
<1>4. reached \subseteq Occupied(before) /\ reached \subseteq Slots
  BY DEF Occupied
<1>5. TypeOK'
  <2>1. marks' \in SUBSET Slots /\ work' \in SUBSET marks' /\ weakColls' \in SUBSET marks'
    BY <1>1, <1>2, <1>3, <1>4 DEF IInv, TypeOK
  <2> QED
    BY <1>1, <2>1 DEF IInv, TypeOK, Phases
<1>6. HeapInv'
  BY <1>1 DEF HeapInv, Reading
<1>7. MarksInv'
  <2>1. marks' \subseteq Occupied(before)
    BY <1>2, <1>4 DEF IInv, MarksInv
  <2>2. ASSUME NEW S \in SUBSET Slots, Closed(S, before, roots)
        PROVE  marks' \subseteq S
    <3>1. marks \subseteq S
      BY <2>2 DEF IInv, MarksInv
    <3>2. TraceEntry(before[i]) \cap Occupied(before) \subseteq S
      BY <1>1, <2>2, <3>1 DEF Closed
    <3> QED
      BY <1>2, <3>1, <3>2
  <2>3. roots \cap Occupied(before) \subseteq marks'
    BY <1>1, <1>2 DEF IInv, MarksInv
  <2> QED
    BY <1>1, <2>1, <2>2, <2>3 DEF MarksInv
<1>8. TracedInv'
  <2>1. ASSUME NEW s \in marks' \ work'
        PROVE  /\ TraceEntry(before[s]) \cap Occupied(before) \subseteq marks'
               /\ IsWeakCollection(before[s]) => s \in weakColls'
    <3>1. CASE s = i
      BY <1>2, <1>3, <3>1
    <3>2. CASE s # i
      <4>1. s \in marks \ work
        BY <1>2, <2>1, <3>2
      <4> QED
        BY <1>2, <1>3, <4>1 DEF IInv, TracedInv
    <3> QED
      BY <3>1, <3>2
  <2> QED
    BY <1>1, <2>1 DEF TracedInv, Marked
<1>9. PassInv'
  BY <1>1 DEF PassInv, Marked
<1> QED
  BY <1>5, <1>6, <1>7, <1>8, <1>9 DEF IInv

(* A pass starts with every entry of every marked WeakMap to look at.         *)
LEMMA StartPassKeeps == IInv /\ StartPass => IInv'
<1> SUFFICES ASSUME IInv, StartPass PROVE IInv'
  OBVIOUS
<1>1. /\ phase = "drain" /\ phase' = "ephemerons" /\ heap = before /\ queued = {} /\ work = {}
      /\ UNCHANGED <<before, roots, heap, marks, work, weakColls, queued>>
      /\ todo' = UNION {{<<c, p>> : p \in Ephemerons(before[c])} : c \in weakColls}
  BY DEF IInv, HeapInv, Reading, StartPass
<1>2. \A t \in todo' : \E c \in weakColls : \E p \in Ephemerons(before[c]) : t = <<c, p>>
  BY <1>1
<1>3. \A c \in weakColls : \A p \in Ephemerons(before[c]) : <<c, p>> \in todo'
  BY <1>1
<1>4. weakColls \subseteq marks /\ marks \subseteq Slots /\ before \in [Slots -> Entries]
  BY DEF IInv, TypeOK
<1>5. todo' \subseteq Slots \X (Slots \X Values)
  BY <1>2, <1>4, EdgesAreSlots
<1>6. TypeOK'
  BY <1>1, <1>5 DEF IInv, TypeOK, Phases
<1>7. HeapInv'
  BY <1>1 DEF HeapInv, Reading
<1>8. MarksInv'
  BY <1>1 DEF IInv, MarksInv
<1>9. TracedInv'
  BY <1>1 DEF IInv, TracedInv, Marked
<1>10. PassInv'
  <2>1. \A s \in marks : \A p \in Ephemerons(before[s]) : <<s, p>> \in todo'
    BY <1>1, <1>3, EphemeronsAreWeak DEF IInv, TracedInv
  <2>2. \A t \in todo' : t[1] \in marks /\ t[2] \in Ephemerons(before[t[1]])
    BY <1>2, <1>4
  <2> QED
    BY <1>1, <2>1, <2>2 DEF PassInv, Marked
<1> QED
  BY <1>6, <1>7, <1>8, <1>9, <1>10 DEF IInv

(* Looking at one weak entry.                                                 *)
LEMMA VisitEntryKeeps == ASSUME NEW t \in todo PROVE IInv /\ VisitEntry(t) => IInv'
<1> SUFFICES ASSUME IInv, VisitEntry(t) PROVE IInv'
  OBVIOUS
<1> DEFINE v == t[2][2]
           new == ((IF t[2][1] \in marks THEN {v} ELSE {}) \cap Occupied(before)) \ marks
<1>1. /\ phase = "ephemerons" /\ phase' = "ephemerons" /\ heap = before /\ queued = {}
      /\ UNCHANGED <<before, roots, heap, weakColls, queued>>
      /\ todo' = todo \ {t}
  BY DEF IInv, HeapInv, Reading, VisitEntry
<1>2. marks' = marks \cup new /\ work' = work \cup new
  BY <1>1 DEF VisitEntry, MarkAll, Unmarked
<1>3. new \subseteq Occupied(before) /\ new \subseteq Slots
  BY DEF Occupied
<1>4. t[1] \in marks /\ t[2] \in Ephemerons(before[t[1]])
  BY DEF IInv, PassInv
<1>5. TypeOK'
  <2>1. marks' \in SUBSET Slots /\ work' \in SUBSET marks' /\ weakColls' \in SUBSET marks'
    BY <1>1, <1>2, <1>3 DEF IInv, TypeOK
  <2> QED
    BY <1>1, <2>1 DEF IInv, TypeOK, Phases
<1>6. HeapInv'
  BY <1>1 DEF HeapInv, Reading
<1>7. MarksInv'
  <2>1. marks' \subseteq Occupied(before)
    BY <1>2, <1>3 DEF IInv, MarksInv
  <2>2. ASSUME NEW S \in SUBSET Slots, Closed(S, before, roots)
        PROVE  marks' \subseteq S
    <3>1. marks \subseteq S
      BY <2>2 DEF IInv, MarksInv
    <3>2. t[2][1] \in S /\ t[2][2] \in Occupied(before) => t[2][2] \in S
      BY <1>4, <2>2, <3>1 DEF Closed
    <3> QED
      BY <1>2, <3>1, <3>2
  <2>3. roots \cap Occupied(before) \subseteq marks'
    BY <1>1, <1>2 DEF IInv, MarksInv
  <2> QED
    BY <1>1, <2>1, <2>2, <2>3 DEF MarksInv
<1>8. TracedInv'
  <2>1. marks' \ work' \subseteq marks \ work
    BY <1>2
  <2> QED
    BY <1>1, <1>2, <2>1 DEF IInv, TracedInv, Marked
<1>9. PassInv'
  <2>1. ASSUME work' = {}, NEW s \in marks', NEW p \in Ephemerons(before[s])
        PROVE  <<s, p>> \in todo' \/ (p[1] \in marks' /\ p[2] \in Occupied(before) => p[2] \in marks')
    <3>1. new = {} /\ work = {} /\ marks' = marks
      BY <1>2, <2>1
    <3>2. <<s, p>> \in todo \/ (p[1] \in marks /\ p[2] \in Occupied(before) => p[2] \in marks)
      BY <1>1, <2>1, <3>1 DEF IInv, PassInv
    <3>3. CASE t = <<s, p>>
      BY <3>1, <3>3
    <3>4. CASE t # <<s, p>>
      BY <1>1, <3>1, <3>2, <3>4
    <3> QED
      BY <3>3, <3>4
  <2>2. \A u \in todo' : u[1] \in marks' /\ u[2] \in Ephemerons(before[u[1]])
    BY <1>1, <1>2 DEF IInv, PassInv
  <2> QED
    BY <1>1, <2>1, <2>2 DEF PassInv, Marked
<1> QED
  BY <1>5, <1>6, <1>7, <1>8, <1>9 DEF IInv

(* A pass that marked nothing leaves the marks closed.                        *)
LEMMA EndPassKeeps == IInv /\ EndPass => IInv'
<1> SUFFICES ASSUME IInv, EndPass PROVE IInv'
  OBVIOUS
<1>1. /\ phase = "ephemerons" /\ heap = before /\ queued = {} /\ todo = {} /\ todo' = {}
      /\ UNCHANGED <<before, roots, heap, marks, work, weakColls, queued>>
      /\ phase' = IF work = {} THEN "targets" ELSE "drain"
  BY DEF IInv, HeapInv, Reading, EndPass
<1>2. TypeOK'
  BY <1>1 DEF IInv, TypeOK, Phases
<1>3. HeapInv'
  BY <1>1 DEF HeapInv, Reading
<1>4. MarksInv'
  BY <1>1 DEF IInv, MarksInv
<1>5. TracedInv'
  BY <1>1 DEF IInv, TracedInv, Marked
<1>6. work = {} => Closed(marks, before, roots)
  <2> SUFFICES ASSUME work = {} PROVE Closed(marks, before, roots)
    OBVIOUS
  <2>1. roots \cap Occupied(before) \subseteq marks
    BY <1>1 DEF IInv, MarksInv
  <2>2. \A s \in marks : TraceEntry(before[s]) \cap Occupied(before) \subseteq marks
    BY DEF IInv, TracedInv
  <2>3. \A s \in marks : \A p \in Ephemerons(before[s]) :
            p[1] \in marks /\ p[2] \in Occupied(before) => p[2] \in marks
    BY <1>1 DEF IInv, PassInv
  <2> QED
    BY <2>1, <2>2, <2>3 DEF Closed
<1>7. PassInv'
  BY <1>1, <1>6 DEF PassInv, Marked
<1> QED
  BY <1>2, <1>3, <1>4, <1>5, <1>7 DEF IInv

(* The passes after marking touch the heap and the phase only.                *)
LEMMA LastPassesKeep ==
    IInv /\ (ProcessWeakTargets \/ PurgeWeakEntries \/ SweepHeap) => IInv'
<1> SUFFICES ASSUME IInv, ProcessWeakTargets \/ PurgeWeakEntries \/ SweepHeap
             PROVE  IInv'
  OBVIOUS
<1>1. /\ phase \in {"targets", "purge", "sweep"} /\ phase' \in {"purge", "sweep", "done"}
      /\ UNCHANGED <<before, roots, marks, work, weakColls, todo>>
  BY DEF ProcessWeakTargets, PurgeWeakEntries, SweepHeap
<1>2. TypeOK'
  <2>1. heap \in [Slots -> Entries] /\ marks \in SUBSET Slots
    BY DEF IInv, TypeOK
  <2>2. heap' \in [Slots -> Entries]
    BY <2>1, PassesKeepType DEF ProcessWeakTargets, PurgeWeakEntries, SweepHeap
  <2>3. queued' \in SUBSET Slots
    BY <2>1 DEF IInv, TypeOK, ProcessWeakTargets, PurgeWeakEntries, SweepHeap, NewlyQueued
  <2> QED
    BY <1>1, <2>2, <2>3 DEF IInv, TypeOK, Phases
<1>3. HeapInv'
  BY DEF IInv, HeapInv, Reading, ProcessWeakTargets, PurgeWeakEntries, SweepHeap
<1>4. MarksInv'
  BY <1>1 DEF IInv, MarksInv
<1>5. TracedInv'
  BY <1>1 DEF IInv, TracedInv, Marked
<1>6. PassInv'
  BY <1>1 DEF IInv, PassInv, Marked
<1> QED
  BY <1>2, <1>3, <1>4, <1>5, <1>6 DEF IInv

(* Every step of a collection preserves the invariant.                        *)
THEOREM StepInv == IInv /\ [Next]_vars => IInv'
<1> SUFFICES ASSUME IInv, [Next]_vars PROVE IInv'
  OBVIOUS
<1>1. CASE UNCHANGED vars
  BY <1>1 DEF vars, IInv, TypeOK, HeapInv, MarksInv, TracedInv, PassInv
<1>2. CASE Next
  BY <1>2, TraceRootsKeeps, DrainKeeps, StartPassKeeps, VisitEntryKeeps, EndPassKeeps,
     LastPassesKeep DEF Next
<1> QED
  BY <1>1, <1>2

(* The collector's variables keep their types.                                *)
THEOREM TypeCorrect == Spec => []TypeOK
<1>1. IInv => TypeOK
  BY DEF IInv
<1> QED
  BY <1>1, InitInv, StepInv, PTL DEF Spec

-----------------------------------------------------------------------------
(* What the invariant says of a finished collection.                          *)
LEMMA MarksAreLive ==
    ASSUME IInv
    PROVE  /\ marks \subseteq Live(before, roots)
           /\ phase \in Marked => marks = Live(before, roots)
<1>1. marks \subseteq Slots
  BY DEF IInv, TypeOK
<1>2. \A S \in SUBSET Slots : Closed(S, before, roots) => marks \subseteq S
  BY DEF IInv, MarksInv
<1>3. marks \subseteq Live(before, roots)
  BY <1>1, <1>2 DEF Live
<1>4. phase \in Marked => Live(before, roots) \subseteq marks
  <2> SUFFICES ASSUME phase \in Marked PROVE Live(before, roots) \subseteq marks
    OBVIOUS
  <2>1. Closed(marks, before, roots)
    BY DEF IInv, PassInv
  <2> QED
    BY <1>1, <2>1 DEF Live
<1> QED
  BY <1>3, <1>4

(* The entry of a surviving slot is the one it had, its weak targets          *)
(* processed and its weak entries purged.                                     *)
LEMMA SurvivingEntry ==
    ASSUME IInv, phase = "done", NEW s \in Slots
    PROVE  LET f == WeakTargetsProcessed(before[s], marks)
           IN  /\ s \notin marks => heap[s].kind = "vacant"
               /\ s \in marks => /\ f \in Entries
                                 /\ ~IsWeakCollection(f) => heap[s] = f
                                 /\ IsWeakCollection(f) =>
                                      heap[s] = [f EXCEPT !.weak = {p \in @ : p[1] \in marks}]
<1> DEFINE f == WeakTargetsProcessed(before[s], marks)
           g == Purge(ProcessTargets(before, marks), marks, weakColls)
<1>1. heap = Sweep(g, marks)
  BY DEF IInv, HeapInv
<1>2. before[s] \in Entries /\ marks \in SUBSET Slots
  BY DEF IInv, TypeOK
<1>3. f \in Entries /\ f.kind = before[s].kind
  BY <1>2, TargetsKeepEntry
<1>4. CASE s \notin marks
  BY <1>1, <1>4 DEF Sweep, Vacant
<1>5. CASE s \in marks
  <2>1. heap[s] = g[s]
    BY <1>1, <1>5 DEF Sweep
  <2>2. ProcessTargets(before, marks)[s] = f
    BY <1>5 DEF ProcessTargets
  <2>3. IsWeakCollection(f) => s \in weakColls
    <3>1. work = {}
      BY DEF IInv, TracedInv, Marked
    <3> QED
      BY <1>3, <1>5, <3>1 DEF IInv, TracedInv, IsWeakCollection
  <2>4. g[s] = IF s \in weakColls \cap marks /\ IsWeakCollection(f)
               THEN [f EXCEPT !.weak = {p \in @ : p[1] \in marks}] ELSE f
    BY <2>2 DEF Purge
  <2> HIDE DEF f, g
  <2>5. IsWeakCollection(f) => heap[s] = [f EXCEPT !.weak = {p \in @ : p[1] \in marks}]
    BY <1>5, <2>1, <2>3, <2>4
  <2>6. ~IsWeakCollection(f) => heap[s] = f
    BY <2>1, <2>4
  <2> QED
    BY <1>3, <1>5, <2>5, <2>6 DEF f
<1> QED
  BY <1>4, <1>5

(* After the sweep the occupied slots are the marked ones.                    *)
LEMMA SurvivorsAreMarks ==
    ASSUME IInv, phase = "done"
    PROVE  Occupied(heap) = marks
<1>1. marks \subseteq Occupied(before) /\ marks \subseteq Slots
  BY DEF IInv, MarksInv, TypeOK
<1>2. ASSUME NEW s \in marks PROVE heap[s].kind # "vacant"
  <2> DEFINE f == WeakTargetsProcessed(before[s], marks)
  <2>1. s \in Slots /\ before[s] \in Entries /\ before[s].kind # "vacant"
    BY <1>1, <1>2 DEF IInv, TypeOK, Occupied
  <2>2. f \in Entries /\ f.kind = before[s].kind
    BY <2>1, TargetsKeepEntry
  <2>3. heap[s] = f \/ heap[s] = [f EXCEPT !.weak = {p \in @ : p[1] \in marks}]
    BY <1>2, <2>1, SurvivingEntry
  <2> HIDE DEF f
  <2>4. [f EXCEPT !.weak = {p \in @ : p[1] \in marks}].kind = f.kind
    BY <2>2 DEF Entries
  <2> QED
    BY <2>1, <2>2, <2>3, <2>4
<1>3. ASSUME NEW s \in Slots \ marks PROVE heap[s].kind = "vacant"
  BY <1>3, SurvivingEntry
<1> QED
  BY <1>1, <1>2, <1>3 DEF Occupied

(* The marks never leave the live slots (drain, ephemeron_fixed_point), for   *)
(* every heap and every set of roots.                                         *)
THEOREM MarkingIsPrecise == Spec => []MarkedIsLive
<1>1. IInv => MarkedIsLive
  BY MarksAreLive DEF MarkedIsLive
<1> QED
  BY <1>1, InitInv, StepInv, PTL DEF Spec

(* A collection sweeps exactly the slots that are not live (sweep), for every *)
(* heap, with any nesting of WeakMaps, and every set of roots.                *)
THEOREM CollectionIsExact == Spec => []SweepsExactlyGarbage
<1>1. IInv => SweepsExactlyGarbage
  BY MarksAreLive, SurvivorsAreMarks DEF SweepsExactlyGarbage, Marked
<1> QED
  BY <1>1, InitInv, StepInv, PTL DEF Spec

(* A surviving entry leads to surviving entries only, through its weak        *)
(* targets and through its traced edges.                                      *)
THEOREM CollectionLeavesNoDangling == Spec => []NothingDangles
<1>1. IInv => NothingDangles
  <2> SUFFICES ASSUME IInv, phase = "done", NEW s \in Occupied(heap)
               PROVE  /\ heap[s].kind = "weakref" => heap[s].target \in Occupied(heap) \cup {None}
                      /\ heap[s].kind = "registry" =>
                            \A c \in heap[s].cells : c.target \in Occupied(heap)
                      /\ IsWeakCollection(heap[s]) =>
                            \A p \in heap[s].weak : p[1] \in Occupied(heap)
                      /\ TraceEntry(heap[s]) \cap Occupied(before) \subseteq Occupied(heap)
                      /\ \A p \in Ephemerons(heap[s]) :
                            p[2] \in Occupied(before) => p[2] \in Occupied(heap)
    BY DEF NothingDangles
  <2> DEFINE e == before[s]
             f == WeakTargetsProcessed(e, marks)
             g == [f EXCEPT !.weak = {p \in @ : p[1] \in marks}]
  <2>1. Occupied(heap) = marks /\ s \in marks /\ s \in Slots
    BY SurvivorsAreMarks DEF Occupied
  <2>2. e \in Entries
    BY <2>1 DEF IInv, TypeOK
  <2>3. Closed(marks, before, roots)
    BY DEF IInv, PassInv, Marked
  <2>4. /\ TraceEntry(e) \cap Occupied(before) \subseteq marks
        /\ \A p \in Ephemerons(e) : p[1] \in marks /\ p[2] \in Occupied(before) => p[2] \in marks
    BY <2>1, <2>3 DEF Closed
  <2>5. TraceEntry(f) \subseteq TraceEntry(e) /\ Ephemerons(f) = Ephemerons(e)
    BY <2>2, TargetsAddNoEdge
  <2>6. /\ f \in Entries /\ f.kind = e.kind
        /\ f.kind = "weakref" => f.target \in marks \cup {None}
        /\ f.kind = "registry" => f.cells = e.cells \ DeadCells(e, marks)
    BY <2>2, TargetsKeepEntry
  <2>7. f.kind = "registry" => \A c \in f.cells : c.target \in marks
    BY <2>6 DEF DeadCells
  <2>8. /\ ~IsWeakCollection(f) => heap[s] = f
        /\ IsWeakCollection(f) => heap[s] = g
    BY <2>1, SurvivingEntry
  <2>9. CASE ~IsWeakCollection(f)
    <3>1. heap[s] = f
      BY <2>8, <2>9
    <3>2. \A p \in Ephemerons(f) : IsWeakCollection(f)
      BY EphemeronsAreWeak
    <3> HIDE DEF e, f, g
    <3> QED
      BY <2>1, <2>4, <2>5, <2>6, <2>7, <2>9, <3>1, <3>2
  <2>10. CASE IsWeakCollection(f)
    <3> HIDE DEF e, f
    <3>1. g.kind = f.kind /\ g.fields = f.fields /\ g.weak = {p \in f.weak : p[1] \in marks}
      BY <2>6 DEF Entries
    <3>2. TraceEntry(g) = TraceEntry(f) /\ IsWeakCollection(g)
      BY <2>10, <3>1 DEF TraceEntry, IsWeakCollection
    <3>3. Ephemerons(g) \subseteq Ephemerons(f) /\ \A p \in Ephemerons(g) : p[1] \in marks
      BY <3>1 DEF Ephemerons
    <3>4. g.kind # "weakref" /\ g.kind # "registry"
      BY <3>2 DEF IsWeakCollection
    <3>5. heap[s] = g
      BY <2>8, <2>10
    <3> HIDE DEF g
    <3> QED
      BY <2>1, <2>4, <2>5, <3>1, <3>2, <3>3, <3>4, <3>5
  <2> QED
    BY <2>9, <2>10
<1> QED
  BY <1>1, InitInv, StepInv, PTL DEF Spec

(* No registration of a surviving registry is lost, doubled or left without a *)
(* queued cleanup by a collection (process_weak_targets_after_marking).       *)
THEOREM CollectionKeepsRegistrations == Spec => []RegistrationsKept
<1>1. IInv => RegistrationsKept
  <2> SUFFICES ASSUME IInv, phase = "done", NEW s \in Occupied(heap), heap[s].kind = "registry"
               PROVE  /\ heap[s].cells \cup heap[s].pending = before[s].cells \cup before[s].pending
                      /\ \A c \in before[s].cells :
                            c \in heap[s].cells <=> c.target \in Live(before, roots)
                      /\ before[s].pending \subseteq heap[s].pending
                      /\ heap[s].pending # {} => heap[s].scheduled
                      /\ s \in queued <=> heap[s].scheduled /\ ~before[s].scheduled
    BY DEF RegistrationsKept
  <2> DEFINE e == before[s]
             f == WeakTargetsProcessed(e, marks)
  <2>1. Occupied(heap) = marks /\ s \in marks /\ s \in Slots /\ marks = Live(before, roots)
    BY SurvivorsAreMarks, MarksAreLive DEF Occupied, Marked
  <2>2. e \in Entries
    BY <2>1 DEF IInv, TypeOK
  <2>3. f \in Entries /\ f.kind = e.kind
    BY <2>2, TargetsKeepEntry
  <2>4. heap[s] = f
    <3>1. CASE ~IsWeakCollection(f)
      BY <2>1, <3>1, SurvivingEntry
    <3>2. CASE IsWeakCollection(f)
      <4>1. heap[s] = [f EXCEPT !.weak = {p \in @ : p[1] \in marks}]
        BY <2>1, <3>2, SurvivingEntry
      <4> HIDE DEF f
      <4>2. heap[s].kind = f.kind
        BY <2>3, <4>1 DEF Entries
      <4> QED
        BY <3>2, <4>2 DEF IsWeakCollection
    <3> QED
      BY <3>1, <3>2
  <2>5. e.kind = "registry"
    BY <2>3, <2>4
  <2>6. /\ f.cells = e.cells \ DeadCells(e, marks)
        /\ f.pending = e.pending \cup DeadCells(e, marks)
        /\ f.scheduled = (e.scheduled \/ QueuesRegistry(e, marks))
    BY <2>2, <2>5, TargetsKeepEntry
  <2>7. DeadCells(e, marks) = {c \in e.cells : c.target \notin marks}
    BY DEF DeadCells
  <2>8. QueuesRegistry(e, marks) <=> f.pending # {} /\ ~e.scheduled
    BY <2>5, <2>6 DEF QueuesRegistry
  <2>9. s \in queued <=> QueuesRegistry(e, marks)
    BY <2>1 DEF IInv, HeapInv, NewlyQueued
  <2>10. e.scheduled \in BOOLEAN
    BY <2>2 DEF Entries
  <2> HIDE DEF e, f
  <2>11. /\ heap[s].cells \cup heap[s].pending = e.cells \cup e.pending
         /\ \A c \in e.cells : c \in heap[s].cells <=> c.target \in marks
         /\ e.pending \subseteq heap[s].pending
    BY <2>4, <2>6, <2>7
  <2>12. /\ heap[s].pending # {} => heap[s].scheduled
         /\ s \in queued <=> heap[s].scheduled /\ ~e.scheduled
    BY <2>4, <2>6, <2>8, <2>9, <2>10, Zenon
  <2> QED
    BY <2>1, <2>11, <2>12 DEF e
<1> QED
  BY <1>1, InitInv, StepInv, PTL DEF Spec
=============================================================================
