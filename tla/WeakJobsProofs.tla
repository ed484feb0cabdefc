--------------------------- MODULE WeakJobsProofs ---------------------------
(* Proofs about WeakJobs, for any number of slots, microtasks, registrations *)
(* and properties, and for every program the module allows.                  *)
EXTENDS WeakJobs, FiniteSetTheorems, SequenceTheorems, TLAPS

(* An entry uses only the internal slots of its kind; properties any entry   *)
(* may have.  Programs of this module make no weak collection.               *)
Shaped(e) ==
    /\ e.kind \in {"vacant", "plain", "weakref", "registry"}
    /\ e.kind # "weakref" => e.target = None
    /\ e.kind # "registry" =>
          e.callback = None /\ e.cells = {} /\ e.pending = {} /\ e.scheduled = FALSE
    /\ IsFiniteSet(e.cells) /\ IsFiniteSet(e.pending)

(* What a registry has recorded and not delivered.                           *)
Registered(e) == e.cells \cup e.pending

(* The heap below its length: a WeakRef names an entry or nothing, and the   *)
(* dead target of a holding has a slot that is never used again.             *)
HeapShape ==
    \A s \in Slots :
        /\ Shaped(heap[s])
        /\ s > top => heap[s].kind = "vacant"
        /\ heap[s].target \in Occupied(heap) \cup {None}
        /\ \A c \in heap[s].pending : c.target <= top

(* Every registration has a number of its own, in all registries.            *)
Numbering ==
    /\ nextId \in Nat \ {0}
    /\ \A n \in delivered : n \in Nat /\ n < nextId
    /\ \A s \in Slots : \A c \in Registered(heap[s]) : c.id < nextId
    /\ \A r, s \in Slots : \A c \in Registered(heap[r]), d \in Registered(heap[s]) :
          c.id = d.id => r = s /\ c = d

IsCleanupOf(j, r) == j.kind = "cleanup" /\ j.slot = r

(* A cleanup is queued in one place and once, for a registry whose flag is   *)
(* set.                                                                      *)
Queued(r) ==
    \/ \E i \in DOMAIN cleanupQueue : cleanupQueue[i] = r
    \/ \E i \in DOMAIN microtasks : IsCleanupOf(microtasks[i], r)

Queues ==
    /\ \A i, j \in DOMAIN cleanupQueue : cleanupQueue[i] = cleanupQueue[j] => i = j
    /\ \A i, j \in DOMAIN microtasks :
          (microtasks[i].kind = "cleanup" /\ microtasks[j].kind = "cleanup"
              /\ microtasks[i].slot = microtasks[j].slot) => i = j
    /\ \A i \in DOMAIN cleanupQueue, j \in DOMAIN microtasks :
          ~IsCleanupOf(microtasks[j], cleanupQueue[i])
    /\ \A i \in DOMAIN microtasks :
          /\ microtasks[i].hasMore = FALSE
          /\ microtasks[i].kind = "cleanup" => microtasks[i].slot \in Slots
    /\ \A r \in Slots : Queued(r) => heap[r].kind = "registry"
    /\ \A r \in Slots : heap[r].kind = "registry" => (heap[r].scheduled <=> Queued(r))

(* The running job: holdings that arrive behind the last one it knew of are  *)
(* queued already.                                                           *)
JobShape ==
    /\ pc \in {"callback", "cleanup"} \/ job = NoJob
    /\ pc = "pop" => microtasks # <<>>
    /\ pc = "cleanup" => job.kind = "cleanup"
    /\ job.kind = "cleanup" => job.slot \in Slots
    /\ (pc = "callback" /\ job.kind = "cleanup" /\ ~job.hasMore) =>
          heap[job.slot].pending = {} \/ heap[job.slot].scheduled
    /\ \A r \in Slots : heap[r].pending # {} => heap[r].scheduled \/ IsCleanupOf(job, r)

(* What a job has seen is kept alive for it.                                 *)
Keeping ==
    /\ Callback \in globals
    /\ pc \in {"turn", "callback", "cleanup"} => observed \subseteq keptAlive

IInv ==
    /\ TypeOK
    /\ HeapShape
    /\ NoOtherDanglingReference
    /\ Numbering
    /\ HoldingsAreDue
    /\ LedgerIsExact
    /\ Queues
    /\ JobShape
    /\ Keeping

-----------------------------------------------------------------------------
(* The invariant by component: the heap with its ledger and numbering, and   *)
(* what the machine holds of it.                                             *)
Edges == \A s \in Occupied(heap) : OwnedEdges(heap[s]) \subseteq Readable

Charge(e) ==
    IF e.kind = "vacant" THEN 0
    ELSE EntryBytes + CellBytes * Cardinality(e.cells) + ValueBytes * Cardinality(e.pending)

HeapPart ==
    /\ heap \in [Slots -> Entries] /\ top \in Slots /\ slotBytes \in [Slots -> Nat]
    /\ lost \in SUBSET Slots
    /\ HeapShape
    /\ Edges
    /\ Numbering
    /\ HoldingsAreDue
    /\ \A s \in Slots : slotBytes[s] = Charge(heap[s])

MachinePart ==
    /\ globals \in SUBSET Slots /\ frame \in SUBSET Slots /\ keptAlive \in SUBSET Slots
    /\ microtasks \in Seq(Jobs) /\ Len(microtasks) <= MaxMicrotasks
    /\ cleanupQueue \in Seq(Slots)
    /\ pc \in {"idle", "turn", "head", "pop", "callback", "cleanup"}
    /\ job \in Jobs \cup {NoJob}
    /\ machineBytes \in Nat
    /\ machineBytes = ValueBytes * Cardinality(keptAlive)
    /\ frame \cup globals \subseteq Readable /\ keptAlive \subseteq Occupied(heap)
    /\ Elements(cleanupQueue) \subseteq Occupied(heap)
    /\ \A j \in Elements(microtasks) : j.slot \in Occupied(heap) \cup {None}

LEMMA Parts ==
    /\ IInv <=> HeapPart /\ MachinePart /\ Queues /\ JobShape /\ Keeping
    /\ IInv' <=> HeapPart' /\ MachinePart' /\ Queues' /\ JobShape' /\ Keeping'
<1>1. IInv <=> HeapPart /\ MachinePart /\ Queues /\ JobShape /\ Keeping
  BY Zenon DEF IInv, HeapPart, MachinePart, TypeOK, NoOtherDanglingReference, LedgerIsExact, Edges, Charge
<1>2. IInv' <=> HeapPart' /\ MachinePart' /\ Queues' /\ JobShape' /\ Keeping'
  BY Zenon DEF IInv, HeapPart, MachinePart, TypeOK, NoOtherDanglingReference, LedgerIsExact, Edges, Charge
<1> QED
  BY <1>1, <1>2

(* The slots are finitely many, and None is no slot.                         *)
LEMMA SlotsFinite ==
    /\ IsFiniteSet(Slots) /\ None \notin Slots /\ None \in Values /\ Slots \subseteq Values
    /\ Slots \subseteq Nat
    /\ \A S \in SUBSET Slots : IsFiniteSet(S) /\ Cardinality(S) \in Nat
<1>1. IsFiniteSet(Slots)
  <2>1. 1 \in Int /\ MaxSlots \in Int
    BY MaxSlotsAssumption
  <2> QED
    BY <2>1, FS_Interval DEF Slots
<1>2. \A S \in SUBSET Slots : IsFiniteSet(S) /\ Cardinality(S) \in Nat
  BY <1>1, FS_Subset, FS_CardinalityType
<1>3. None \notin Slots /\ None \in Values /\ Slots \subseteq Values /\ Slots \subseteq Nat
  BY MaxSlotsAssumption DEF None, Slots, Values
<1> QED
  BY <1>1, <1>2, <1>3

(* What the heap says of a single entry.                                     *)
LEMMA EntryFields ==
    ASSUME NEW e \in Entries
    PROVE  /\ e.kind \in Kinds /\ e.fields \in SUBSET Slots
           /\ e.weak \in SUBSET (Slots \X Values) /\ e.target \in Values
           /\ e.callback \in Values /\ e.cells \in SUBSET Cells
           /\ e.pending \in SUBSET Cells /\ e.scheduled \in BOOLEAN
BY DEF Entries

(* The heap is left alone.                                                   *)
LEMMA HeapKept ==
    HeapPart /\ UNCHANGED <<heap, top, slotBytes, nextId, delivered, lost>> => HeapPart'
BY DEF HeapPart, HeapShape, Edges, Readable, Numbering, HoldingsAreDue, Occupied

(* One occupied entry is replaced by another of its kind: a property is set, *)
(* a cell comes or goes, a holding is taken, the flag is changed.            *)
LEMMA UpdateOne ==
    ASSUME HeapPart, NEW r \in Occupied(heap), NEW e \in Entries,
           heap' = [heap EXCEPT ![r] = e], top' = top, lost' = lost,
           slotBytes' = [slotBytes EXCEPT ![r] = Charge(e)], Charge(e) \in Nat,
           e.kind = heap[r].kind, Shaped(e), e.target = heap[r].target,
           OwnedEdges(e) \subseteq Readable,
           \A c \in e.pending : c.target <= top,
           nextId' = nextId \/ nextId' = nextId + 1,
           \A c \in Registered(e) :
              c \in Registered(heap[r]) \/ (c.id = nextId /\ nextId' = nextId + 1),
           \A c, d \in Registered(e) : c.id = d.id => c = d,
           \A n \in delivered' : n \in delivered \/ \E c \in Registered(heap[r]) : c.id = n,
           \A c \in Registered(e) : c.id \notin delivered',
           \A c \in e.cells : c.target \in Occupied(heap),
           \A c \in e.pending : c.target \notin Occupied(heap)
    PROVE  HeapPart' /\ Occupied(heap)' = Occupied(heap) /\ Readable' = Readable
<1>1. r \in Slots /\ heap \in [Slots -> Entries] /\ slotBytes \in [Slots -> Nat] /\ top \in Slots
  BY DEF Occupied, HeapPart
<1>2. heap' \in [Slots -> Entries] /\ heap'[r] = e /\ \A s \in Slots \ {r} : heap'[s] = heap[s]
  BY <1>1
<1>3. /\ slotBytes' \in [Slots -> Nat] /\ slotBytes'[r] = Charge(e)
      /\ \A s \in Slots \ {r} : slotBytes'[s] = slotBytes[s]
  BY <1>1
<1>4. Occupied(heap)' = Occupied(heap)
  BY <1>2 DEF Occupied
<1>12. Readable' = Readable
  BY <1>4 DEF Readable
<1>5. HeapShape'
  <2> SUFFICES ASSUME NEW s \in Slots
               PROVE  /\ Shaped(heap'[s])
                      /\ s > top => heap'[s].kind = "vacant"
                      /\ heap'[s].target \in Occupied(heap) \cup {None}
                      /\ \A c \in heap'[s].pending : c.target <= top
    BY <1>4 DEF HeapShape
  <2>1. CASE s = r
    BY <1>1, <1>2, <2>1 DEF HeapPart, HeapShape
  <2>2. CASE s # r
    BY <1>2, <2>2 DEF HeapPart, HeapShape
  <2> QED
    BY <2>1, <2>2
<1>6. Edges'
  <2> SUFFICES ASSUME NEW s \in Occupied(heap) PROVE OwnedEdges(heap'[s]) \subseteq Readable
    BY <1>4, <1>12 DEF Edges
  <2>1. s \in Slots
    BY DEF Occupied
  <2>2. CASE s = r
    BY <1>2, <2>2
  <2>3. CASE s # r
    BY <1>2, <2>1, <2>3 DEF HeapPart, Edges
  <2> QED
    BY <2>2, <2>3
<1>7. \A s \in Slots : slotBytes'[s] = Charge(heap'[s])
  BY <1>2, <1>3 DEF HeapPart
<1>8. nextId \in Nat \ {0} /\ nextId' \in Nat \ {0} /\ nextId <= nextId'
  BY DEF HeapPart, Numbering
<1>9. ASSUME NEW s \in Slots, NEW c \in Registered(heap[s])
      PROVE  c.id < nextId /\ c.id \in Nat /\ (s # r => c.id \notin delivered')
  <2>1. c.id < nextId
    BY DEF HeapPart, Numbering
  <2>2. c \in Cells
    BY <1>1, EntryFields DEF Registered
  <2>3. c.id \in Nat
    BY <2>2 DEF Cells
  <2>4. c.id \notin delivered
    <3>1. heap[s].kind = "registry"
      BY DEF HeapPart, HeapShape, Shaped, Registered
    <3> QED
      BY <3>1 DEF HeapPart, HoldingsAreDue, Registered
  <2>5. s # r => \A d \in Registered(heap[r]) : d.id # c.id
    BY <1>1 DEF HeapPart, Numbering
  <2> QED
    BY <2>1, <2>3, <2>4, <2>5
<1>10. Numbering'
  <2>1. \A n \in delivered' : n \in Nat /\ n < nextId'
    <3> SUFFICES ASSUME NEW n \in delivered' PROVE n \in Nat /\ n < nextId'
      OBVIOUS
    <3>1. CASE n \in delivered
      <4>1. n \in Nat /\ n < nextId
        BY <3>1 DEF HeapPart, Numbering
      <4> QED
        BY <1>8, <4>1
    <3>2. CASE n \notin delivered
      BY <1>1, <1>8, <1>9, <3>2
    <3> QED
      BY <3>1, <3>2
  <2>2. ASSUME NEW s \in Slots, NEW c \in Registered(heap'[s])
        PROVE  /\ c.id < nextId'
               /\ c \in Registered(heap[s]) \/ (s = r /\ c.id = nextId /\ nextId' = nextId + 1)
    <3>1. c \in Registered(heap[s]) \/ (s = r /\ c.id = nextId /\ nextId' = nextId + 1)
      BY <1>2
    <3>2. CASE c \in Registered(heap[s])
      <4>1. c.id < nextId /\ c.id \in Nat
        BY <1>9, <3>2
      <4> QED
        BY <1>8, <3>1, <4>1
    <3> QED
      BY <1>8, <3>1, <3>2
  <2>3. ASSUME NEW p \in Slots, NEW q \in Slots, NEW c \in Registered(heap'[p]),
               NEW d \in Registered(heap'[q]), c.id = d.id
        PROVE  p = q /\ c = d
    <3>1. CASE p = r /\ q = r
      BY <1>2, <2>3, <3>1
    <3>2. CASE c \in Registered(heap[p]) /\ d \in Registered(heap[q])
      BY <2>3, <3>2 DEF HeapPart, Numbering
    <3>3. CASE p = r /\ q # r /\ c.id = nextId
      <4>1. d \in Registered(heap[q])
        BY <1>2, <3>3
      <4>2. d.id < nextId /\ d.id \in Nat
        BY <1>9, <4>1
      <4> QED
        BY <1>8, <2>3, <3>3, <4>2
    <3>4. CASE q = r /\ p # r /\ d.id = nextId
      <4>1. c \in Registered(heap[p])
        BY <1>2, <3>4
      <4>2. c.id < nextId /\ c.id \in Nat
        BY <1>9, <4>1
      <4> QED
        BY <1>8, <2>3, <3>4, <4>2
    <3> QED
      BY <2>2, <3>1, <3>2, <3>3, <3>4
  <2> QED
    BY <1>8, <2>1, <2>2, <2>3 DEF Numbering
<1>11. HoldingsAreDue'
  <2> SUFFICES ASSUME NEW s \in Slots, heap'[s].kind = "registry"
               PROVE  /\ \A c \in heap'[s].cells :
                            c.target \in Occupied(heap) /\ c.id \notin delivered'
                      /\ \A c \in heap'[s].pending :
                            c.target \notin Occupied(heap) /\ c.id \notin delivered'
                      /\ \A c, d \in heap'[s].cells \cup heap'[s].pending : c.id = d.id => c = d
    BY <1>4 DEF HoldingsAreDue
  <2>1. CASE s = r
    BY <1>2, <2>1 DEF Registered
  <2>2. CASE s # r
    <3>1. heap'[s] = heap[s]
      BY <1>2, <2>2
    <3> QED
      BY <1>9, <2>2, <3>1 DEF HeapPart, HoldingsAreDue, Registered
  <2> QED
    BY <2>1, <2>2
<1> QED
  BY <1>1, <1>2, <1>3, <1>4, <1>5, <1>6, <1>7, <1>10, <1>11, <1>12 DEF HeapPart

(* Machine::allocate puts a new entry behind all others.                     *)
LEMMA AllocateOne ==
    ASSUME HeapPart, NEW e \in Entries, Allocate(e),
           nextId' = nextId, delivered' = delivered, lost' = lost,
           e.kind # "vacant", Shaped(e), e.cells = {}, e.pending = {},
           e.target \in Occupied(heap) \cup {None}, OwnedEdges(e) \subseteq Readable
    PROVE  /\ HeapPart'
           /\ top + 1 \in Slots /\ heap[top + 1].kind = "vacant" /\ heap'[top + 1] = e
           /\ \A s \in Slots \ {top + 1} : heap'[s] = heap[s]
           /\ Occupied(heap)' = Occupied(heap) \cup {top + 1}
           /\ Readable' = Readable \cup {top + 1}
<1>1. heap \in [Slots -> Entries] /\ slotBytes \in [Slots -> Nat] /\ top \in Slots
  BY DEF HeapPart
<1>2. /\ top + 1 \in Slots /\ top + 1 > top /\ top' = top + 1 /\ top' \in Slots
      /\ heap' = [heap EXCEPT ![top + 1] = e]
      /\ slotBytes' = [slotBytes EXCEPT ![top + 1] = EntryBytes]
  BY <1>1, MaxSlotsAssumption DEF Allocate, Slots
<1>3. heap[top + 1].kind = "vacant"
  BY <1>2 DEF HeapPart, HeapShape
<1>4. /\ heap' \in [Slots -> Entries] /\ heap'[top + 1] = e
      /\ \A s \in Slots \ {top + 1} : heap'[s] = heap[s]
  BY <1>1, <1>2
<1>5. Occupied(heap)' = Occupied(heap) \cup {top + 1}
  BY <1>2, <1>3, <1>4 DEF Occupied
<1>12. Readable' = Readable \cup {top + 1}
  BY <1>5 DEF Readable
<1>6. HeapShape'
  <2> SUFFICES ASSUME NEW s \in Slots
               PROVE  /\ Shaped(heap'[s])
                      /\ s > top' => heap'[s].kind = "vacant"
                      /\ heap'[s].target \in Occupied(heap)' \cup {None}
                      /\ \A c \in heap'[s].pending : c.target <= top'
    BY DEF HeapShape
  <2>0. s \in Nat /\ top \in Nat /\ top' = top + 1
    BY <1>1, <1>2, SlotsFinite
  <2>1. CASE s = top + 1
    <3>1. ~(s > top')
      BY <2>0, <2>1
    <3>2. heap'[s] = e
      BY <1>4, <2>1
    <3> QED
      BY <1>5, <3>1, <3>2
  <2>2. CASE s # top + 1
    <3>1. heap'[s] = heap[s] /\ Shaped(heap[s]) /\ (s > top => heap[s].kind = "vacant")
          /\ heap[s].target \in Occupied(heap) \cup {None}
          /\ \A c \in heap[s].pending : c.target <= top
      BY <1>4, <2>2 DEF HeapPart, HeapShape
    <3>2. \A c \in heap[s].pending : c.target \in Nat
      BY <1>1, EntryFields DEF Cells, Slots
    <3>3. (s > top' => s > top) /\ \A c \in heap[s].pending : c.target <= top'
      BY <2>0, <3>1, <3>2
    <3> QED
      BY <1>5, <3>1, <3>3
  <2> QED
    BY <2>1, <2>2
<1>7. Edges'
  <2> SUFFICES ASSUME NEW s \in Occupied(heap)'
               PROVE  OwnedEdges(heap'[s]) \subseteq Readable \cup {top + 1}
    BY <1>12 DEF Edges
  <2>1. CASE s = top + 1
    BY <1>4, <2>1
  <2>2. CASE s # top + 1
    <3>1. s \in Occupied(heap) /\ s \in Slots
      BY <1>5, <2>2 DEF Occupied
    <3> QED
      BY <1>4, <2>2, <3>1 DEF HeapPart, Edges
  <2> QED
    BY <2>1, <2>2
<1>8. slotBytes' \in [Slots -> Nat] /\ \A s \in Slots : slotBytes'[s] = Charge(heap'[s])
  <2>1. Charge(e) = EntryBytes
    BY FS_EmptySet DEF Charge, EntryBytes, CellBytes, ValueBytes
  <2> QED
    BY <1>1, <1>2, <1>4, <2>1 DEF HeapPart, EntryBytes
<1>9. \A s \in Slots : Registered(heap'[s]) = Registered(heap[s])
                       /\ heap'[s].cells = heap[s].cells /\ heap'[s].pending = heap[s].pending
  <2>1. heap[top + 1].cells = {} /\ heap[top + 1].pending = {}
    BY <1>2, <1>3 DEF HeapPart, HeapShape, Shaped
  <2> QED
    BY <1>4, <2>1 DEF Registered
<1>10. Numbering'
  BY <1>9 DEF HeapPart, Numbering
<1>11. HoldingsAreDue'
  <2> SUFFICES ASSUME NEW s \in Slots, heap'[s].kind = "registry"
               PROVE  /\ \A c \in heap'[s].cells :
                            c.target \in Occupied(heap)' /\ c.id \notin delivered
                      /\ \A c \in heap'[s].pending :
                            c.target \notin Occupied(heap)' /\ c.id \notin delivered
                      /\ \A c, d \in heap'[s].cells \cup heap'[s].pending : c.id = d.id => c = d
    BY DEF HoldingsAreDue
  <2>1. CASE s = top + 1
    BY <1>4, <2>1
  <2>2. CASE s # top + 1
    <3>1. heap'[s] = heap[s]
      BY <1>4, <2>2
    <3>2. \A c \in heap[s].pending : c.target # top + 1
      <4>1. \A c \in heap[s].pending : c.target \in Nat /\ c.target <= top
        BY <1>1, EntryFields DEF Cells, Slots, HeapPart, HeapShape
      <4> QED
        BY <1>1, <4>1 DEF Slots
    <3> QED
      BY <1>5, <3>1, <3>2 DEF HeapPart, HoldingsAreDue
  <2> QED
    BY <2>1, <2>2
<1> QED
  BY <1>2, <1>3, <1>4, <1>5, <1>6, <1>7, <1>8, <1>10, <1>11, <1>12 DEF HeapPart

-----------------------------------------------------------------------------
(* The least closed set is closed, and lies in the heap.                     *)
LEMMA LiveClosed ==
    ASSUME NEW h, NEW roots
    PROVE  Live(h, roots) \subseteq Occupied(h) /\ Closed(Live(h, roots), h, roots)
<1>1. Closed(Occupied(h), h, roots) /\ Occupied(h) \in SUBSET Slots
  BY DEF Closed, Occupied
<1>2. Live(h, roots) \subseteq Occupied(h)
  BY <1>1 DEF Live
<1>3. ASSUME NEW t \in Occupied(h),
             \A S \in SUBSET Slots : Closed(S, h, roots) => t \in S
      PROVE  t \in Live(h, roots)
  BY <1>1, <1>3 DEF Live
<1>4. \A s \in Live(h, roots) : \A S \in SUBSET Slots : Closed(S, h, roots) => s \in S
  BY DEF Live
<1>5. roots \cap Occupied(h) \subseteq Live(h, roots)
  BY <1>3 DEF Closed
<1>6. \A s \in Live(h, roots) : TraceEntry(h[s]) \cap Occupied(h) \subseteq Live(h, roots)
  <2> SUFFICES ASSUME NEW s \in Live(h, roots), NEW t \in TraceEntry(h[s]) \cap Occupied(h)
               PROVE  t \in Live(h, roots)
    OBVIOUS
  <2>1. \A S \in SUBSET Slots : Closed(S, h, roots) => t \in S
    BY <1>4 DEF Closed
  <2> QED
    BY <1>3, <2>1
<1>7. \A s \in Live(h, roots) : \A p \in Ephemerons(h[s]) :
          p[1] \in Live(h, roots) /\ p[2] \in Occupied(h) => p[2] \in Live(h, roots)
  <2> SUFFICES ASSUME NEW s \in Live(h, roots), NEW p \in Ephemerons(h[s]),
                      p[1] \in Live(h, roots), p[2] \in Occupied(h)
               PROVE  p[2] \in Live(h, roots)
    OBVIOUS
  <2>1. \A S \in SUBSET Slots : Closed(S, h, roots) => p[2] \in S
    BY <1>4 DEF Closed
  <2> QED
    BY <1>3, <2>1
<1> QED
  BY <1>2, <1>5, <1>6, <1>7 DEF Closed

(* What process_weak_targets_after_marking makes of one marked entry.        *)
LEMMA ProcessedEntry ==
    ASSUME NEW e \in Entries, Shaped(e), NEW M, None \notin M
    PROVE  LET f == WeakTargetsProcessed(e, M)
           IN  /\ f \in Entries
               /\ f.kind = e.kind /\ f.fields = e.fields /\ f.callback = e.callback
               /\ f.target = (IF e.target \in M THEN e.target ELSE None)
               /\ f.cells = e.cells \ DeadCells(e, M)
               /\ f.pending = e.pending \cup DeadCells(e, M)
               /\ f.scheduled = (e.scheduled \/ QueuesRegistry(e, M))
<1> DEFINE f == WeakTargetsProcessed(e, M)
<1>1. /\ e.kind \in Kinds /\ e.fields \in SUBSET Slots
      /\ e.weak \in SUBSET (Slots \X Values) /\ e.target \in Values
      /\ e.callback \in Values /\ e.cells \in SUBSET Cells
      /\ e.pending \in SUBSET Cells /\ e.scheduled \in BOOLEAN
  BY EntryFields
<1>2. DeadCells(e, M) \subseteq e.cells
  BY DEF DeadCells
<1>3. e.kind # "registry" => ~QueuesRegistry(e, M)
  BY DEF QueuesRegistry
<1>4. e.kind # "registry" => DeadCells(e, M) = {} /\ e.cells = {} /\ e.pending = {}
                              /\ e.scheduled = FALSE
  BY <1>2 DEF Shaped
<1>5. e.kind # "weakref" => e.target = None
  BY DEF Shaped
<1>6. CASE e.kind = "weakref" /\ e.target \notin M
  <2>1. f = [e EXCEPT !.target = None]
    BY <1>6 DEF WeakTargetsProcessed
  <2>2. f \in Entries
    BY <1>1, <2>1, SlotsFinite DEF Entries
  <2>3. /\ f.kind = e.kind /\ f.fields = e.fields /\ f.callback = e.callback
        /\ f.target = None /\ f.cells = e.cells /\ f.pending = e.pending
        /\ f.scheduled = e.scheduled
    BY <2>1 DEF Entries
  <2> HIDE DEF f
  <2>4. /\ f.cells = e.cells \ DeadCells(e, M)
        /\ f.pending = e.pending \cup DeadCells(e, M)
    BY <1>4, <1>6, <2>3
  <2>5. f.scheduled = (e.scheduled \/ QueuesRegistry(e, M))
    BY <1>3, <1>4, <1>6, <2>3
  <2> QED
    BY <1>6, <2>2, <2>3, <2>4, <2>5 DEF f
<1>7. CASE e.kind = "registry"
  <2> DEFINE q == QueuesRegistry(e, M)
  <2>1. f = [e EXCEPT !.cells = @ \ DeadCells(e, M),
                      !.pending = @ \cup DeadCells(e, M),
                      !.scheduled = @ \/ q]
    BY <1>7 DEF WeakTargetsProcessed
  <2>2. (e.scheduled \/ q) \in BOOLEAN
    OBVIOUS
  <2> HIDE DEF q
  <2>3. f \in Entries
    BY <1>1, <1>2, <2>1, <2>2 DEF Entries
  <2>4. /\ f.kind = e.kind /\ f.fields = e.fields /\ f.callback = e.callback
        /\ f.target = e.target
        /\ f.cells = e.cells \ DeadCells(e, M)
        /\ f.pending = e.pending \cup DeadCells(e, M)
        /\ f.scheduled = (e.scheduled \/ q)
    BY <1>1, <2>1 DEF Entries
  <2>5. f.target = (IF e.target \in M THEN e.target ELSE None)
    BY <1>5, <1>7, <2>4
  <2> QED
    BY <2>3, <2>4, <2>5 DEF q
<1>8. CASE ~(e.kind = "weakref" /\ e.target \notin M) /\ e.kind # "registry"
  <2>1. f = e
    BY <1>8 DEF WeakTargetsProcessed
  <2>2. e.target = (IF e.target \in M THEN e.target ELSE None)
    BY <1>5, <1>8
  <2>3. e.cells = e.cells \ DeadCells(e, M) /\ e.pending = e.pending \cup DeadCells(e, M)
    BY <1>4, <1>8
  <2>4. e.scheduled = (e.scheduled \/ QueuesRegistry(e, M))
    BY <1>3, <1>4, <1>8
  <2> QED
    BY <2>1, <2>2, <2>3, <2>4
<1> QED
  BY <1>6, <1>7, <1>8

(* One collection, entry by entry: without weak collections a marked entry   *)
(* has its weak targets processed, any other is vacant.                      *)
LEMMA CollectedAt ==
    ASSUME HeapPart, NEW M \in SUBSET Slots, NEW s \in Slots
    PROVE  Collected(heap, M)[s] = IF s \in M THEN WeakTargetsProcessed(heap[s], M) ELSE Vacant
<1> DEFINE P == ProcessTargets(heap, M)
           R == Purge(P, M, Slots)
<1>1. heap[s] \in Entries /\ Shaped(heap[s]) /\ None \notin M
  BY SlotsFinite DEF HeapPart, HeapShape
<1>2. P[s] = IF s \in M THEN WeakTargetsProcessed(heap[s], M) ELSE heap[s]
  BY DEF ProcessTargets
<1>3. P[s].kind = heap[s].kind
  BY <1>1, <1>2, ProcessedEntry
<1>4. ~IsWeakCollection(P[s])
  BY <1>1, <1>3 DEF IsWeakCollection, Shaped
<1>5. R[s] = P[s]
  BY <1>4 DEF Purge
<1> HIDE DEF P, R
<1>6. Collected(heap, M) = Sweep(R, M)
  BY DEF Collected, P, R
<1> QED
  BY <1>2, <1>5, <1>6 DEF Sweep

(* A cell that becomes a holding keeps the bytes of the holding.             *)
LEMMA ChargeCollected ==
    ASSUME NEW e \in Entries, NEW f \in Entries, NEW M, Shaped(e), e.kind # "vacant",
           f.kind = e.kind, f.cells = e.cells \ DeadCells(e, M),
           f.pending = e.pending \cup DeadCells(e, M),
           e.pending \cap DeadCells(e, M) = {}
    PROVE  /\ IsFiniteSet(f.cells) /\ IsFiniteSet(f.pending)
           /\ Charge(f) = Charge(e)
                  - (IF e.kind = "registry"
                     THEN Cardinality(DeadCells(e, M)) * (CellBytes - ValueBytes) ELSE 0)
           /\ Charge(f) \in Nat
<1> DEFINE D == DeadCells(e, M)
<1>1. D \subseteq e.cells /\ IsFiniteSet(e.cells) /\ IsFiniteSet(e.pending)
  BY DEF DeadCells, Shaped
<1>2. e.kind # "registry" => e.cells = {} /\ e.pending = {}
  BY DEF Shaped
<1> HIDE DEF D
<1>3. IsFiniteSet(D)
  BY <1>1, FS_Subset
<1>4. e.cells \cap D = D
  BY <1>1
<1>5. IsFiniteSet(f.cells) /\ Cardinality(f.cells) = Cardinality(e.cells) - Cardinality(D)
  <2>1. f.cells = e.cells \ D
    BY DEF D
  <2>2. IsFiniteSet(e.cells \ D) /\ Cardinality(e.cells \ D) = Cardinality(e.cells) - Cardinality(e.cells \cap D)
    BY <1>1, FS_Difference
  <2> QED
    BY <1>4, <2>1, <2>2, Zenon
<1>6. /\ IsFiniteSet(f.pending)
      /\ Cardinality(f.pending) = Cardinality(e.pending) + Cardinality(D) - Cardinality({})
  BY <1>1, <1>3, FS_Union DEF D
<1>7. Cardinality({}) = 0
  BY FS_EmptySet
<1>8. /\ Cardinality(e.cells) \in Nat /\ Cardinality(e.pending) \in Nat /\ Cardinality(D) \in Nat
      /\ Cardinality(f.cells) \in Nat /\ Cardinality(f.pending) \in Nat
  BY <1>1, <1>3, <1>5, <1>6, FS_CardinalityType
<1>9. Charge(f) = EntryBytes + CellBytes * Cardinality(f.cells)
                             + ValueBytes * Cardinality(f.pending)
  BY DEF Charge
<1>10. Charge(e) = EntryBytes + CellBytes * Cardinality(e.cells)
                              + ValueBytes * Cardinality(e.pending)
  BY DEF Charge
<1>11. Charge(f) \in Nat
  BY <1>8, <1>9 DEF EntryBytes, CellBytes, ValueBytes
<1>12. Charge(f) = Charge(e) - Cardinality(D) * (CellBytes - ValueBytes)
  BY <1>5, <1>6, <1>7, <1>8, <1>9, <1>10 DEF EntryBytes, CellBytes, ValueBytes
<1>13. e.kind # "registry" => Cardinality(D) = 0
  BY <1>1, <1>2, <1>7
<1>14. e.kind # "registry" => Charge(f) = Charge(e)
  BY <1>5, <1>6, <1>7, <1>8, <1>9, <1>10, <1>13 DEF EntryBytes, CellBytes, ValueBytes
<1>15. Charge(e) \in Nat
  BY <1>8, <1>10 DEF EntryBytes, CellBytes, ValueBytes
<1>16. CASE e.kind = "registry"
  BY <1>5, <1>6, <1>11, <1>12, <1>16 DEF D
<1>17. CASE e.kind # "registry"
  BY <1>5, <1>6, <1>11, <1>14, <1>15, <1>17
<1> QED
  BY <1>16, <1>17

(* A collection leaves what is live, with its weak targets processed, and a  *)
(* heap as good as before.                                                   *)
LEMMA CollectHeap ==
    ASSUME HeapPart, Collect, NEW M, M = Live(heap, Roots)
    PROVE  /\ HeapPart'
           /\ M \subseteq Occupied(heap) /\ None \notin M /\ M \in SUBSET Slots
           /\ Roots \cap Occupied(heap) \subseteq M
           /\ Occupied(heap)' = M
           /\ lost \subseteq lost'
           /\ \A s \in M : heap'[s] = WeakTargetsProcessed(heap[s], M)
           /\ \A s \in Slots \ M : heap'[s] = Vacant
<1>1. M \subseteq Occupied(heap) /\ Closed(M, heap, Roots)
  BY LiveClosed
<1>2. M \in SUBSET Slots /\ None \notin M
  BY <1>1, SlotsFinite DEF Occupied
<1>3. /\ heap \in [Slots -> Entries] /\ slotBytes \in [Slots -> Nat] /\ top \in Slots
      /\ \A s \in Slots : Shaped(heap[s]) /\ heap[s] \in Entries
  BY DEF HeapPart, HeapShape
<1>4. /\ heap' = Collected(heap, M) /\ top' = top
      /\ slotBytes' = [s \in Slots |-> IF s \in M
                                       THEN slotBytes[s] - Refund(heap, M, s) ELSE 0]
      /\ nextId' = nextId /\ delivered' = delivered /\ lost' = lost \cup Skipped(heap, M)
  BY DEF Collect
<1>5. \A s \in M : heap'[s] = WeakTargetsProcessed(heap[s], M)
  BY <1>2, <1>4, CollectedAt
<1>6. \A s \in Slots \ M : heap'[s] = Vacant
  BY <1>2, <1>4, CollectedAt
<1>7. ASSUME NEW s \in M
      PROVE  /\ heap'[s] \in Entries
             /\ heap'[s].kind = heap[s].kind /\ heap'[s].fields = heap[s].fields
             /\ heap'[s].callback = heap[s].callback
             /\ heap'[s].target = (IF heap[s].target \in M THEN heap[s].target ELSE None)
             /\ heap'[s].cells = heap[s].cells \ DeadCells(heap[s], M)
             /\ heap'[s].pending = heap[s].pending \cup DeadCells(heap[s], M)
             /\ heap'[s].scheduled = (heap[s].scheduled \/ QueuesRegistry(heap[s], M))
             /\ heap[s].kind # "vacant"
  <2>1. heap[s] \in Entries /\ Shaped(heap[s]) /\ heap[s].kind # "vacant"
    BY <1>1, <1>2, <1>3 DEF Occupied
  <2>2. heap'[s] = WeakTargetsProcessed(heap[s], M)
    BY <1>5
  <2> QED
    BY <1>2, <2>1, <2>2, ProcessedEntry
<1>8. Vacant \in Entries /\ Vacant.kind = "vacant" /\ Shaped(Vacant) /\ Charge(Vacant) = 0
      /\ Vacant.cells = {} /\ Vacant.pending = {} /\ Vacant.target = None /\ Registered(Vacant) = {}
  BY SlotsFinite, FS_EmptySet DEF Vacant, Entries, Shaped, Charge, Kinds, Registered
<1>9. heap' \in [Slots -> Entries]
  <2>1. \A s \in Slots : heap'[s] \in Entries
    BY <1>6, <1>7, <1>8
  <2>2. heap' = [s \in Slots |-> heap'[s]]
    BY <1>4 DEF Collected, Sweep
  <2> QED
    BY <2>1, <2>2
<1>10. Occupied(heap)' = M
  BY <1>2, <1>6, <1>7, <1>8 DEF Occupied
<1>11. ASSUME NEW s \in M
       PROVE  /\ IsFiniteSet(heap'[s].cells) /\ IsFiniteSet(heap'[s].pending)
              /\ Charge(heap'[s]) = Charge(heap[s]) - Refund(heap, M, s)
              /\ Charge(heap'[s]) \in Nat
  <2>1. heap[s].pending \cap DeadCells(heap[s], M) = {}
    <3>1. CASE heap[s].kind = "registry"
      BY <1>2, <3>1 DEF HeapPart, HoldingsAreDue, DeadCells
    <3>2. CASE heap[s].kind # "registry"
      BY <1>2, <1>3, <3>2 DEF Shaped
    <3> QED
      BY <3>1, <3>2
  <2>2. heap[s] \in Entries /\ Shaped(heap[s])
    BY <1>2, <1>3
  <2> QED
    BY <1>7, <2>1, <2>2, ChargeCollected DEF Refund
<1>12. HeapShape'
  <2> SUFFICES ASSUME NEW s \in Slots
               PROVE  /\ Shaped(heap'[s])
                      /\ s > top => heap'[s].kind = "vacant"
                      /\ heap'[s].target \in M \cup {None}
                      /\ \A c \in heap'[s].pending : c.target <= top
    BY <1>4, <1>10 DEF HeapShape
  <2>1. CASE s \in M
    <3>1. Shaped(heap[s])
      BY <1>3
    <3>2. s > top => heap[s].kind = "vacant"
      BY DEF HeapPart, HeapShape
    <3>3. heap[s].kind # "registry" => DeadCells(heap[s], M) = {}
      BY <3>1 DEF Shaped, DeadCells
    <3>4. heap[s].kind # "registry" => heap'[s].scheduled = FALSE
      BY <1>7, <2>1, <3>1 DEF Shaped, QueuesRegistry
    <3>5. Shaped(heap'[s])
      BY <1>7, <1>11, <2>1, <3>1, <3>3, <3>4 DEF Shaped
    <3>6. \A c \in heap'[s].pending : c.target <= top
      <4> SUFFICES ASSUME NEW c \in heap'[s].pending PROVE c.target <= top
        OBVIOUS
      <4>1. CASE c \in heap[s].pending
        BY <4>1 DEF HeapPart, HeapShape
      <4>2. CASE c \in DeadCells(heap[s], M)
        <5>1. heap[s].kind = "registry" /\ c \in heap[s].cells
          BY <3>3, <4>2 DEF DeadCells
        <5>2. c.target \in Occupied(heap)
          BY <5>1 DEF HeapPart, HoldingsAreDue
        <5>3. c.target \in Slots /\ ~(c.target > top)
          BY <5>2 DEF HeapPart, HeapShape, Occupied
        <5>4. c.target \in Nat /\ top \in Nat
          BY <1>3, <5>3, SlotsFinite
        <5> QED
          BY <5>3, <5>4
      <4> QED
        BY <1>7, <2>1, <4>1, <4>2
    <3> QED
      BY <1>7, <2>1, <3>2, <3>5, <3>6
  <2>2. CASE s \notin M
    BY <1>6, <1>8, <2>2
  <2> QED
    BY <2>1, <2>2
<1>13. Edges'
  <2> SUFFICES ASSUME NEW s \in M, NEW t \in OwnedEdges(heap'[s])
               PROVE  t \in M \cup lost'
    BY <1>10 DEF Edges, Readable
  <2>1. t \in OwnedEdges(heap[s])
    <3>1. DeadCells(heap[s], M) \subseteq heap[s].cells
      BY DEF DeadCells
    <3>2. \A c \in heap'[s].cells : c \in heap[s].cells
      BY <1>7
    <3>3. \A c \in heap'[s].pending : c \in heap[s].pending \/ c \in heap[s].cells
      BY <1>7, <3>1
    <3> QED
      BY <1>7, <3>2, <3>3 DEF OwnedEdges, RegistryEdges
  <2>2. t \in Occupied(heap) \cup lost
    BY <1>1, <2>1 DEF HeapPart, Edges, Readable
  <2>3. Shaped(heap[s]) /\ heap[s].kind # "vacant"
    BY <1>2, <1>3, <1>7
  <2>4. CASE heap[s].kind \in {"weakref", "registry"} /\ t \in heap[s].fields
    <3>1. s \in {w \in M : heap[w].kind \in {"weakref", "registry"}}
      BY <2>4
    <3>2. t \notin M => t \in Skipped(heap, M)
      BY <2>4, <3>1 DEF Skipped
    <3> QED
      BY <1>4, <3>2
  <2>5. CASE ~(heap[s].kind \in {"weakref", "registry"} /\ t \in heap[s].fields)
    <3>1. t \in TraceEntry(heap[s])
      <4>1. heap[s].kind # "registry" => RegistryEdges(heap[s]) = {}
        BY <2>3, SlotsFinite DEF Shaped, RegistryEdges
      <4> QED
        BY <2>1, <2>3, <2>5, <4>1 DEF Shaped, OwnedEdges, TraceEntry, IsWeakCollection
    <3>2. TraceEntry(heap[s]) \cap Occupied(heap) \subseteq M
      BY <1>1 DEF Closed
    <3> QED
      BY <1>4, <2>2, <3>1, <3>2
  <2> QED
    BY <2>4, <2>5
<1>18. lost' \in SUBSET Slots /\ lost \subseteq lost'
  <2>1. \A s \in M : heap[s].fields \in SUBSET Slots
    BY <1>2, <1>3, EntryFields
  <2> QED
    BY <1>4, <2>1 DEF HeapPart, Skipped
<1>14. slotBytes' \in [Slots -> Nat] /\ \A s \in Slots : slotBytes'[s] = Charge(heap'[s])
  <2>1. \A s \in Slots : slotBytes'[s] = Charge(heap'[s]) /\ slotBytes'[s] \in Nat
    <3> SUFFICES ASSUME NEW s \in Slots
                 PROVE  slotBytes'[s] = Charge(heap'[s]) /\ slotBytes'[s] \in Nat
      OBVIOUS
    <3>1. CASE s \in M
      <4>1. slotBytes[s] = Charge(heap[s])
        BY DEF HeapPart
      <4>2. slotBytes'[s] = slotBytes[s] - Refund(heap, M, s)
        BY <1>4, <3>1
      <4>3. Charge(heap'[s]) = Charge(heap[s]) - Refund(heap, M, s) /\ Charge(heap'[s]) \in Nat
        BY <1>11, <3>1
      <4> QED
        BY <4>1, <4>2, <4>3
    <3>2. CASE s \notin M
      BY <1>4, <1>6, <1>8, <3>2
    <3> QED
      BY <3>1, <3>2
  <2> QED
    BY <1>4, <2>1
<1>15. \A s \in Slots : Registered(heap'[s]) \subseteq Registered(heap[s])
  <2> SUFFICES ASSUME NEW s \in Slots PROVE Registered(heap'[s]) \subseteq Registered(heap[s])
    OBVIOUS
  <2>1. CASE s \in M
    BY <1>7, <2>1 DEF Registered, DeadCells
  <2>2. CASE s \notin M
    BY <1>6, <1>8, <2>2
  <2> QED
    BY <2>1, <2>2
<1>16. Numbering'
  BY <1>4, <1>15 DEF HeapPart, Numbering
<1>17. HoldingsAreDue'
  <2> SUFFICES ASSUME NEW s \in Slots, heap'[s].kind = "registry"
               PROVE  /\ \A c \in heap'[s].cells : c.target \in M /\ c.id \notin delivered
                      /\ \A c \in heap'[s].pending : c.target \notin M /\ c.id \notin delivered
                      /\ \A c, d \in heap'[s].cells \cup heap'[s].pending : c.id = d.id => c = d
    BY <1>4, <1>10 DEF HoldingsAreDue
  <2>1. s \in M
    BY <1>6, <1>8
  <2>2. heap[s].kind = "registry"
    BY <1>7, <2>1
  <2>3. /\ \A c \in heap[s].cells : c.target \in Occupied(heap) /\ c.id \notin delivered
        /\ \A c \in heap[s].pending : c.target \notin Occupied(heap) /\ c.id \notin delivered
        /\ \A c, d \in heap[s].cells \cup heap[s].pending : c.id = d.id => c = d
    BY <2>2 DEF HeapPart, HoldingsAreDue
  <2>4. /\ heap'[s].cells = heap[s].cells \ DeadCells(heap[s], M)
        /\ heap'[s].pending = heap[s].pending \cup DeadCells(heap[s], M)
    BY <1>7, <2>1
  <2> QED
    BY <1>1, <2>3, <2>4 DEF DeadCells
<1> QED
  BY <1>1, <1>2, <1>3, <1>4, <1>5, <1>6, <1>9, <1>10, <1>12, <1>13, <1>14, <1>16, <1>17,
     <1>18 DEF HeapPart, Closed

-----------------------------------------------------------------------------
(* Sequences without repetition.                                             *)
Once(q) == \A i, j \in DOMAIN q : q[i] = q[j] => i = j

(* The slots of a set in increasing order, each once.                        *)
LEMMA SlotOrder ==
    ASSUME NEW S \in SUBSET Slots, NEW q \in InSlotOrder(S)
    PROVE  q \in Seq(Slots) /\ Elements(q) = S /\ Once(q)
<1>1. q \in [1..Cardinality(S) -> S] /\ Elements(q) = S
      /\ \A i, j \in DOMAIN q : i < j => q[i] < q[j]
  BY DEF InSlotOrder
<1>2. Cardinality(S) \in Nat
  BY SlotsFinite
<1>3. q \in Seq(Slots)
  <2>1. q \in [1..Cardinality(S) -> Slots]
    BY <1>1
  <2> QED
    BY <1>2, <2>1, SeqDef
<1>4. ASSUME NEW i \in DOMAIN q, NEW j \in DOMAIN q, q[i] = q[j]
      PROVE  i = j
  <2>1. i \in Nat /\ j \in Nat /\ q[i] \in Nat /\ q[j] \in Nat
    <3>1. q[i] \in Slots /\ q[j] \in Slots /\ i \in 1..Cardinality(S) /\ j \in 1..Cardinality(S)
      BY <1>1
    <3>2. q[i] \in Nat /\ q[j] \in Nat
      BY <3>1, SlotsFinite
    <3> QED
      BY <1>2, <3>1, <3>2
  <2>2. (i < j => q[i] < q[j]) /\ (j < i => q[j] < q[i])
    BY <1>1
  <2> QED
    BY <1>4, <2>1, <2>2
<1> QED
  BY <1>1, <1>3, <1>4 DEF Once

(* Two sequences without repetition and without a common element.            *)
LEMMA ConcatOnce ==
    ASSUME NEW S, NEW p \in Seq(S), NEW q \in Seq(S)
    PROVE  /\ p \o q \in Seq(S) /\ Elements(p \o q) = Elements(p) \cup Elements(q)
           /\ Once(p) /\ Once(q) /\ Elements(p) \cap Elements(q) = {} => Once(p \o q)
<1> DEFINE m == Len(p)
           n == Len(q)
           c == p \o q
<1>1. /\ m \in Nat /\ DOMAIN p = 1..m
      /\ n \in Nat /\ DOMAIN q = 1..n
  BY LenProperties
<1>2. /\ c \in Seq(S) /\ Len(c) = m + n
      /\ \A i \in 1..m + n : c[i] = IF i <= m THEN p[i] ELSE q[i - m]
  BY ConcatProperties
<1>3. DOMAIN c = 1..m + n
  BY <1>2, LenProperties
<1> HIDE DEF m, n, c
<1>4. ASSUME NEW i \in DOMAIN c
      PROVE  (i <= m => i \in DOMAIN p /\ c[i] = p[i])
             /\ (~(i <= m) => i - m \in DOMAIN q /\ c[i] = q[i - m])
             /\ i \in Nat /\ (i <= m \/ i > m)
  BY <1>1, <1>2, <1>3
<1>5. Elements(c) \subseteq Elements(p) \cup Elements(q)
  BY <1>4 DEF Elements
<1>6. Elements(p) \subseteq Elements(c)
  <2> SUFFICES ASSUME NEW i \in DOMAIN p PROVE p[i] \in Elements(c)
    BY DEF Elements
  <2>1. i \in DOMAIN c /\ i <= m
    BY <1>1, <1>3
  <2>2. c[i] = p[i]
    BY <1>4, <2>1
  <2> QED
    BY <2>1, <2>2 DEF Elements
<1>7. Elements(q) \subseteq Elements(c)
  <2> SUFFICES ASSUME NEW i \in DOMAIN q PROVE q[i] \in Elements(c)
    BY DEF Elements
  <2>1. m + i \in DOMAIN c /\ ~(m + i <= m) /\ (m + i) - m = i
    BY <1>1, <1>3
  <2>2. c[m + i] = q[i]
    <3>1. c[m + i] = q[(m + i) - m]
      BY <1>4, <2>1
    <3> QED
      BY <2>1, <3>1
  <2> QED
    BY <2>1, <2>2 DEF Elements
<1>8. ASSUME Once(p), Once(q), Elements(p) \cap Elements(q) = {},
             NEW i \in DOMAIN c, NEW j \in DOMAIN c, c[i] = c[j]
      PROVE  i = j
  <2>1. i <= m /\ j <= m => i = j
    BY <1>4, <1>8 DEF Once
  <2>2. ASSUME ~(i <= m), ~(j <= m) PROVE i = j
    <3>1. i - m = j - m
      BY <1>4, <1>8, <2>2 DEF Once
    <3>2. i \in Nat /\ j \in Nat
      BY <1>4
    <3> QED
      BY <1>1, <3>1, <3>2
  <2>3. ASSUME NEW k \in DOMAIN p, NEW l \in DOMAIN q PROVE p[k] # q[l]
    <3>1. p[k] \in Elements(p) /\ q[l] \in Elements(q)
      BY DEF Elements
    <3> QED
      BY <1>8, <3>1
  <2>4. i <= m /\ ~(j <= m) => FALSE
    BY <1>4, <1>8, <2>3
  <2>5. ~(i <= m) /\ j <= m => FALSE
    BY <1>4, <1>8, <2>3
  <2> QED
    BY <2>1, <2>2, <2>4, <2>5
<1> QED
  BY <1>2, <1>5, <1>6, <1>7, <1>8 DEF c, Once

(* Append, and Tail.                                                         *)
LEMMA AppendOnce ==
    ASSUME NEW S, NEW p \in Seq(S), NEW x \in S
    PROVE  /\ Append(p, x) \in Seq(S) /\ Len(Append(p, x)) = Len(p) + 1
           /\ Elements(Append(p, x)) = Elements(p) \cup {x}
           /\ \A i \in DOMAIN p : i \in DOMAIN Append(p, x) /\ Append(p, x)[i] = p[i]
           /\ \A i \in DOMAIN Append(p, x) :
                 i \in DOMAIN p \/ (i = Len(p) + 1 /\ Append(p, x)[i] = x)
           /\ Once(p) /\ x \notin Elements(p) => Once(Append(p, x))
<1> DEFINE m == Len(p)
           c == Append(p, x)
<1>1. m \in Nat /\ DOMAIN p = 1..m
  BY LenProperties
<1>2. /\ c \in Seq(S) /\ Len(c) = m + 1 /\ c[m + 1] = x
      /\ \A i \in 1..m : c[i] = p[i]
  BY AppendProperties
<1>3. DOMAIN c = 1..m + 1
  BY <1>2, LenProperties
<1> HIDE DEF m, c
<1>4. \A i \in DOMAIN c : i \in DOMAIN p \/ i = m + 1
  BY <1>1, <1>3
<1>5. \A i \in DOMAIN p : i \in DOMAIN c /\ c[i] = p[i]
  BY <1>1, <1>2, <1>3
<1>6. m + 1 \in DOMAIN c /\ c[m + 1] = x
  BY <1>1, <1>2, <1>3
<1>7. Elements(c) = Elements(p) \cup {x}
  BY <1>4, <1>5, <1>6 DEF Elements
<1>8. Once(p) /\ x \notin Elements(p) => Once(c)
  BY <1>4, <1>5, <1>6 DEF Once, Elements
<1> QED
  BY <1>2, <1>4, <1>5, <1>6, <1>7, <1>8 DEF m, c

LEMMA TailElements ==
    ASSUME NEW S, NEW p \in Seq(S), p # <<>>
    PROVE  /\ Tail(p) \in Seq(S) /\ Len(Tail(p)) = Len(p) - 1 /\ Len(p) \in Nat
           /\ Head(p) \in S /\ 1 \in DOMAIN p /\ Head(p) = p[1]
           /\ \A i \in DOMAIN Tail(p) : i \in Nat /\ i + 1 \in DOMAIN p /\ i + 1 # 1
                                        /\ Tail(p)[i] = p[i + 1]
           /\ \A i \in DOMAIN p : i = 1 \/ (i - 1 \in DOMAIN Tail(p) /\ Tail(p)[i - 1] = p[i])
<1>1. /\ Len(p) \in Nat \ {0} /\ DOMAIN p = 1..Len(p)
  BY EmptySeq, LenProperties
<1>2. /\ Head(p) \in S /\ Tail(p) \in Seq(S) /\ Len(Tail(p)) = Len(p) - 1
      /\ \A i \in 1..Len(Tail(p)) : Tail(p)[i] = p[i + 1]
  BY HeadTailProperties
<1>3. DOMAIN Tail(p) = 1..Len(p) - 1
  BY <1>2, LenProperties
<1>4. Head(p) = p[1]
  OBVIOUS
<1>5. \A i \in DOMAIN Tail(p) : i \in Nat /\ i + 1 \in DOMAIN p /\ i + 1 # 1
                                /\ Tail(p)[i] = p[i + 1]
  BY <1>1, <1>2, <1>3
<1>6. ASSUME NEW i \in DOMAIN p, i # 1
      PROVE  i - 1 \in DOMAIN Tail(p) /\ Tail(p)[i - 1] = p[i]
  <2>1. i - 1 \in DOMAIN Tail(p) /\ (i - 1) + 1 = i
    BY <1>1, <1>3, <1>6
  <2>2. Tail(p)[i - 1] = p[(i - 1) + 1]
    BY <1>5, <2>1
  <2> QED
    BY <2>1, <2>2
<1> QED
  BY <1>1, <1>2, <1>4, <1>5, <1>6

-----------------------------------------------------------------------------
(* A collection at a safepoint, for any program: nothing the machine holds   *)
(* is swept, and exactly the registries that had no cleanup queued and have  *)
(* holdings are queued.                                                      *)
LEMMA CollectStep == IInv /\ Collect => IInv'
<1> SUFFICES ASSUME IInv, Collect PROVE IInv'
  OBVIOUS
<1>1. HeapPart /\ MachinePart /\ Queues /\ JobShape /\ Keeping
  BY Parts
<1> DEFINE M == Live(heap, Roots)
           N == NewlyQueued(heap, M)
<1>2. /\ HeapPart'
      /\ M \subseteq Occupied(heap) /\ None \notin M /\ M \in SUBSET Slots
      /\ Roots \cap Occupied(heap) \subseteq M
      /\ Occupied(heap)' = M
      /\ lost \subseteq lost'
      /\ \A s \in M : heap'[s] = WeakTargetsProcessed(heap[s], M)
      /\ \A s \in Slots \ M : heap'[s] = Vacant
  BY <1>1, CollectHeap
<1>3. /\ globals' = globals /\ frame' = frame /\ keptAlive' = keptAlive
      /\ machineBytes' = machineBytes /\ microtasks' = microtasks
      /\ pc' = pc /\ job' = job /\ observed' = observed
  BY DEF Collect, rootVars, jobVars
<1>4. PICK q \in InSlotOrder(N) : cleanupQueue' = cleanupQueue \o q
  BY DEF Collect
<1> HIDE DEF M
<1>5. N \in SUBSET Slots /\ N \subseteq M
  BY <1>2 DEF NewlyQueued
<1>6. \A s \in M : heap[s] \in Entries /\ Shaped(heap[s])
  BY <1>1, <1>2 DEF HeapPart, HeapShape
<1>7. ASSUME NEW s \in M
      PROVE  /\ heap'[s].kind = heap[s].kind
             /\ heap'[s].pending = heap[s].pending \cup DeadCells(heap[s], M)
             /\ heap'[s].scheduled = (heap[s].scheduled \/ QueuesRegistry(heap[s], M))
  BY <1>2, <1>6, ProcessedEntry
<1>8. \A s \in Slots \ M : heap'[s].kind = "vacant" /\ heap'[s].pending = {}
  BY <1>2 DEF Vacant
<1>9. \A s \in M : s \in N <=> QueuesRegistry(heap[s], M)
  BY DEF NewlyQueued
<1>10. q \in Seq(Slots) /\ Elements(q) = N /\ Once(q)
  BY <1>5, SlotOrder
<1>11. \A r \in N : heap[r].kind = "registry" /\ ~heap[r].scheduled
  BY <1>5, <1>9 DEF QueuesRegistry
<1>12. \A r \in N : ~Queued(r)
  BY <1>1, <1>5, <1>11 DEF Queues
<1>13. Elements(cleanupQueue) \cap N = {}
  BY <1>12 DEF Queued, Elements
<1>14. Once(cleanupQueue) /\ cleanupQueue \in Seq(Slots)
  BY <1>1 DEF Queues, Once, MachinePart
<1>15. /\ cleanupQueue' \in Seq(Slots) /\ Once(cleanupQueue')
       /\ Elements(cleanupQueue') = Elements(cleanupQueue) \cup N
  BY <1>4, <1>10, <1>13, <1>14, ConcatOnce
<1> HIDE DEF N
<1>16. /\ frame \cup globals \subseteq Readable'
       /\ keptAlive \subseteq M /\ Elements(cleanupQueue) \subseteq M
  BY <1>1, <1>2 DEF MachinePart, Roots, Readable
<1>17. \A j \in Elements(microtasks) : j.slot \in M \cup {None}
  <2> SUFFICES ASSUME NEW j \in Elements(microtasks), j.slot # None PROVE j.slot \in M
    OBVIOUS
  <2>1. j.slot \in Occupied(heap)
    BY <1>1 DEF MachinePart
  <2>2. j.slot \in Roots
    BY <2>1 DEF Roots, Occupied
  <2> QED
    BY <1>2, <2>1, <2>2
<1>18. MachinePart'
  BY <1>1, <1>2, <1>3, <1>5, <1>15, <1>16, <1>17 DEF MachinePart
<1>19. \A r \in Slots : Queued(r)' <=> Queued(r) \/ r \in N
  BY <1>3, <1>15 DEF Queued, Elements
<1>20. \A r \in Slots : Queued(r) => r \in M
  <2> SUFFICES ASSUME NEW r \in Slots, Queued(r) PROVE r \in M
    OBVIOUS
  <2>1. CASE \E i \in DOMAIN cleanupQueue : cleanupQueue[i] = r
    BY <1>16, <2>1 DEF Elements
  <2>2. CASE \E i \in DOMAIN microtasks : IsCleanupOf(microtasks[i], r)
    <3>1. \E j \in Elements(microtasks) : j.slot = r
      BY <2>2 DEF Elements, IsCleanupOf
    <3> QED
      BY <1>17, <3>1, SlotsFinite
  <2> QED
    BY <2>1, <2>2 DEF Queued
<1>21. Queues'
  <2>1. \A i \in DOMAIN cleanupQueue', j \in DOMAIN microtasks :
           ~IsCleanupOf(microtasks[j], cleanupQueue'[i])
    <3> SUFFICES ASSUME NEW i \in DOMAIN cleanupQueue', NEW j \in DOMAIN microtasks,
                        IsCleanupOf(microtasks[j], cleanupQueue'[i])
                 PROVE  FALSE
      OBVIOUS
    <3>1. cleanupQueue'[i] \in Elements(cleanupQueue) \/ cleanupQueue'[i] \in N
      BY <1>15 DEF Elements
    <3>2. cleanupQueue'[i] \notin N
      BY <1>12 DEF Queued
    <3> QED
      BY <1>1, <3>1, <3>2 DEF Queues, Elements
  <2>2. \A r \in Slots : Queued(r)' => heap'[r].kind = "registry"
    BY <1>1, <1>5, <1>7, <1>11, <1>19, <1>20 DEF Queues
  <2>3. \A r \in Slots : heap'[r].kind = "registry" => (heap'[r].scheduled <=> Queued(r)')
    <3> SUFFICES ASSUME NEW r \in Slots, heap'[r].kind = "registry"
                 PROVE  heap'[r].scheduled <=> Queued(r)'
      OBVIOUS
    <3>1. r \in M
      BY <1>8
    <3>2. heap[r].scheduled <=> Queued(r)
      BY <1>1, <1>7, <3>1 DEF Queues
    <3> QED
      BY <1>7, <1>9, <1>19, <3>1, <3>2
  <2>4. /\ \A i, j \in DOMAIN microtasks :
              (microtasks[i].kind = "cleanup" /\ microtasks[j].kind = "cleanup"
                  /\ microtasks[i].slot = microtasks[j].slot) => i = j
        /\ \A i \in DOMAIN microtasks :
              /\ microtasks[i].hasMore = FALSE
              /\ microtasks[i].kind = "cleanup" => microtasks[i].slot \in Slots
    BY <1>1 DEF Queues
  <2> QED
    BY <1>3, <1>15, <2>1, <2>2, <2>3, <2>4 DEF Queues, Once
<1>22. \A r \in Slots : heap'[r].pending # {} => heap'[r].scheduled
  <2> SUFFICES ASSUME NEW r \in Slots, heap'[r].pending # {} PROVE heap'[r].scheduled
    OBVIOUS
  <2>1. r \in M
    BY <1>8
  <2>2. heap[r].pending \cup DeadCells(heap[r], M) # {}
    BY <1>7, <2>1
  <2>3. heap[r].kind = "registry"
    BY <1>6, <2>1, <2>2 DEF Shaped, DeadCells
  <2> QED
    BY <1>7, <2>1, <2>2, <2>3 DEF QueuesRegistry
<1>23. JobShape'
  BY <1>1, <1>3, <1>22 DEF JobShape
<1>24. Keeping'
  BY <1>1, <1>3 DEF Keeping
<1> QED
  BY <1>2, <1>18, <1>21, <1>23, <1>24, Parts

-----------------------------------------------------------------------------
(* A step that leaves the heap and the queues alone.                         *)
LEMMA QuietStep ==
    ASSUME IInv, UNCHANGED <<heapVars, queueVars, nextId, delivered, lost>>,
           globals' \cup frame' \subseteq Readable /\ keptAlive' \subseteq Occupied(heap),
           pc' \in {"idle", "turn", "head", "callback", "cleanup"},
           job' \in Jobs \cup {NoJob},
           machineBytes' = ValueBytes * Cardinality(keptAlive'),
           pc' \in {"callback", "cleanup"} \/ job' = NoJob,
           job' # NoJob => job' = job /\ (pc' = "callback" => pc = "callback"),
           pc' = "cleanup" => job'.kind = "cleanup",
           job' = NoJob => \A r \in Slots : heap[r].pending # {} => heap[r].scheduled,
           Callback \in globals',
           pc' \in {"turn", "callback", "cleanup"} => observed' \subseteq keptAlive'
    PROVE  IInv'
<1>1. HeapPart /\ MachinePart /\ Queues /\ JobShape /\ Keeping
  BY Parts
<1>2. /\ heap' = heap /\ top' = top /\ slotBytes' = slotBytes
      /\ microtasks' = microtasks /\ cleanupQueue' = cleanupQueue
      /\ nextId' = nextId /\ delivered' = delivered /\ lost' = lost
  BY DEF heapVars, queueVars
<1>3. HeapPart'
  BY <1>1, <1>2, HeapKept
<1>4. /\ Occupied(heap)' = Occupied(heap) /\ Occupied(heap) \subseteq Slots
      /\ Readable' = Readable /\ Readable \subseteq Slots
  BY <1>1, <1>2 DEF Occupied, Readable, HeapPart
<1>5. machineBytes' \in Nat
  <2>1. Cardinality(keptAlive') \in Nat
    BY <1>4, SlotsFinite
  <2> QED
    BY <2>1 DEF ValueBytes
<1>6. MachinePart'
  BY <1>1, <1>2, <1>4, <1>5 DEF MachinePart
<1>7. Queues'
  BY <1>1, <1>2 DEF Queues, Queued
<1>8. JobShape'
  <2>1. NoJob.kind = "none"
    BY DEF NoJob
  <2>2. CASE job' = NoJob
    BY <1>1, <1>2, <2>1, <2>2 DEF JobShape
  <2>3. CASE job' # NoJob
    BY <1>1, <1>2, <2>3 DEF JobShape
  <2> QED
    BY <2>2, <2>3
<1>9. Keeping'
  BY DEF Keeping
<1> QED
  BY <1>3, <1>6, <1>7, <1>8, <1>9, Parts

(* The end of a job or a turn, with nothing left to deliver that is not      *)
(* queued: the kept targets are let go, and paid back in full.               *)
LEMMA EndJobStep ==
    ASSUME IInv, NEW next \in {"head", "idle"}, EndJob(next),
           UNCHANGED <<heapVars, globals, queueVars, history>>,
           \A r \in Slots : heap[r].pending # {} => heap[r].scheduled
    PROVE  IInv'
<1>1. MachinePart /\ Keeping
  BY Parts
<1>2. /\ pc' = next /\ job' = NoJob /\ frame' = {} /\ keptAlive' = {}
      /\ machineBytes' = machineBytes - Cardinality(keptAlive) * ValueBytes
      /\ globals' = globals /\ UNCHANGED <<heapVars, queueVars, nextId, delivered, lost>>
  BY DEF EndJob, ClearKeptAlive, history
<1>3. machineBytes' = ValueBytes * Cardinality(keptAlive')
  <2>1. Cardinality(keptAlive) \in Nat
    BY <1>1, SlotsFinite DEF MachinePart
  <2>2. Cardinality(keptAlive') = 0
    BY <1>2, FS_EmptySet
  <2>3. machineBytes = ValueBytes * Cardinality(keptAlive)
    BY <1>1 DEF MachinePart
  <2> QED
    BY <1>2, <2>1, <2>2, <2>3 DEF ValueBytes
<1>4. globals' \cup frame' \subseteq Readable /\ keptAlive' \subseteq Occupied(heap) /\ Callback \in globals'
  BY <1>1, <1>2 DEF MachinePart, Keeping
<1> QED
  BY <1>2, <1>3, <1>4, QuietStep

(* A job that is no cleanup ends with every holding queued; so does a        *)
(* cleanup whose registry has none left, or is gone.                         *)
LEMMA NothingLeft ==
    ASSUME IInv,
           job.kind # "cleanup" \/ heap[job.slot].kind # "registry" \/ heap[job.slot].pending = {}
    PROVE  \A r \in Slots : heap[r].pending # {} => heap[r].scheduled
<1>1. HeapPart /\ JobShape
  BY Parts
<1> SUFFICES ASSUME NEW r \in Slots, heap[r].pending # {} PROVE heap[r].scheduled
  OBVIOUS
<1>2. heap[r].kind = "registry"
  BY <1>1 DEF HeapPart, HeapShape, Shaped
<1> QED
  BY <1>1, <1>2 DEF JobShape, IsCleanupOf

(* The steps of the program and of the checkpoint that only move references  *)
(* between registers, globals and kept targets, or end a job.                *)
LEMMA RootSteps ==
    ASSUME IInv,
           \/ \E v \in frame : SetGlobal(v)
           \/ \E v \in globals : DeleteGlobal(v)
           \/ StartTurn
           \/ StartDrain
           \/ OutOfFuel
           \/ CleanupReturns
    PROVE  IInv'
<1>1. HeapPart /\ MachinePart /\ Queues /\ JobShape /\ Keeping
  BY Parts
<1>2. /\ job \in Jobs \cup {NoJob} /\ machineBytes = ValueBytes * Cardinality(keptAlive)
      /\ frame \cup globals \subseteq Readable /\ keptAlive \subseteq Occupied(heap) /\ Callback \in globals
      /\ pc \in {"idle", "turn", "head", "pop", "callback", "cleanup"}
  BY <1>1 DEF MachinePart, Keeping
<1>3. pc # "callback" /\ pc # "cleanup" => job = NoJob
  BY <1>1 DEF JobShape
<1>4. job = NoJob => \A r \in Slots : heap[r].pending # {} => heap[r].scheduled
  BY NothingLeft DEF NoJob
<1>5. pc \in {"turn", "callback", "cleanup"} => observed \subseteq keptAlive
  BY <1>1 DEF Keeping
<1>6. ASSUME NEW v \in frame, SetGlobal(v) PROVE IInv'
  <2>1. /\ globals' = globals \cup {v} /\ frame' = frame /\ keptAlive' = keptAlive
        /\ machineBytes' = machineBytes /\ pc' = pc /\ job' = job /\ observed' = observed
        /\ UNCHANGED <<heapVars, queueVars, nextId, delivered, lost>> /\ pc \in {"turn", "callback"}
    BY <1>6 DEF SetGlobal, jobVars, history, Running
  <2> QED
    BY <1>2, <1>3, <1>4, <1>5, <2>1, QuietStep
<1>7. ASSUME NEW v \in globals, DeleteGlobal(v) PROVE IInv'
  <2>1. /\ globals' = globals \ {v} /\ frame' = frame /\ keptAlive' = keptAlive
        /\ machineBytes' = machineBytes /\ pc' = pc /\ job' = job /\ observed' = observed
        /\ UNCHANGED <<heapVars, queueVars, nextId, delivered, lost>> /\ pc \in {"turn", "callback"}
        /\ v # Callback
    BY <1>7 DEF DeleteGlobal, jobVars, history, Running
  <2> QED
    BY <1>2, <1>3, <1>4, <1>5, <2>1, QuietStep
<1>8. CASE StartTurn
  <2>1. /\ globals' = globals /\ frame' = frame /\ keptAlive' = keptAlive /\ pc = "idle"
        /\ machineBytes' = machineBytes /\ pc' = "turn" /\ job' = job /\ observed' = {}
        /\ UNCHANGED <<heapVars, queueVars, nextId, delivered, lost>>
    BY <1>8 DEF StartTurn, rootVars
  <2> QED
    BY <1>2, <1>3, <1>4, <2>1, QuietStep
<1>9. CASE StartDrain \/ OutOfFuel
  <2>1. /\ globals' = globals /\ frame' = frame /\ keptAlive' = keptAlive
        /\ pc \in {"idle", "pop"} /\ pc' \in {"idle", "head"}
        /\ machineBytes' = machineBytes /\ job' = job
        /\ UNCHANGED <<heapVars, queueVars, nextId, delivered, lost>>
    BY <1>9 DEF StartDrain, OutOfFuel, rootVars, history
  <2> QED
    BY <1>2, <1>3, <1>4, <2>1, QuietStep
<1>10. CASE CleanupReturns
  <2>1. /\ globals' = globals /\ frame' = {} /\ keptAlive' = keptAlive
        /\ pc = "callback" /\ pc' = "cleanup" /\ job.kind = "cleanup"
        /\ machineBytes' = machineBytes /\ job' = job /\ observed' = observed
        /\ UNCHANGED <<heapVars, queueVars, nextId, delivered, lost>>
    BY <1>10 DEF CleanupReturns, history
  <2> QED
    BY <1>2, <1>4, <1>5, <2>1, QuietStep
<1> QED
  BY <1>6, <1>7, <1>8, <1>9, <1>10

LEMMA EndSteps ==
    ASSUME IInv,
           \/ EndTurn \/ CleanupDone \/ CleanupLost
           \/ ReactionSettles \/ ReactionLost \/ CallbackEnds
    PROVE  IInv'
<1>1. CASE EndTurn
  <2>1. pc = "turn" /\ EndJob("idle") /\ UNCHANGED <<heapVars, globals, queueVars, history>>
    BY <1>1 DEF EndTurn
  <2>2. job.kind # "cleanup"
    BY <2>1, Parts DEF JobShape, NoJob
  <2>3. \A r \in Slots : heap[r].pending # {} => heap[r].scheduled
    BY <2>2, NothingLeft
  <2> QED
    BY <2>1, <2>3, EndJobStep
<1>2. CASE CleanupDone
  <2>1. \A r \in Slots : heap[r].pending # {} => heap[r].scheduled
    BY <1>2, NothingLeft DEF CleanupDone
  <2> QED
    BY <1>2, <2>1, EndJobStep DEF CleanupDone
<1>3. CASE CleanupLost
  <2>1. \A r \in Slots : heap[r].pending # {} => heap[r].scheduled
    BY <1>3, NothingLeft DEF CleanupLost
  <2> QED
    BY <1>3, <2>1, EndJobStep DEF CleanupLost
<1>4. CASE ReactionSettles \/ ReactionLost
  <2>1. \A r \in Slots : heap[r].pending # {} => heap[r].scheduled
    BY <1>4, NothingLeft DEF ReactionSettles, ReactionLost
  <2> QED
    BY <1>4, <2>1, EndJobStep DEF ReactionSettles, ReactionLost
<1>5. CASE CallbackEnds
  <2>1. \A r \in Slots : heap[r].pending # {} => heap[r].scheduled
    BY <1>5, NothingLeft DEF CallbackEnds
  <2>2. PICK next \in {"head", "idle"} : EndJob(next)
    BY <1>5 DEF CallbackEnds
  <2> QED
    BY <1>5, <2>1, <2>2, EndJobStep DEF CallbackEnds
<1> QED
  BY <1>1, <1>2, <1>3, <1>4, <1>5

-----------------------------------------------------------------------------
(* A job other than a cleanup goes to the back of the queue.                 *)
NewJob(j) ==
    /\ j \in Jobs /\ j.kind # "cleanup" /\ j.hasMore = FALSE
    /\ Len(microtasks) + 1 <= MaxMicrotasks
    /\ microtasks' = Append(microtasks, j)

(* The flags of the registries stay as they are, a new one is not set.       *)
SameFlags ==
    \A r \in Slots :
        /\ heap'[r].scheduled = heap[r].scheduled
        /\ heap[r].kind = "registry" => heap'[r].kind = "registry"
        /\ heap'[r].kind = "registry" => heap[r].kind = "registry" \/ heap[r].scheduled = FALSE

LEMMA FlagsKept ==
    ASSUME MachinePart, Queues, SameFlags, cleanupQueue' = cleanupQueue,
           microtasks' = microtasks \/ \E j : NewJob(j)
    PROVE  Queues'
<1>1. microtasks \in Seq(Jobs)
  BY DEF MachinePart
<1>2. \A i \in DOMAIN microtasks : i \in DOMAIN microtasks' /\ microtasks'[i] = microtasks[i]
  BY <1>1, AppendOnce DEF NewJob
<1>3. \A i \in DOMAIN microtasks' :
          \/ i \in DOMAIN microtasks
          \/ microtasks'[i].kind # "cleanup" /\ microtasks'[i].hasMore = FALSE
  BY <1>1, AppendOnce DEF NewJob
<1>4. \A r \in Slots : Queued(r)' <=> Queued(r)
  BY <1>2, <1>3 DEF Queued, IsCleanupOf
<1>5. \A r \in Slots : Queued(r)' => heap'[r].kind = "registry"
  BY <1>4 DEF Queues, SameFlags
<1>6. \A r \in Slots : heap'[r].kind = "registry" => (heap'[r].scheduled <=> Queued(r)')
  <2> SUFFICES ASSUME NEW r \in Slots, heap'[r].kind = "registry"
               PROVE  heap'[r].scheduled <=> Queued(r)
    BY <1>4
  <2>1. CASE heap[r].kind = "registry"
    BY <2>1 DEF Queues, SameFlags
  <2>2. CASE heap[r].kind # "registry"
    BY <2>2 DEF Queues, SameFlags
  <2> QED
    BY <2>1, <2>2
<1>7. \A i \in DOMAIN cleanupQueue, j \in DOMAIN microtasks' :
          ~IsCleanupOf(microtasks'[j], cleanupQueue[i])
  BY <1>2, <1>3 DEF Queues, IsCleanupOf
<1>8. \A i \in DOMAIN microtasks' :
          /\ microtasks'[i].hasMore = FALSE
          /\ microtasks'[i].kind = "cleanup" => microtasks'[i].slot \in Slots
  BY <1>2, <1>3 DEF Queues
<1>9. \A i, j \in DOMAIN microtasks' :
          (microtasks'[i].kind = "cleanup" /\ microtasks'[j].kind = "cleanup"
              /\ microtasks'[i].slot = microtasks'[j].slot) => i = j
  BY <1>2, <1>3 DEF Queues
<1> QED
  BY <1>5, <1>6, <1>7, <1>8, <1>9 DEF Queues

(* An operation of the program: the heap grows or changes in place, a target *)
(* may be kept, a job may be queued.                                         *)
LEMMA ProgramStep ==
    ASSUME IInv, Running, HeapPart', Occupied(heap) \subseteq Occupied(heap)',
           globals' = globals, cleanupQueue' = cleanupQueue, pc' = pc, job' = job, lost' = lost,
           frame' \subseteq Readable', keptAlive' \subseteq Occupied(heap)',
           keptAlive \subseteq keptAlive',
           machineBytes' = ValueBytes * Cardinality(keptAlive'),
           observed' \subseteq observed \cup keptAlive',
           SameFlags, \A r \in Slots : heap'[r].pending = heap[r].pending,
           \/ microtasks' = microtasks
           \/ \E j : NewJob(j) /\ j.slot \in Occupied(heap)' \cup {None}
    PROVE  IInv'
<1>1. HeapPart /\ MachinePart /\ Queues /\ JobShape /\ Keeping
  BY Parts
<1>2. /\ Occupied(heap)' \subseteq Slots /\ Readable' \subseteq Slots
      /\ Readable \subseteq Readable'
  BY DEF Occupied, Readable, HeapPart
<1>3. microtasks \in Seq(Jobs) /\ Len(microtasks) <= MaxMicrotasks
      /\ \A j \in Elements(microtasks) : j.slot \in Occupied(heap) \cup {None}
  BY <1>1 DEF MachinePart
<1>4. /\ microtasks' \in Seq(Jobs) /\ Len(microtasks') <= MaxMicrotasks
      /\ \A j \in Elements(microtasks') : j.slot \in Occupied(heap)' \cup {None}
  <2>1. CASE microtasks' = microtasks
    BY <1>3, <2>1
  <2>2. ASSUME NEW j, NewJob(j), j.slot \in Occupied(heap)' \cup {None}
        PROVE  /\ microtasks' \in Seq(Jobs) /\ Len(microtasks') <= MaxMicrotasks
               /\ \A k \in Elements(microtasks') : k.slot \in Occupied(heap)' \cup {None}
    <3>1. /\ microtasks' \in Seq(Jobs) /\ Len(microtasks') = Len(microtasks) + 1
          /\ Elements(microtasks') = Elements(microtasks) \cup {j}
      BY <1>3, <2>2, AppendOnce DEF NewJob
    <3>2. Len(microtasks) + 1 <= MaxMicrotasks
      BY <2>2 DEF NewJob
    <3> QED
      BY <1>3, <2>2, <3>1, <3>2
  <2> QED
    BY <2>1, <2>2
<1>5. machineBytes' \in Nat
  <2>1. Cardinality(keptAlive') \in Nat
    BY <1>2, SlotsFinite
  <2> QED
    BY <2>1 DEF ValueBytes
<1>6. MachinePart'
  BY <1>1, <1>2, <1>4, <1>5 DEF MachinePart
<1>7. Queues'
  BY <1>1, FlagsKept
<1>8. JobShape'
  BY <1>1 DEF JobShape, Running, SameFlags
<1>9. Keeping'
  BY <1>1 DEF Keeping, Running
<1> QED
  BY <1>6, <1>7, <1>8, <1>9, Parts

(* What a program can name it may come across; what is_object accepts is in  *)
(* the heap.                                                                 *)
LEMMA OperandsAreThere ==
    ASSUME IInv
    PROVE  /\ Operands \subseteq Readable /\ Holdable \subseteq Occupied(heap)
           /\ Occupied(heap) \subseteq Slots /\ Readable \subseteq Slots
           /\ Callback \in Readable
<1>1. Edges /\ globals \subseteq Readable /\ Callback \in globals /\ lost \subseteq Slots
  BY Parts DEF HeapPart, Keeping, MachinePart
<1>2. Occupied(heap) \subseteq Slots
  BY DEF Occupied
<1>3. Operands \subseteq Readable
  BY <1>1 DEF Operands, Edges, OwnedEdges, Readable
<1> QED
  BY <1>1, <1>2, <1>3 DEF Holdable, Readable

(* keep_alive_for_job charges the machine once for each target.              *)
LEMMA KeepingOne ==
    ASSUME MachinePart, NEW t \in Slots, KeepAlive(t)
    PROVE  machineBytes' = ValueBytes * Cardinality(keptAlive')
           /\ keptAlive' = keptAlive \cup {t}
<1>1. IsFiniteSet(keptAlive) /\ Cardinality(keptAlive) \in Nat
  BY SlotsFinite DEF MachinePart
<1>2. Cardinality(keptAlive \cup {t})
        = IF t \in keptAlive THEN Cardinality(keptAlive) ELSE Cardinality(keptAlive) + 1
  BY <1>1, FS_AddElement
<1>3. machineBytes = ValueBytes * Cardinality(keptAlive)
  BY DEF MachinePart
<1> QED
  BY <1>1, <1>2, <1>3 DEF KeepAlive, ValueBytes

-----------------------------------------------------------------------------
(* The operations that allocate, and those that only keep or queue.          *)
LEMMA NewStep ==
    ASSUME IInv, NEW e \in Entries, Allocate(e),
           nextId' = nextId, delivered' = delivered, lost' = lost,
           e.kind # "vacant", Shaped(e), e.cells = {}, e.pending = {}, e.scheduled = FALSE,
           e.target \in Occupied(heap) \cup {None}, OwnedEdges(e) \subseteq Readable
    PROVE  /\ HeapPart' /\ SameFlags /\ \A r \in Slots : heap'[r].pending = heap[r].pending
           /\ Occupied(heap)' = Occupied(heap) \cup {top + 1}
           /\ Readable' = Readable \cup {top + 1}
<1>1. HeapPart
  BY Parts
<1>2. /\ HeapPart'
      /\ top + 1 \in Slots /\ heap[top + 1].kind = "vacant" /\ heap'[top + 1] = e
      /\ \A s \in Slots \ {top + 1} : heap'[s] = heap[s]
      /\ Occupied(heap)' = Occupied(heap) \cup {top + 1}
      /\ Readable' = Readable \cup {top + 1}
  BY <1>1, AllocateOne
<1>3. heap[top + 1].pending = {} /\ heap[top + 1].scheduled = FALSE
  BY <1>1, <1>2 DEF HeapPart, HeapShape, Shaped
<1>4. SameFlags
  BY <1>2, <1>3 DEF SameFlags
<1>5. \A r \in Slots : heap'[r].pending = heap[r].pending
  BY <1>2, <1>3
<1> QED
  BY <1>2, <1>4, <1>5

(* New entries and jobs, field by field.                                     *)
LEMMA VacantEntry ==
    Vacant \in Entries
<1>1. None \in Values
  BY SlotsFinite
<1> QED
  BY <1>1 DEF Vacant, Entries, Kinds

LEMMA JobFields ==
    ASSUME NEW k \in {"reaction", "callback", "cleanup"}, NEW s \in Values
    PROVE  /\ Job(k, s) \in Jobs /\ Job(k, s).kind = k /\ Job(k, s).slot = s
           /\ Job(k, s).hasMore = FALSE
<1>1. Job(k, s) \in Jobs
  BY DEF Job, NoJob, Jobs
<1>2. Job(k, s).kind = k /\ Job(k, s).slot = s
  BY DEF Job, NoJob
<1>3. Job(k, s).hasMore = FALSE
  BY DEF Job, NoJob
<1> QED
  BY <1>1, <1>2, <1>3

LEMMA NewSteps ==
    ASSUME IInv,
           \/ Then
           \/ \E p \in Holdable \cup {None} : NewRegistry(p)
           \/ \E t \in Holdable, p \in Holdable \cup {None} : NewWeakRef(t, p)
    PROVE  IInv'
<1>1. HeapPart /\ MachinePart /\ Queues /\ JobShape /\ Keeping
  BY Parts
<1>2. /\ Holdable \subseteq Occupied(heap) /\ Occupied(heap) \subseteq Slots
      /\ Occupied(heap) \subseteq Readable /\ Readable \subseteq Slots /\ Callback \in Readable
  BY OperandsAreThere DEF Readable
<1>3. /\ machineBytes = ValueBytes * Cardinality(keptAlive)
      /\ frame \cup globals \subseteq Readable /\ keptAlive \subseteq Occupied(heap)
  BY <1>1 DEF MachinePart
<1>4. IsFiniteSet({})
  BY FS_EmptySet
<1>8. None \in Values /\ \A s \in Slots : s \in Values
  BY SlotsFinite
<1>9. ASSUME NEW p \in Holdable \cup {None}
      PROVE  {p} \cap Slots \subseteq Readable /\ {p} \cap Slots \in SUBSET Slots
  BY <1>2, SlotsFinite
<1>5. ASSUME NEW p \in Holdable \cup {None}, NewRegistry(p) PROVE IInv'
  <2> DEFINE e == WithPrototype([Vacant EXCEPT !.kind = "registry", !.callback = Callback], p)
  <2>2. /\ Running /\ Allocate(e) /\ nextId' = nextId /\ delivered' = delivered /\ lost' = lost
        /\ frame' = frame \cup {top + 1} /\ globals' = globals /\ keptAlive' = keptAlive
        /\ machineBytes' = machineBytes /\ cleanupQueue' = cleanupQueue
        /\ microtasks' = microtasks /\ pc' = pc /\ job' = job /\ observed' = observed
    BY <1>5 DEF NewRegistry, queueVars, jobVars, history
  <2> HIDE DEF e
  <2>3. /\ e.kind = "registry" /\ e.fields = {p} \cap Slots /\ e.target = None
        /\ e.callback = Callback /\ e.cells = {} /\ e.pending = {} /\ e.scheduled = FALSE
    BY DEF e, WithPrototype, Vacant
  <2>4. e \in Entries
    BY <1>2, <1>8, <1>9, VacantEntry DEF e, WithPrototype, Entries, Kinds
  <2>5. Shaped(e)
    BY <1>4, <2>3 DEF Shaped
  <2>6. OwnedEdges(e) \subseteq Readable
    BY <1>2, <1>9, <2>3 DEF OwnedEdges, RegistryEdges
  <2>7. /\ HeapPart' /\ SameFlags /\ \A r \in Slots : heap'[r].pending = heap[r].pending
        /\ Occupied(heap)' = Occupied(heap) \cup {top + 1}
        /\ Readable' = Readable \cup {top + 1}
    BY <2>2, <2>3, <2>4, <2>5, <2>6, NewStep
  <2> QED
    BY <1>3, <2>2, <2>7, ProgramStep
<1>6. CASE Then
  <2> DEFINE e == [Vacant EXCEPT !.kind = "plain"]
             j == Job("reaction", top + 1)
  <2>2. /\ Running /\ Allocate(e) /\ nextId' = nextId /\ delivered' = delivered /\ lost' = lost
        /\ frame' = frame /\ globals' = globals /\ keptAlive' = keptAlive
        /\ machineBytes' = machineBytes /\ cleanupQueue' = cleanupQueue
        /\ pc' = pc /\ job' = job /\ observed' = observed
        /\ Len(microtasks) + 1 <= MaxMicrotasks /\ microtasks' = Append(microtasks, j)
    BY <1>6 DEF Then, rootVars, jobVars, history
  <2> HIDE DEF e, j
  <2>4. /\ e.kind = "plain" /\ e.fields = {} /\ e.target = None /\ e.callback = None
        /\ e.cells = {} /\ e.pending = {} /\ e.scheduled = FALSE
    BY DEF e, Vacant
  <2>5. e \in Entries
    BY VacantEntry DEF e, Entries, Kinds
  <2>6. Shaped(e)
    BY <1>4, <2>4 DEF Shaped
  <2>7. OwnedEdges(e) \subseteq Readable
    BY <2>4, SlotsFinite DEF OwnedEdges, RegistryEdges
  <2>8. /\ HeapPart' /\ SameFlags /\ \A r \in Slots : heap'[r].pending = heap[r].pending
        /\ Occupied(heap)' = Occupied(heap) \cup {top + 1}
        /\ Readable' = Readable \cup {top + 1}
    BY <2>2, <2>4, <2>5, <2>6, <2>7, NewStep
  <2>9. top + 1 \in Slots
    BY <2>8 DEF Occupied
  <2>10. j \in Jobs /\ j.kind # "cleanup" /\ j.hasMore = FALSE /\ j.slot = top + 1
    BY <1>8, <2>9, JobFields DEF j
  <2>11. NewJob(j) /\ j.slot \in Occupied(heap)' \cup {None}
    BY <2>2, <2>8, <2>10 DEF NewJob
  <2> QED
    BY <1>3, <2>2, <2>8, <2>11, ProgramStep
<1>7. ASSUME NEW t \in Holdable, NEW p \in Holdable \cup {None}, NewWeakRef(t, p) PROVE IInv'
  <2> DEFINE e == WithPrototype([Vacant EXCEPT !.kind = "weakref", !.target = t], p)
  <2>2. /\ Running /\ Allocate(e) /\ nextId' = nextId /\ delivered' = delivered /\ lost' = lost
        /\ frame' = frame \cup {top + 1} /\ globals' = globals
        /\ KeepAlive(t) /\ observed' = observed \cup {t}
        /\ cleanupQueue' = cleanupQueue /\ microtasks' = microtasks
        /\ pc' = pc /\ job' = job
    BY <1>7 DEF NewWeakRef, queueVars, jobVars
  <2> HIDE DEF e
  <2>3. /\ e.kind = "weakref" /\ e.fields = {p} \cap Slots /\ e.target = t
        /\ e.callback = None /\ e.cells = {} /\ e.pending = {} /\ e.scheduled = FALSE
    BY DEF e, WithPrototype, Vacant
  <2>4. e \in Entries
    BY <1>2, <1>8, <1>9, VacantEntry DEF e, WithPrototype, Entries, Kinds
  <2>5. Shaped(e)
    BY <1>4, <2>3 DEF Shaped
  <2>6. OwnedEdges(e) \subseteq Readable
    BY <1>9, <2>3, SlotsFinite DEF OwnedEdges, RegistryEdges
  <2>7. /\ HeapPart' /\ SameFlags /\ \A r \in Slots : heap'[r].pending = heap[r].pending
        /\ Occupied(heap)' = Occupied(heap) \cup {top + 1}
        /\ Readable' = Readable \cup {top + 1}
    BY <1>2, <2>2, <2>3, <2>4, <2>5, <2>6, NewStep
  <2>8. machineBytes' = ValueBytes * Cardinality(keptAlive') /\ keptAlive' = keptAlive \cup {t}
    BY <1>1, <1>2, <2>2, KeepingOne
  <2> QED
    BY <1>2, <1>3, <2>2, <2>7, <2>8, ProgramStep
<1> QED
  BY <1>5, <1>6, <1>7

LEMMA KeepSteps ==
    ASSUME IInv, QueueMicrotask \/ \E w \in Objects("weakref") : Deref(w)
    PROVE  IInv'
<1>1. HeapPart /\ MachinePart /\ Queues /\ JobShape /\ Keeping
  BY Parts
<1>2. Holdable \subseteq Occupied(heap) /\ Occupied(heap) \subseteq Slots
  BY OperandsAreThere
<1>3. /\ machineBytes = ValueBytes * Cardinality(keptAlive)
      /\ frame \cup globals \subseteq Readable /\ keptAlive \subseteq Occupied(heap)
  BY <1>1 DEF MachinePart
<1>4. UNCHANGED <<heap, top, slotBytes, nextId, delivered, lost>> =>
        /\ HeapPart' /\ Occupied(heap)' = Occupied(heap) /\ Readable' = Readable
        /\ SameFlags /\ \A r \in Slots : heap'[r].pending = heap[r].pending
  <2> SUFFICES ASSUME UNCHANGED <<heap, top, slotBytes, nextId, delivered, lost>>
               PROVE  /\ HeapPart' /\ Occupied(heap)' = Occupied(heap) /\ Readable' = Readable
                      /\ SameFlags /\ \A r \in Slots : heap'[r].pending = heap[r].pending
    OBVIOUS
  <2> QED
    BY <1>1, HeapKept DEF SameFlags, Occupied, Readable
<1>7. None \in Values
  BY SlotsFinite
<1>5. CASE QueueMicrotask
  <2> DEFINE j == Job("callback", None)
  <2>1. /\ Running /\ UNCHANGED <<heap, top, slotBytes, nextId, delivered, lost>>
        /\ frame' = frame /\ globals' = globals /\ keptAlive' = keptAlive
        /\ machineBytes' = machineBytes /\ cleanupQueue' = cleanupQueue
        /\ pc' = pc /\ job' = job /\ observed' = observed
        /\ Len(microtasks) + 1 <= MaxMicrotasks /\ microtasks' = Append(microtasks, j)
    BY <1>5 DEF QueueMicrotask, heapVars, rootVars, jobVars, history
  <2> HIDE DEF j
  <2>3. j \in Jobs /\ j.kind # "cleanup" /\ j.hasMore = FALSE /\ j.slot = None
    BY <1>7, JobFields DEF j
  <2>4. NewJob(j) /\ j.slot \in Occupied(heap)' \cup {None}
    BY <2>1, <2>3 DEF NewJob
  <2> QED
    BY <1>3, <1>4, <2>1, <2>4, ProgramStep
<1>6. ASSUME NEW w \in Objects("weakref"), Deref(w) PROVE IInv'
  <2>1. /\ Running /\ UNCHANGED <<heap, top, slotBytes, nextId, delivered, lost>>
        /\ frame' = frame /\ globals' = globals
        /\ heap[w].target # None /\ KeepAlive(heap[w].target)
        /\ observed' = observed \cup {heap[w].target}
        /\ cleanupQueue' = cleanupQueue /\ microtasks' = microtasks /\ pc' = pc /\ job' = job
    BY <1>6 DEF Deref, heapVars, rootVars, queueVars, jobVars
  <2>2. w \in Slots
    BY <1>2 DEF Objects
  <2>3. heap[w].target \in Occupied(heap)
    BY <1>1, <2>1, <2>2 DEF HeapPart, HeapShape
  <2>4. /\ machineBytes' = ValueBytes * Cardinality(keptAlive')
        /\ keptAlive' = keptAlive \cup {heap[w].target}
    BY <1>1, <1>2, <2>1, <2>3, KeepingOne
  <2> QED
    BY <1>3, <1>4, <2>1, <2>3, <2>4, ProgramStep
<1> QED
  BY <1>5, <1>6

-----------------------------------------------------------------------------
(* What holds of one entry that is in the heap.                              *)
LEMMA EntryFacts ==
    ASSUME HeapPart, NEW r \in Occupied(heap)
    PROVE  /\ r \in Slots /\ heap[r] \in Entries /\ Shaped(heap[r]) /\ heap[r].kind # "vacant"
           /\ slotBytes[r] = Charge(heap[r]) /\ Charge(heap[r]) \in Nat
           /\ OwnedEdges(heap[r]) \subseteq Readable
           /\ \A c \in heap[r].cells : c.target \in Occupied(heap) /\ c.id \notin delivered
           /\ \A c \in heap[r].pending : /\ c.target \notin Occupied(heap) /\ c.target <= top
                                         /\ c.id \notin delivered
           /\ \A c, d \in Registered(heap[r]) : c.id = d.id => c = d
           /\ \A c \in Registered(heap[r]) : c \in Cells /\ c.id \in Nat /\ c.id < nextId
<1>1. r \in Slots /\ heap[r].kind # "vacant"
  BY DEF Occupied
<1>2. heap[r] \in Entries /\ Shaped(heap[r])
  BY <1>1 DEF HeapPart, HeapShape
<1>3. slotBytes[r] = Charge(heap[r]) /\ slotBytes[r] \in Nat
  BY <1>1 DEF HeapPart
<1>4. heap[r].kind # "registry" => heap[r].cells = {} /\ heap[r].pending = {}
  BY <1>2 DEF Shaped
<1>5. /\ \A c \in heap[r].cells : c.target \in Occupied(heap) /\ c.id \notin delivered
      /\ \A c \in heap[r].pending : c.target \notin Occupied(heap) /\ c.id \notin delivered
  BY <1>1, <1>4 DEF HeapPart, HoldingsAreDue
<1>6. \A c, d \in Registered(heap[r]) : c.id = d.id => c = d
  BY <1>1 DEF HeapPart, Numbering
<1>7. \A c \in Registered(heap[r]) : c \in Cells
  BY <1>2, EntryFields DEF Registered
<1>8. \A c \in Registered(heap[r]) : c.id \in Nat
  BY <1>7 DEF Cells
<1>9. \A c \in Registered(heap[r]) : c.id < nextId
  BY <1>1 DEF HeapPart, Numbering
<1>10. \A c \in heap[r].pending : c.target <= top
  BY <1>1 DEF HeapPart, HeapShape
<1>11. OwnedEdges(heap[r]) \subseteq Readable
  BY DEF HeapPart, Edges
<1> QED
  BY <1>1, <1>2, <1>3, <1>5, <1>6, <1>7, <1>8, <1>9, <1>10, <1>11

(* A program changes an entry in place: its cells or its properties.         *)
LEMMA InPlaceStep ==
    ASSUME IInv, Running, NEW r \in Occupied(heap), NEW e \in Entries,
           heap' = [heap EXCEPT ![r] = e], HeapPart', Occupied(heap)' = Occupied(heap),
           e.kind = heap[r].kind, e.pending = heap[r].pending,
           e.scheduled = heap[r].scheduled,
           UNCHANGED <<rootVars, keptAlive, machineBytes, queueVars, jobVars, observed, lost>>
    PROVE  IInv'
<1>1. HeapPart /\ MachinePart
  BY Parts
<1>2. r \in Slots /\ heap \in [Slots -> Entries]
  BY <1>1 DEF Occupied, HeapPart
<1>3. heap'[r] = e /\ \A s \in Slots \ {r} : heap'[s] = heap[s]
  BY <1>2
<1>4. SameFlags /\ \A s \in Slots : heap'[s].pending = heap[s].pending
  BY <1>3 DEF SameFlags
<1>5. /\ globals' = globals /\ frame' = frame /\ keptAlive' = keptAlive
      /\ machineBytes' = machineBytes /\ cleanupQueue' = cleanupQueue
      /\ microtasks' = microtasks /\ pc' = pc /\ job' = job /\ observed' = observed
  BY DEF rootVars, queueVars, jobVars
<1>6. /\ frame \cup globals \subseteq Readable /\ keptAlive \subseteq Occupied(heap)
      /\ machineBytes = ValueBytes * Cardinality(keptAlive)
  BY <1>1 DEF MachinePart
<1>7. Readable' = Readable
  BY DEF Readable
<1> QED
  BY <1>4, <1>5, <1>6, <1>7, ProgramStep

LEMMA SetFieldStep ==
    ASSUME IInv, NEW o \in Holdable, NEW v \in Operands, SetField(o, v)
    PROVE  IInv'
<1>1. HeapPart
  BY Parts
<1>2. o \in Occupied(heap) /\ v \in Readable /\ v \in Slots
  BY OperandsAreThere
<1>3. /\ o \in Slots /\ heap[o] \in Entries /\ Shaped(heap[o]) /\ heap[o].kind # "vacant"
      /\ slotBytes[o] = Charge(heap[o]) /\ Charge(heap[o]) \in Nat
      /\ OwnedEdges(heap[o]) \subseteq Readable
      /\ \A c \in heap[o].cells : c.target \in Occupied(heap) /\ c.id \notin delivered
      /\ \A c \in heap[o].pending : /\ c.target \notin Occupied(heap) /\ c.target <= top
                                    /\ c.id \notin delivered
      /\ \A c, d \in Registered(heap[o]) : c.id = d.id => c = d
  BY <1>1, <1>2, EntryFacts
<1> DEFINE e == [heap[o] EXCEPT !.fields = {v}]
<1>4. heap \in [Slots -> Entries] /\ slotBytes \in [Slots -> Nat]
  BY <1>1 DEF HeapPart
<1>5. /\ Running /\ heap' = [heap EXCEPT ![o] = e]
      /\ top' = top /\ slotBytes' = slotBytes /\ nextId' = nextId /\ delivered' = delivered /\ lost' = lost
      /\ UNCHANGED <<rootVars, keptAlive, machineBytes, queueVars, jobVars, observed, lost>>
  BY DEF SetField, history
<1>6. e \in Entries
  BY <1>2, <1>3 DEF Entries
<1>7. /\ e.kind = heap[o].kind /\ e.fields = {v} /\ e.target = heap[o].target
      /\ e.callback = heap[o].callback /\ e.cells = heap[o].cells
      /\ e.pending = heap[o].pending /\ e.scheduled = heap[o].scheduled
  BY <1>3 DEF Entries
<1> HIDE DEF e
<1>8. Registered(e) = Registered(heap[o])
  BY <1>7 DEF Registered
<1>9. Charge(e) = Charge(heap[o])
  BY <1>7 DEF Charge
<1>10. slotBytes' = [slotBytes EXCEPT ![o] = Charge(e)]
  BY <1>3, <1>4, <1>5, <1>9
<1>11. Shaped(e)
  BY <1>3, <1>7 DEF Shaped
<1>12. OwnedEdges(e) \subseteq Readable
  BY <1>2, <1>3, <1>7 DEF OwnedEdges, RegistryEdges
<1>13. /\ \A c \in Registered(e) : c.id \notin delivered'
       /\ \A c \in e.cells : c.target \in Occupied(heap)
       /\ \A c \in e.pending : c.target \notin Occupied(heap) /\ c.target <= top
       /\ \A c, d \in Registered(e) : c.id = d.id => c = d
  BY <1>3, <1>5, <1>7, <1>8 DEF Registered
<1>14. HeapPart' /\ Occupied(heap)' = Occupied(heap)
  BY <1>1, <1>2, <1>3, <1>5, <1>6, <1>7, <1>8, <1>9, <1>10, <1>11, <1>12, <1>13, UpdateOne
<1> QED
  BY <1>2, <1>5, <1>6, <1>7, <1>14, InPlaceStep

LEMMA RegisterStep ==
    ASSUME IInv, NEW r \in Objects("registry"), NEW t \in Holdable,
           NEW h \in Operands \cup {None}, NEW k \in {t, None}, Register(r, t, h, k)
    PROVE  IInv'
<1>1. HeapPart
  BY Parts
<1>2. /\ r \in Occupied(heap) /\ heap[r].kind = "registry" /\ Occupied(heap) \subseteq Slots
      /\ Occupied(heap) \subseteq Readable /\ Readable \subseteq Slots
      /\ t \in Occupied(heap) /\ h \in Readable \cup {None}
      /\ k \in Occupied(heap) \cup {None}
  BY OperandsAreThere DEF Objects, Readable
<1>3. /\ r \in Slots /\ heap[r] \in Entries /\ Shaped(heap[r])
      /\ slotBytes[r] = Charge(heap[r]) /\ Charge(heap[r]) \in Nat
      /\ OwnedEdges(heap[r]) \subseteq Readable
      /\ \A c \in heap[r].cells : c.target \in Occupied(heap) /\ c.id \notin delivered
      /\ \A c \in heap[r].pending : /\ c.target \notin Occupied(heap) /\ c.target <= top
                                    /\ c.id \notin delivered
      /\ \A c, d \in Registered(heap[r]) : c.id = d.id => c = d
      /\ \A c \in Registered(heap[r]) : c \in Cells /\ c.id \in Nat /\ c.id < nextId
  BY <1>1, <1>2, EntryFacts
<1> DEFINE n == [id |-> nextId, target |-> t, held |-> h, token |-> k]
           e == [heap[r] EXCEPT !.cells = @ \cup {n}]
<1>4. heap \in [Slots -> Entries] /\ slotBytes \in [Slots -> Nat] /\ nextId \in Nat
      /\ \A i \in delivered : i \in Nat /\ i < nextId
  BY <1>1 DEF HeapPart, Numbering
<1>5. /\ Running /\ heap' = [heap EXCEPT ![r] = e] /\ top' = top
      /\ slotBytes' = [slotBytes EXCEPT ![r] = @ + CellBytes]
      /\ nextId' = nextId + 1 /\ delivered' = delivered /\ lost' = lost
      /\ UNCHANGED <<rootVars, keptAlive, machineBytes, queueVars, jobVars, observed, lost>>
  BY DEF Register
<1>6. n \in Cells
  <2>1. t \in Slots /\ h \in Values /\ k \in Values
    BY <1>2, SlotsFinite
  <2> QED
    BY <1>4, <2>1 DEF Cells
<1>7. n.id = nextId /\ n.target = t /\ n.held = h /\ n.token = k
  OBVIOUS
<1> HIDE DEF n
<1>8. e \in Entries
  BY <1>3, <1>6 DEF Entries
<1>9. /\ e.kind = heap[r].kind /\ e.fields = heap[r].fields /\ e.target = heap[r].target
      /\ e.callback = heap[r].callback /\ e.cells = heap[r].cells \cup {n}
      /\ e.pending = heap[r].pending /\ e.scheduled = heap[r].scheduled
  BY <1>3 DEF Entries
<1> HIDE DEF e
<1>10. n \notin Registered(heap[r])
  <2>1. ASSUME n \in Registered(heap[r]) PROVE FALSE
    <3>1. n.id < nextId
      BY <1>3, <2>1
    <3> QED
      BY <1>4, <1>7, <3>1
  <2> QED
    BY <2>1
<1>11. IsFiniteSet(heap[r].cells) /\ IsFiniteSet(heap[r].pending)
  BY <1>3 DEF Shaped
<1>12. IsFiniteSet(e.cells) /\ Cardinality(e.cells) = Cardinality(heap[r].cells) + 1
  <2>1. n \notin heap[r].cells
    BY <1>10 DEF Registered
  <2>2. /\ IsFiniteSet(heap[r].cells \cup {n})
        /\ Cardinality(heap[r].cells \cup {n}) = Cardinality(heap[r].cells) + 1
    BY <1>11, <2>1, FS_AddElement
  <2> QED
    BY <1>9, <2>2
<1>13. Charge(e) = slotBytes[r] + CellBytes /\ Charge(e) \in Nat
  <2>1. Cardinality(heap[r].cells) \in Nat /\ Cardinality(heap[r].pending) \in Nat
    BY <1>11, FS_CardinalityType
  <2>2. Charge(heap[r]) = EntryBytes + CellBytes * Cardinality(heap[r].cells)
                                     + ValueBytes * Cardinality(heap[r].pending)
    BY <1>2 DEF Charge
  <2>3. Charge(e) = EntryBytes + CellBytes * (Cardinality(heap[r].cells) + 1)
                               + ValueBytes * Cardinality(heap[r].pending)
    BY <1>2, <1>9, <1>12 DEF Charge
  <2> QED
    BY <1>3, <2>1, <2>2, <2>3 DEF EntryBytes, CellBytes, ValueBytes
<1>14. slotBytes' = [slotBytes EXCEPT ![r] = Charge(e)]
  BY <1>3, <1>4, <1>5, <1>13
<1>15. Shaped(e)
  BY <1>2, <1>3, <1>9, <1>12 DEF Shaped
<1>16. OwnedEdges(e) \subseteq Readable
  <2>1. OwnedEdges(e) \subseteq OwnedEdges(heap[r]) \cup ({h, k} \cap Slots)
    BY <1>7, <1>9 DEF OwnedEdges, RegistryEdges
  <2> QED
    BY <1>2, <1>3, <2>1, SlotsFinite
<1>17. Registered(e) = Registered(heap[r]) \cup {n}
  BY <1>9 DEF Registered
<1>18. \A c \in Registered(heap[r]) : c.id # nextId
  BY <1>3, <1>4
<1>19. \A c, d \in Registered(e) : c.id = d.id => c = d
  BY <1>3, <1>7, <1>17, <1>18
<1>20. \A c \in Registered(e) : c.id \notin delivered'
  <2>1. nextId \notin delivered
    BY <1>4
  <2> QED
    BY <1>3, <1>5, <1>7, <1>17, <2>1 DEF Registered
<1>21. \A c \in Registered(e) :
          c \in Registered(heap[r]) \/ (c.id = nextId /\ nextId' = nextId + 1)
  BY <1>5, <1>7, <1>17
<1>22. /\ \A c \in e.cells : c.target \in Occupied(heap)
       /\ \A c \in e.pending : c.target \notin Occupied(heap) /\ c.target <= top
  BY <1>2, <1>3, <1>7, <1>9
<1>23. HeapPart' /\ Occupied(heap)' = Occupied(heap)
  BY <1>1, <1>2, <1>5, <1>8, <1>9, <1>13, <1>14, <1>15, <1>16, <1>19, <1>20, <1>21, <1>22,
     UpdateOne
<1> QED
  BY <1>2, <1>5, <1>8, <1>9, <1>23, InPlaceStep

(* Cells or holdings of a registry go, or its flag changes.                  *)
LEMMA ShrinkOne ==
    ASSUME HeapPart, NEW r \in Occupied(heap), NEW e \in Entries, heap[r].kind = "registry",
           heap' = [heap EXCEPT ![r] = e], top' = top, nextId' = nextId, lost' = lost,
           slotBytes' = [slotBytes EXCEPT ![r] = Charge(e)],
           e.kind = heap[r].kind, e.fields = heap[r].fields, e.target = heap[r].target,
           e.callback = heap[r].callback, e.cells \subseteq heap[r].cells,
           e.pending \subseteq heap[r].pending,
           \A n \in delivered' : \/ n \in delivered
                                 \/ \E c \in Registered(heap[r]) \ Registered(e) : c.id = n
    PROVE  HeapPart' /\ Occupied(heap)' = Occupied(heap) /\ Readable' = Readable
<1>1. /\ r \in Slots /\ heap[r] \in Entries /\ Shaped(heap[r])
      /\ OwnedEdges(heap[r]) \subseteq Readable
      /\ \A c \in heap[r].cells : c.target \in Occupied(heap) /\ c.id \notin delivered
      /\ \A c \in heap[r].pending : /\ c.target \notin Occupied(heap) /\ c.target <= top
                                    /\ c.id \notin delivered
      /\ \A c, d \in Registered(heap[r]) : c.id = d.id => c = d
  BY EntryFacts
<1>2. IsFiniteSet(e.cells) /\ IsFiniteSet(e.pending)
  BY <1>1, FS_Subset DEF Shaped
<1>3. Charge(e) \in Nat
  <2>1. Cardinality(e.cells) \in Nat /\ Cardinality(e.pending) \in Nat
    BY <1>2, FS_CardinalityType
  <2> QED
    BY <2>1 DEF Charge, EntryBytes, CellBytes, ValueBytes
<1>4. Shaped(e)
  BY <1>1, <1>2 DEF Shaped
<1>5. OwnedEdges(e) \subseteq Readable
  <2>1. OwnedEdges(e) \subseteq OwnedEdges(heap[r])
    BY DEF OwnedEdges, RegistryEdges
  <2> QED
    BY <1>1, <2>1
<1>6. Registered(e) \subseteq Registered(heap[r])
  BY DEF Registered
<1>7. \A c \in Registered(e) : c.id \notin delivered
  BY <1>1 DEF Registered
<1>8. \A c \in Registered(e) : c.id \notin delivered'
  BY <1>1, <1>6, <1>7
<1>9. \A n \in delivered' : n \in delivered \/ \E c \in Registered(heap[r]) : c.id = n
  OBVIOUS
<1>10. /\ \A c, d \in Registered(e) : c.id = d.id => c = d
       /\ \A c \in Registered(e) : c \in Registered(heap[r])
       /\ \A c \in e.cells : c.target \in Occupied(heap)
       /\ \A c \in e.pending : c.target \notin Occupied(heap) /\ c.target <= top
  BY <1>1, <1>6
<1> QED
  BY <1>3, <1>4, <1>5, <1>8, <1>9, <1>10, UpdateOne

LEMMA UnregisterStep ==
    ASSUME IInv, NEW r \in Objects("registry"), NEW k \in Holdable, Unregister(r, k)
    PROVE  IInv'
<1>1. HeapPart
  BY Parts
<1>2. r \in Occupied(heap) /\ heap[r].kind = "registry"
  BY OperandsAreThere DEF Objects
<1>3. /\ r \in Slots /\ heap[r] \in Entries /\ Shaped(heap[r])
      /\ slotBytes[r] = Charge(heap[r])
  BY <1>1, <1>2, EntryFacts
<1> DEFINE X == {c \in heap[r].cells : c.token = k}
           e == [heap[r] EXCEPT !.cells = @ \ X]
<1>4. heap \in [Slots -> Entries] /\ slotBytes \in [Slots -> Nat]
  BY <1>1 DEF HeapPart
<1>5. /\ Running /\ heap' = [heap EXCEPT ![r] = e] /\ top' = top
      /\ slotBytes' = [slotBytes EXCEPT ![r] = @ - Cardinality(X) * CellBytes]
      /\ nextId' = nextId /\ delivered' = delivered /\ lost' = lost
      /\ UNCHANGED <<rootVars, keptAlive, machineBytes, queueVars, jobVars, observed, lost>>
  BY DEF Unregister, history
<1>6. X \subseteq heap[r].cells
  OBVIOUS
<1> HIDE DEF X
<1>7. e \in Entries
  BY <1>3 DEF Entries
<1>8. /\ e.kind = heap[r].kind /\ e.fields = heap[r].fields /\ e.target = heap[r].target
      /\ e.callback = heap[r].callback /\ e.cells = heap[r].cells \ X
      /\ e.pending = heap[r].pending /\ e.scheduled = heap[r].scheduled
  BY <1>3 DEF Entries
<1> HIDE DEF e
<1>9. IsFiniteSet(heap[r].cells) /\ IsFiniteSet(heap[r].pending)
  BY <1>3 DEF Shaped
<1>10. Cardinality(e.cells) = Cardinality(heap[r].cells) - Cardinality(X)
  <2>1. heap[r].cells \cap X = X
    BY <1>6
  <2>2. Cardinality(heap[r].cells \ X)
          = Cardinality(heap[r].cells) - Cardinality(heap[r].cells \cap X)
    BY <1>9, FS_Difference
  <2> QED
    BY <1>8, <2>1, <2>2, Zenon
<1>11. Charge(e) = slotBytes[r] - Cardinality(X) * CellBytes
  <2>1. /\ Cardinality(heap[r].cells) \in Nat /\ Cardinality(heap[r].pending) \in Nat
        /\ Cardinality(X) \in Nat
    BY <1>6, <1>9, FS_CardinalityType, FS_Subset
  <2>2. Charge(heap[r]) = EntryBytes + CellBytes * Cardinality(heap[r].cells)
                                     + ValueBytes * Cardinality(heap[r].pending)
    BY <1>2 DEF Charge
  <2>3. Charge(e) = EntryBytes + CellBytes * (Cardinality(heap[r].cells) - Cardinality(X))
                               + ValueBytes * Cardinality(heap[r].pending)
    BY <1>2, <1>8, <1>10 DEF Charge
  <2> QED
    BY <1>3, <2>1, <2>2, <2>3 DEF EntryBytes, CellBytes, ValueBytes
<1>12. slotBytes' = [slotBytes EXCEPT ![r] = Charge(e)]
  BY <1>3, <1>4, <1>5, <1>11
<1>13. HeapPart' /\ Occupied(heap)' = Occupied(heap)
  BY <1>1, <1>2, <1>5, <1>7, <1>8, <1>12, ShrinkOne
<1> QED
  BY <1>2, <1>5, <1>7, <1>8, <1>13, InPlaceStep

-----------------------------------------------------------------------------
(* The checkpoint.  A job taken from the queue is the only one of its        *)
(* registry, whose flag is reset.                                            *)
LEMMA PopQueue ==
    ASSUME IInv, pc = "pop", microtasks' = Tail(microtasks)
    PROVE  /\ microtasks # <<>> /\ Head(microtasks) \in Jobs /\ job = NoJob
           /\ Head(microtasks).hasMore = FALSE
           /\ microtasks' \in Seq(Jobs) /\ Len(microtasks') <= MaxMicrotasks
           /\ \A j \in Elements(microtasks') : j.slot \in Occupied(heap) \cup {None}
           /\ Head(microtasks).kind = "cleanup" =>
                 /\ Head(microtasks).slot \in Occupied(heap)
                 /\ heap[Head(microtasks).slot].kind = "registry"
           /\ \A i \in DOMAIN microtasks' :
                 /\ microtasks'[i].hasMore = FALSE
                 /\ microtasks'[i].kind = "cleanup" =>
                       /\ microtasks'[i].slot \in Slots
                       /\ ~IsCleanupOf(Head(microtasks), microtasks'[i].slot)
           /\ \A i, j \in DOMAIN microtasks' :
                 (microtasks'[i].kind = "cleanup" /\ microtasks'[j].kind = "cleanup"
                     /\ microtasks'[i].slot = microtasks'[j].slot) => i = j
           /\ \A r \in Slots : (\E i \in DOMAIN microtasks : IsCleanupOf(microtasks[i], r))
                 <=> \/ IsCleanupOf(Head(microtasks), r)
                     \/ \E i \in DOMAIN microtasks' : IsCleanupOf(microtasks'[i], r)
<1>1. HeapPart /\ MachinePart /\ Queues /\ JobShape
  BY Parts
<1>2. microtasks # <<>> /\ job = NoJob
  BY <1>1 DEF JobShape
<1>3. microtasks \in Seq(Jobs) /\ Len(microtasks) <= MaxMicrotasks /\ MaxMicrotasks \in Nat
      /\ \A j \in Elements(microtasks) : j.slot \in Occupied(heap) \cup {None}
  BY <1>1, WeakJobsAssumption DEF MachinePart
<1> DEFINE p == microtasks
           q == Tail(p)
<1>4. /\ q \in Seq(Jobs) /\ Len(q) = Len(p) - 1 /\ Len(p) \in Nat
      /\ Head(p) \in Jobs /\ 1 \in DOMAIN p /\ Head(p) = p[1]
      /\ \A i \in DOMAIN q : i \in Nat /\ i + 1 \in DOMAIN p /\ i + 1 # 1 /\ q[i] = p[i + 1]
      /\ \A i \in DOMAIN p : i = 1 \/ (i - 1 \in DOMAIN q /\ q[i - 1] = p[i])
  BY <1>2, <1>3, TailElements
<1>5. microtasks' = q
  OBVIOUS
<1> HIDE DEF q
<1>6. Len(q) <= MaxMicrotasks
  BY <1>3, <1>4
<1>7. \A j \in Elements(q) : j.slot \in Occupied(heap) \cup {None}
  BY <1>3, <1>4 DEF Elements
<1>8. /\ \A i, j \in DOMAIN p :
            (p[i].kind = "cleanup" /\ p[j].kind = "cleanup" /\ p[i].slot = p[j].slot) => i = j
      /\ \A i \in DOMAIN p : p[i].hasMore = FALSE /\ (p[i].kind = "cleanup" => p[i].slot \in Slots)
      /\ \A r \in Slots : Queued(r) => heap[r].kind = "registry"
  BY <1>1 DEF Queues
<1>9. p[1].kind = "cleanup" => p[1].slot \in Occupied(heap) /\ heap[p[1].slot].kind = "registry"
  BY <1>4, <1>8 DEF Queued, IsCleanupOf, Occupied
<1>10. \A i \in DOMAIN q :
          /\ q[i].hasMore = FALSE
          /\ q[i].kind = "cleanup" => q[i].slot \in Slots /\ ~IsCleanupOf(p[1], q[i].slot)
  BY <1>4, <1>8 DEF IsCleanupOf
<1>11. ASSUME NEW i \in DOMAIN q, NEW j \in DOMAIN q, q[i].kind = "cleanup",
              q[j].kind = "cleanup", q[i].slot = q[j].slot
       PROVE  i = j
  <2>1. i + 1 = j + 1 /\ i \in Nat /\ j \in Nat
    BY <1>4, <1>8, <1>11
  <2> QED
    BY <2>1
<1>12. \A r \in Slots : (\E i \in DOMAIN p : IsCleanupOf(p[i], r))
          <=> IsCleanupOf(p[1], r) \/ \E i \in DOMAIN q : IsCleanupOf(q[i], r)
  BY <1>4
<1>13. Head(p) = p[1] /\ Head(p) \in Jobs /\ p[1].hasMore = FALSE /\ q \in Seq(Jobs)
  BY <1>4, <1>8
<1>14. \A i, j \in DOMAIN q :
          (q[i].kind = "cleanup" /\ q[j].kind = "cleanup" /\ q[i].slot = q[j].slot) => i = j
  BY <1>11
<1> QED
  BY <1>2, <1>5, <1>6, <1>7, <1>9, <1>10, <1>12, <1>13, <1>14, Zenon

LEMMA PopCallbackStep ==
    ASSUME IInv, PopCallback
    PROVE  IInv'
<1>1. HeapPart /\ MachinePart /\ Queues /\ JobShape /\ Keeping
  BY Parts
<1>2. /\ pc = "pop" /\ Head(microtasks).kind # "cleanup" /\ job' = Head(microtasks)
      /\ microtasks' = Tail(microtasks) /\ pc' = "callback" /\ observed' = {}
      /\ UNCHANGED <<heap, top, slotBytes, nextId, delivered, lost>>
      /\ globals' = globals /\ frame' = frame /\ keptAlive' = keptAlive
      /\ machineBytes' = machineBytes /\ cleanupQueue' = cleanupQueue
  BY DEF PopCallback, heapVars, rootVars
<1> DEFINE H == Head(microtasks)
<1>3. /\ H \in Jobs /\ job = NoJob
      /\ microtasks' \in Seq(Jobs) /\ Len(microtasks') <= MaxMicrotasks
      /\ \A j \in Elements(microtasks') : j.slot \in Occupied(heap) \cup {None}
      /\ \A i \in DOMAIN microtasks' :
            /\ microtasks'[i].hasMore = FALSE
            /\ microtasks'[i].kind = "cleanup" => microtasks'[i].slot \in Slots
      /\ \A i, j \in DOMAIN microtasks' :
            (microtasks'[i].kind = "cleanup" /\ microtasks'[j].kind = "cleanup"
                /\ microtasks'[i].slot = microtasks'[j].slot) => i = j
      /\ \A r \in Slots : (\E i \in DOMAIN microtasks : IsCleanupOf(microtasks[i], r))
            <=> IsCleanupOf(H, r) \/ \E i \in DOMAIN microtasks' : IsCleanupOf(microtasks'[i], r)
  BY <1>2, PopQueue
<1> HIDE DEF H
<1>4. \A r : ~IsCleanupOf(H, r)
  BY <1>2 DEF IsCleanupOf, H
<1>5. HeapPart' /\ Occupied(heap)' = Occupied(heap) /\ Readable' = Readable
  BY <1>1, <1>2, HeapKept DEF Occupied, Readable
<1>6. MachinePart'
  <2>1. job' \in Jobs
    BY <1>2, <1>3 DEF H
  <2> QED
    BY <1>1, <1>2, <1>3, <1>5, <2>1 DEF MachinePart
<1>7. \A r \in Slots : Queued(r)' <=> Queued(r)
  BY <1>2, <1>3, <1>4 DEF Queued
<1>8. Queues'
  <2>1. \A i \in DOMAIN cleanupQueue, j \in DOMAIN microtasks' :
            ~IsCleanupOf(microtasks'[j], cleanupQueue[i])
    <3> SUFFICES ASSUME NEW i \in DOMAIN cleanupQueue, NEW j \in DOMAIN microtasks',
                        IsCleanupOf(microtasks'[j], cleanupQueue[i])
                 PROVE  FALSE
      OBVIOUS
    <3>1. cleanupQueue[i] \in Slots
      BY <1>3 DEF IsCleanupOf
    <3> QED
      BY <1>1, <1>3, <3>1 DEF Queues
  <2> QED
    BY <1>1, <1>2, <1>3, <1>7, <2>1 DEF Queues
<1>9. JobShape'
  <2>1. \A r \in Slots : heap[r].pending # {} => heap[r].scheduled
    BY <1>3, NothingLeft DEF NoJob
  <2>2. job'.kind # "cleanup"
    BY <1>2
  <2> QED
    BY <1>2, <2>1, <2>2 DEF JobShape
<1>10. Keeping'
  BY <1>1, <1>2 DEF Keeping
<1> QED
  BY <1>5, <1>6, <1>8, <1>9, <1>10, Parts

LEMMA PopCleanupStep ==
    ASSUME IInv, PopCleanup
    PROVE  IInv'
<1>1. HeapPart /\ MachinePart /\ Queues /\ JobShape /\ Keeping
  BY Parts
<1> DEFINE H == Head(microtasks)
<1>0. PICK r : r = H.slot
  OBVIOUS
<1> DEFINE e == [heap[r] EXCEPT !.scheduled = FALSE]
<1>2. /\ pc = "pop" /\ H.kind = "cleanup" /\ job' = H
      /\ microtasks' = Tail(microtasks) /\ pc' = "cleanup" /\ observed' = {}
      /\ heap' = [heap EXCEPT ![r] = e]
      /\ UNCHANGED <<top, slotBytes, nextId, delivered, lost>>
      /\ globals' = globals /\ frame' = frame /\ keptAlive' = keptAlive
      /\ machineBytes' = machineBytes /\ cleanupQueue' = cleanupQueue
  BY <1>0 DEF PopCleanup, rootVars
<1>3. /\ H \in Jobs /\ job = NoJob /\ r \in Occupied(heap) /\ heap[r].kind = "registry"
      /\ microtasks' \in Seq(Jobs) /\ Len(microtasks') <= MaxMicrotasks
      /\ \A j \in Elements(microtasks') : j.slot \in Occupied(heap) \cup {None}
      /\ \A i \in DOMAIN microtasks' :
            /\ microtasks'[i].hasMore = FALSE
            /\ microtasks'[i].kind = "cleanup" =>
                  microtasks'[i].slot \in Slots /\ ~IsCleanupOf(H, microtasks'[i].slot)
      /\ \A i, j \in DOMAIN microtasks' :
            (microtasks'[i].kind = "cleanup" /\ microtasks'[j].kind = "cleanup"
                /\ microtasks'[i].slot = microtasks'[j].slot) => i = j
      /\ \A s \in Slots : (\E i \in DOMAIN microtasks : IsCleanupOf(microtasks[i], s))
            <=> IsCleanupOf(H, s) \/ \E i \in DOMAIN microtasks' : IsCleanupOf(microtasks'[i], s)
  BY <1>0, <1>2, PopQueue
<1>4. \A s : IsCleanupOf(H, s) <=> s = r
  BY <1>0, <1>2 DEF IsCleanupOf
<1> HIDE DEF H
<1>5. /\ r \in Slots /\ heap[r] \in Entries /\ slotBytes[r] = Charge(heap[r])
      /\ heap \in [Slots -> Entries] /\ slotBytes \in [Slots -> Nat]
  BY <1>1, <1>3, EntryFacts DEF HeapPart
<1>6. e \in Entries
  BY <1>5 DEF Entries
<1>7. /\ e.kind = heap[r].kind /\ e.fields = heap[r].fields /\ e.target = heap[r].target
      /\ e.callback = heap[r].callback /\ e.cells = heap[r].cells
      /\ e.pending = heap[r].pending
  BY <1>5 DEF Entries
<1>8. e.scheduled = FALSE
  BY <1>5 DEF Entries
<1> HIDE DEF e
<1>9. slotBytes' = [slotBytes EXCEPT ![r] = Charge(e)]
  <2>1. Charge(e) = Charge(heap[r])
    BY <1>7 DEF Charge
  <2> QED
    BY <1>2, <1>5, <2>1
<1>10. HeapPart' /\ Occupied(heap)' = Occupied(heap) /\ Readable' = Readable
  BY <1>1, <1>2, <1>3, <1>6, <1>7, <1>9, ShrinkOne
<1>11. heap'[r] = e /\ \A s \in Slots \ {r} : heap'[s] = heap[s]
  BY <1>2, <1>5
<1>12. MachinePart'
  <2>1. job' \in Jobs
    BY <1>2, <1>3
  <2> QED
    BY <1>1, <1>2, <1>3, <1>10, <2>1 DEF MachinePart
<1>13. (\E i \in DOMAIN microtasks : IsCleanupOf(microtasks[i], r)) /\ Queued(r)
  BY <1>3, <1>4, <1>5 DEF Queued
<1>14. \A i \in DOMAIN cleanupQueue : cleanupQueue[i] # r
  BY <1>1, <1>13 DEF Queues
<1>15. \A i \in DOMAIN microtasks' : ~IsCleanupOf(microtasks'[i], r)
  BY <1>3, <1>4 DEF IsCleanupOf
<1>16. ~Queued(r)' /\ \A s \in Slots \ {r} : Queued(s)' <=> Queued(s)
  BY <1>2, <1>3, <1>4, <1>14, <1>15 DEF Queued
<1>17. Queues'
  <2>1. \A i \in DOMAIN cleanupQueue, j \in DOMAIN microtasks' :
            ~IsCleanupOf(microtasks'[j], cleanupQueue[i])
    <3> SUFFICES ASSUME NEW i \in DOMAIN cleanupQueue, NEW j \in DOMAIN microtasks',
                        IsCleanupOf(microtasks'[j], cleanupQueue[i])
                 PROVE  FALSE
      OBVIOUS
    <3>1. cleanupQueue[i] \in Slots
      BY <1>3 DEF IsCleanupOf
    <3> QED
      BY <1>1, <1>3, <3>1 DEF Queues
  <2>2. \A s \in Slots : Queued(s)' => heap'[s].kind = "registry"
    BY <1>1, <1>11, <1>16 DEF Queues
  <2>3. \A s \in Slots : heap'[s].kind = "registry" => (heap'[s].scheduled <=> Queued(s)')
    <3> SUFFICES ASSUME NEW s \in Slots, heap'[s].kind = "registry"
                 PROVE  heap'[s].scheduled <=> Queued(s)'
      OBVIOUS
    <3>1. CASE s = r
      BY <1>8, <1>11, <1>16, <3>1
    <3>2. CASE s # r
      BY <1>1, <1>11, <1>16, <3>2 DEF Queues
    <3> QED
      BY <3>1, <3>2
  <2> QED
    BY <1>1, <1>2, <1>3, <2>1, <2>2, <2>3 DEF Queues
<1>18. JobShape'
  <2>1. \A s \in Slots : heap[s].pending # {} => heap[s].scheduled
    BY <1>3, NothingLeft DEF NoJob
  <2>2. \A s \in Slots : heap'[s].pending # {} => heap'[s].scheduled \/ IsCleanupOf(job', s)
    BY <1>2, <1>4, <1>11, <2>1
  <2>3. job'.kind = "cleanup" /\ job'.slot \in Slots
    BY <1>0, <1>2, <1>5
  <2> QED
    BY <1>2, <2>2, <2>3 DEF JobShape
<1>19. Keeping'
  BY <1>1, <1>2 DEF Keeping
<1> QED
  BY <1>10, <1>12, <1>17, <1>18, <1>19, Parts

(* A turn of the loop of a cleanup job takes one holding.                    *)
LEMMA CleanupNextStep ==
    ASSUME IInv, CleanupNext
    PROVE  IInv'
<1>1. HeapPart /\ MachinePart /\ Queues /\ JobShape /\ Keeping
  BY Parts
<1>2. PICK r : r = job.slot
  OBVIOUS
<1>3. /\ pc = "cleanup" /\ heap[r].kind = "registry" /\ pc' = "callback"
      /\ UNCHANGED <<top, globals, keptAlive, machineBytes, queueVars, nextId, observed,
                     lost>>
  BY <1>2 DEF CleanupNext
<1>4. PICK c \in heap[r].pending :
          /\ heap' = [heap EXCEPT ![r].pending = @ \ {c}]
          /\ slotBytes' = [slotBytes EXCEPT ![r] = @ - ValueBytes]
          /\ frame' = {c.held} \cap Slots
          /\ delivered' = delivered \cup {c.id}
          /\ job' = [job EXCEPT !.hasMore = (heap[r].pending # {c})]
  BY <1>2 DEF CleanupNext
<1>5. job.kind = "cleanup" /\ r \in Slots /\ r \in Occupied(heap)
  BY <1>1, <1>2, <1>3 DEF JobShape, Occupied
<1> DEFINE e == [heap[r] EXCEPT !.pending = @ \ {c}]
<1>6. /\ heap[r] \in Entries /\ Shaped(heap[r]) /\ slotBytes[r] = Charge(heap[r])
      /\ OwnedEdges(heap[r]) \subseteq Readable
      /\ heap \in [Slots -> Entries] /\ slotBytes \in [Slots -> Nat]
  BY <1>1, <1>5, EntryFacts DEF HeapPart
<1>7. heap' = [heap EXCEPT ![r] = e]
  BY <1>4
<1>8. e \in Entries
  BY <1>6 DEF Entries
<1>9. /\ e.kind = heap[r].kind /\ e.fields = heap[r].fields /\ e.target = heap[r].target
      /\ e.callback = heap[r].callback /\ e.cells = heap[r].cells
      /\ e.pending = heap[r].pending \ {c} /\ e.scheduled = heap[r].scheduled
  BY <1>6 DEF Entries
<1> HIDE DEF e
<1>10. IsFiniteSet(heap[r].cells) /\ IsFiniteSet(heap[r].pending)
  BY <1>6 DEF Shaped
<1>11. Cardinality(e.pending) = Cardinality(heap[r].pending) - 1
  BY <1>4, <1>9, <1>10, FS_RemoveElement
<1>12. Charge(e) = slotBytes[r] - ValueBytes
  <2>1. Cardinality(heap[r].cells) \in Nat /\ Cardinality(heap[r].pending) \in Nat
    BY <1>10, FS_CardinalityType
  <2>2. Charge(heap[r]) = EntryBytes + CellBytes * Cardinality(heap[r].cells)
                                     + ValueBytes * Cardinality(heap[r].pending)
    BY <1>3 DEF Charge
  <2>3. Charge(e) = EntryBytes + CellBytes * Cardinality(heap[r].cells)
                               + ValueBytes * (Cardinality(heap[r].pending) - 1)
    BY <1>3, <1>9, <1>11 DEF Charge
  <2> QED
    BY <1>6, <2>1, <2>2, <2>3 DEF EntryBytes, CellBytes, ValueBytes
<1>13. slotBytes' = [slotBytes EXCEPT ![r] = Charge(e)]
  BY <1>4, <1>5, <1>6, <1>12
<1>14. c \in Registered(heap[r]) /\ c \notin Registered(e)
  <2>1. c \notin heap[r].cells
    BY <1>1, <1>4, <1>5, EntryFacts
  <2> QED
    BY <1>4, <1>9, <2>1 DEF Registered
<1>15. HeapPart' /\ Occupied(heap)' = Occupied(heap) /\ Readable' = Readable
  <2>1. top' = top /\ nextId' = nextId
    BY <1>3
  <2>2. \A n \in delivered' : \/ n \in delivered
                              \/ \E d \in Registered(heap[r]) \ Registered(e) : d.id = n
    BY <1>4, <1>14
  <2>3. e.cells \subseteq heap[r].cells /\ e.pending \subseteq heap[r].pending
    BY <1>9
  <2> QED
    BY <1>1, <1>3, <1>5, <1>7, <1>8, <1>9, <1>13, <2>1, <2>2, <2>3, ShrinkOne
<1>16. heap'[r] = e /\ \A s \in Slots \ {r} : heap'[s] = heap[s]
  BY <1>5, <1>6, <1>7
<1>17. frame' \subseteq Readable /\ frame' \subseteq Slots
  BY <1>4, <1>6 DEF OwnedEdges, RegistryEdges
<1>18. job \in Jobs /\ job' \in Jobs /\ job'.kind = "cleanup" /\ job'.slot = r
  <2>1. job \in Jobs
    BY <1>1, <1>5 DEF MachinePart, NoJob
  <2> QED
    BY <1>2, <1>4, <1>5, <2>1 DEF Jobs
<1>19. ~job'.hasMore => heap[r].pending = {c}
  BY <1>4, <1>18 DEF Jobs
<1>20. MachinePart'
  BY <1>1, <1>3, <1>15, <1>17, <1>18 DEF MachinePart, queueVars
<1>21. Queues'
  <2>1. SameFlags
    BY <1>9, <1>16 DEF SameFlags
  <2> QED
    BY <1>1, <1>3, <2>1, FlagsKept DEF queueVars
<1>22. JobShape'
  <2>1. \A s \in Slots : heap'[s].pending # {} => heap'[s].scheduled \/ IsCleanupOf(job', s)
    <3> SUFFICES ASSUME NEW s \in Slots, heap'[s].pending # {}
                 PROVE  heap'[s].scheduled \/ IsCleanupOf(job', s)
      OBVIOUS
    <3>1. CASE s = r
      BY <1>18, <3>1 DEF IsCleanupOf
    <3>2. CASE s # r
      BY <1>1, <1>2, <1>16, <3>2 DEF JobShape, IsCleanupOf
    <3> QED
      BY <3>1, <3>2
  <2>2. ~job'.hasMore => heap'[r].pending = {}
    BY <1>9, <1>16, <1>19
  <2> QED
    BY <1>3, <1>5, <1>18, <2>1, <2>2 DEF JobShape
<1>23. Keeping'
  BY <1>1, <1>3 DEF Keeping
<1> QED
  BY <1>15, <1>20, <1>21, <1>22, <1>23, Parts

(* A callback that throws leaves its registry queued when holdings are left. *)
LEMMA CleanupThrowsStep ==
    ASSUME IInv, CleanupThrows
    PROVE  IInv'
<1>1. HeapPart /\ MachinePart /\ Queues /\ JobShape /\ Keeping
  BY Parts
<1>2. PICK r : r = job.slot
  OBVIOUS
<1>3. /\ pc = "callback" /\ job.kind = "cleanup" /\ EndJob("idle")
      /\ UNCHANGED <<top, slotBytes, globals, microtasks, history>>
      /\ IF job.hasMore THEN QueueCandidate(r) ELSE UNCHANGED <<heap, cleanupQueue>>
  BY <1>2 DEF CleanupThrows
<1>4. r \in Slots
  BY <1>1, <1>2, <1>3 DEF JobShape
<1>5. CASE UNCHANGED <<heap, cleanupQueue>> /\ ~(job.hasMore /\ heap[r].kind = "registry" /\ ~heap[r].scheduled)
  <2>1. heap[r].pending = {} \/ heap[r].scheduled
    <3>1. CASE ~job.hasMore
      BY <1>1, <1>2, <1>3, <3>1 DEF JobShape
    <3>2. CASE job.hasMore
      <4>1. heap[r].kind # "registry" => heap[r].pending = {}
        BY <1>1, <1>4 DEF HeapPart, HeapShape, Shaped
      <4> QED
        BY <1>5, <3>2, <4>1
    <3> QED
      BY <3>1, <3>2
  <2>2. \A s \in Slots : heap[s].pending # {} => heap[s].scheduled
    BY <1>1, <1>2, <2>1 DEF JobShape, IsCleanupOf
  <2> QED
    BY <1>3, <1>5, <2>2, EndJobStep DEF heapVars, queueVars
<1>6. CASE /\ heap[r].kind = "registry" /\ ~heap[r].scheduled
           /\ heap' = [heap EXCEPT ![r].scheduled = TRUE]
           /\ cleanupQueue' = Append(cleanupQueue, r)
  <2> DEFINE e == [heap[r] EXCEPT !.scheduled = TRUE]
  <2>1. r \in Occupied(heap)
    BY <1>4, <1>6 DEF Occupied
  <2>2. /\ heap[r] \in Entries /\ slotBytes[r] = Charge(heap[r])
        /\ heap \in [Slots -> Entries] /\ slotBytes \in [Slots -> Nat]
    BY <1>1, <2>1, EntryFacts DEF HeapPart
  <2>3. heap' = [heap EXCEPT ![r] = e]
    BY <1>6
  <2>4. e \in Entries
    BY <2>2 DEF Entries
  <2>5. /\ e.kind = heap[r].kind /\ e.fields = heap[r].fields /\ e.target = heap[r].target
        /\ e.callback = heap[r].callback /\ e.cells = heap[r].cells
        /\ e.pending = heap[r].pending
    BY <2>2 DEF Entries
  <2>6. e.scheduled
    BY <2>2 DEF Entries
  <2> HIDE DEF e
  <2>7. slotBytes' = [slotBytes EXCEPT ![r] = Charge(e)]
    <3>1. Charge(e) = Charge(heap[r])
      BY <2>5 DEF Charge
    <3> QED
      BY <1>3, <1>4, <2>2, <3>1
  <2>8. HeapPart' /\ Occupied(heap)' = Occupied(heap) /\ Readable' = Readable
    BY <1>1, <1>3, <1>6, <2>1, <2>3, <2>4, <2>5, <2>7, ShrinkOne DEF history
  <2>9. heap'[r] = e /\ \A s \in Slots \ {r} : heap'[s] = heap[s]
    BY <1>4, <2>2, <2>3
  <2>10. /\ pc' = "idle" /\ job' = NoJob /\ frame' = {} /\ keptAlive' = {}
         /\ machineBytes' = machineBytes - Cardinality(keptAlive) * ValueBytes
         /\ globals' = globals /\ microtasks' = microtasks
    BY <1>3 DEF EndJob, ClearKeptAlive
  <2>11. machineBytes' = ValueBytes * Cardinality(keptAlive') /\ machineBytes' \in Nat
    <3>1. Cardinality(keptAlive) \in Nat
      BY <1>1, SlotsFinite DEF MachinePart
    <3>2. Cardinality(keptAlive') = 0
      BY <2>10, FS_EmptySet
    <3>3. machineBytes = ValueBytes * Cardinality(keptAlive)
      BY <1>1 DEF MachinePart
    <3> QED
      BY <2>10, <3>1, <3>2, <3>3 DEF ValueBytes
  <2>12. ~Queued(r)
    BY <1>1, <1>4, <1>6 DEF Queues
  <2>13. Once(cleanupQueue) /\ cleanupQueue \in Seq(Slots) /\ r \notin Elements(cleanupQueue)
    BY <1>1, <2>12 DEF Queues, Once, MachinePart, Queued, Elements
  <2>14. /\ cleanupQueue' \in Seq(Slots) /\ Once(cleanupQueue')
         /\ Elements(cleanupQueue') = Elements(cleanupQueue) \cup {r}
    BY <1>4, <1>6, <2>13, AppendOnce
  <2>15. MachinePart'
    BY <1>1, <2>1, <2>8, <2>10, <2>11, <2>14 DEF MachinePart
  <2>16. \A s \in Slots : Queued(s)' <=> Queued(s) \/ s = r
    BY <1>4, <2>10, <2>14 DEF Queued, Elements
  <2>17. Queues'
    <3>1. \A i \in DOMAIN cleanupQueue', j \in DOMAIN microtasks :
             ~IsCleanupOf(microtasks[j], cleanupQueue'[i])
      <4> SUFFICES ASSUME NEW i \in DOMAIN cleanupQueue', NEW j \in DOMAIN microtasks,
                          IsCleanupOf(microtasks[j], cleanupQueue'[i])
                   PROVE  FALSE
        OBVIOUS
      <4>1. cleanupQueue'[i] \in Elements(cleanupQueue) \/ cleanupQueue'[i] = r
        BY <2>14 DEF Elements
      <4>2. cleanupQueue'[i] # r
        BY <2>12 DEF Queued
      <4> QED
        BY <1>1, <4>1, <4>2 DEF Queues, Elements
    <3>2. \A s \in Slots : Queued(s)' => heap'[s].kind = "registry"
      BY <1>1, <1>6, <2>5, <2>9, <2>16 DEF Queues
    <3>3. \A s \in Slots : heap'[s].kind = "registry" => (heap'[s].scheduled <=> Queued(s)')
      <4> SUFFICES ASSUME NEW s \in Slots, heap'[s].kind = "registry"
                   PROVE  heap'[s].scheduled <=> Queued(s)'
        OBVIOUS
      <4>1. CASE s = r
        BY <2>6, <2>9, <2>16, <4>1
      <4>2. CASE s # r
        BY <1>1, <2>9, <2>16, <4>2 DEF Queues
      <4> QED
        BY <4>1, <4>2
    <3>4. /\ \A i, j \in DOMAIN microtasks :
                (microtasks[i].kind = "cleanup" /\ microtasks[j].kind = "cleanup"
                    /\ microtasks[i].slot = microtasks[j].slot) => i = j
          /\ \A i \in DOMAIN microtasks :
                /\ microtasks[i].hasMore = FALSE
                /\ microtasks[i].kind = "cleanup" => microtasks[i].slot \in Slots
      BY <1>1 DEF Queues
    <3> QED
      BY <2>10, <2>14, <3>1, <3>2, <3>3, <3>4 DEF Queues, Once
  <2>18. JobShape'
    <3>1. \A s \in Slots : heap'[s].pending # {} => heap'[s].scheduled
      <4> SUFFICES ASSUME NEW s \in Slots, heap'[s].pending # {} PROVE heap'[s].scheduled
        OBVIOUS
      <4>1. CASE s = r
        BY <2>6, <2>9, <4>1
      <4>2. CASE s # r
        BY <1>1, <1>2, <2>9, <4>2 DEF JobShape, IsCleanupOf
      <4> QED
        BY <4>1, <4>2
    <3>2. job'.kind = "none"
      BY <2>10 DEF NoJob
    <3> QED
      BY <2>10, <3>1, <3>2 DEF JobShape
  <2>19. Keeping'
    BY <1>1, <2>10 DEF Keeping
  <2> QED
    BY <2>8, <2>15, <2>17, <2>18, <2>19, Parts
<1> QED
  BY <1>3, <1>5, <1>6 DEF QueueCandidate

(* schedule_finalization_cleanup_jobs moves all candidates, or none.         *)
LEMMA ScheduleStep ==
    ASSUME IInv, Schedule
    PROVE  IInv'
<1>1. HeapPart /\ MachinePart /\ Queues /\ JobShape /\ Keeping
  BY Parts
<1>2. /\ pc = "head" /\ UNCHANGED <<heap, top, slotBytes, nextId, delivered, lost>>
      /\ globals' = globals /\ frame' = frame /\ keptAlive' = keptAlive
      /\ machineBytes' = machineBytes /\ job' = job /\ observed' = observed
  BY DEF Schedule, heapVars, rootVars, history
<1>3. /\ job = NoJob /\ \A r \in Slots : heap[r].pending # {} => heap[r].scheduled
  <2>1. job = NoJob
    BY <1>1, <1>2 DEF JobShape
  <2> QED
    BY <2>1, NothingLeft DEF NoJob
<1>4. /\ microtasks \in Seq(Jobs) /\ cleanupQueue \in Seq(Slots) /\ MaxMicrotasks \in Nat
      /\ frame \cup globals \subseteq Readable /\ keptAlive \subseteq Occupied(heap)
      /\ Elements(cleanupQueue) \subseteq Occupied(heap)
      /\ \A j \in Elements(microtasks) : j.slot \in Occupied(heap) \cup {None}
      /\ machineBytes = ValueBytes * Cardinality(keptAlive)
  BY <1>1, WeakJobsAssumption DEF MachinePart
<1> DEFINE m == Len(microtasks)
           n == Len(cleanupQueue)
           J == [i \in DOMAIN cleanupQueue |-> Job("cleanup", cleanupQueue[i])]
<1>5. m \in Nat /\ n \in Nat /\ DOMAIN microtasks = 1..m /\ DOMAIN cleanupQueue = 1..n
  BY <1>4, LenProperties
<1>6. CASE m + n > MaxMicrotasks
  <2>1. pc' = "idle" /\ UNCHANGED queueVars
    BY <1>6 DEF Schedule
  <2>2. Callback \in globals
    BY <1>1 DEF Keeping
  <2> QED
    BY <1>2, <1>3, <1>4, <2>1, <2>2, QuietStep DEF heapVars
<1>7. CASE ~(m + n > MaxMicrotasks)
  <2>1. /\ microtasks' = microtasks \o J /\ cleanupQueue' = <<>>
        /\ pc' = (IF microtasks' = <<>> THEN "idle" ELSE "pop")
    BY <1>7 DEF Schedule
  <2>2. \A i \in 1..n : /\ cleanupQueue[i] \in Slots /\ J[i] \in Jobs
                        /\ J[i].kind = "cleanup" /\ J[i].slot = cleanupQueue[i]
                        /\ J[i].hasMore = FALSE
    <3> SUFFICES ASSUME NEW i \in 1..n
                 PROVE  /\ cleanupQueue[i] \in Slots /\ J[i] \in Jobs
                        /\ J[i].kind = "cleanup" /\ J[i].slot = cleanupQueue[i]
                        /\ J[i].hasMore = FALSE
      OBVIOUS
    <3>1. cleanupQueue[i] \in Slots /\ cleanupQueue[i] \in Values
      BY <1>4, ElementOfSeq, SlotsFinite
    <3>2. J[i] = Job("cleanup", cleanupQueue[i])
      BY <1>5
    <3>3. "cleanup" \in {"reaction", "callback", "cleanup"}
      OBVIOUS
    <3> DEFINE c == Job("cleanup", cleanupQueue[i])
    <3>4. c \in Jobs /\ c.kind = "cleanup" /\ c.slot = cleanupQueue[i] /\ c.hasMore = FALSE
      BY <3>1, <3>3, JobFields
    <3>5. J[i] = c
      BY <3>2
    <3> HIDE DEF c, J
    <3> QED
      BY <3>1, <3>4, <3>5
  <2>3. J \in Seq(Jobs) /\ Len(J) = n
    <3>1. J \in [1..n -> Jobs]
      BY <1>5, <2>2
    <3>2. J \in Seq(Jobs)
      BY <1>5, <3>1, SeqDef
    <3>3. DOMAIN J = 1..n /\ DOMAIN J = 1..Len(J) /\ Len(J) \in Nat
      BY <3>1, <3>2, LenProperties
    <3> QED
      BY <1>5, <3>2, <3>3
  <2>4. /\ microtasks' \in Seq(Jobs) /\ Len(microtasks') = m + n
        /\ \A i \in 1..m + n : microtasks'[i] = IF i <= m THEN microtasks[i] ELSE J[i - m]
    <3> HIDE DEF J
    <3>0. microtasks \in Seq(Jobs) /\ J \in Seq(Jobs)
      BY <1>4, <2>3
    <3>1. /\ microtasks \o J \in Seq(Jobs) /\ Len(microtasks \o J) = Len(microtasks) + Len(J)
          /\ \A i \in 1..Len(microtasks) + Len(J) : (microtasks \o J)[i] =
                IF i <= Len(microtasks) THEN microtasks[i] ELSE J[i - Len(microtasks)]
      BY <3>0, ConcatProperties, Zenon
    <3> QED
      BY <2>1, <2>3, <3>1
  <2>5. DOMAIN microtasks' = 1..m + n
    BY <2>4, LenProperties
  <2> HIDE DEF m, n, J
  <2>6. Len(microtasks') <= MaxMicrotasks
    BY <1>4, <1>5, <1>7, <2>4
  <2>7. ASSUME NEW i \in DOMAIN microtasks'
        PROVE  /\ i \in Nat
               /\ i <= m => i \in DOMAIN microtasks /\ microtasks'[i] = microtasks[i]
               /\ ~(i <= m) => /\ i - m \in DOMAIN cleanupQueue
                               /\ microtasks'[i].kind = "cleanup"
                               /\ microtasks'[i].slot = cleanupQueue[i - m]
                               /\ microtasks'[i].slot \in Slots
                               /\ microtasks'[i].hasMore = FALSE
    <3>1. i \in Nat /\ i \in 1..m + n
      BY <1>5, <2>5
    <3>2. CASE i <= m
      BY <1>5, <2>4, <3>1, <3>2
    <3>3. CASE ~(i <= m)
      <4>1. i - m \in 1..n /\ microtasks'[i] = J[i - m]
        BY <1>5, <2>4, <3>1, <3>3
      <4> QED
        BY <1>5, <2>2, <3>1, <3>3, <4>1
    <3> QED
      BY <3>1, <3>2, <3>3
  <2>8. \A i \in DOMAIN microtasks : i \in DOMAIN microtasks' /\ microtasks'[i] = microtasks[i]
    BY <1>5, <2>4, <2>5
  <2>9. ASSUME NEW i \in DOMAIN cleanupQueue
        PROVE  m + i \in DOMAIN microtasks' /\ IsCleanupOf(microtasks'[m + i], cleanupQueue[i])
    <3>1. m + i \in DOMAIN microtasks' /\ ~(m + i <= m) /\ (m + i) - m = i
      BY <1>5, <2>5
    <3>2. microtasks'[m + i].kind = "cleanup" /\ microtasks'[m + i].slot = cleanupQueue[(m + i) - m]
      BY <2>7, <3>1
    <3> QED
      BY <3>1, <3>2 DEF IsCleanupOf
  <2>10. HeapPart' /\ Occupied(heap)' = Occupied(heap) /\ Readable' = Readable
    BY <1>1, <1>2, HeapKept DEF Occupied, Readable
  <2>11. \A j \in Elements(microtasks') : j.slot \in Occupied(heap) \cup {None}
    <3> SUFFICES ASSUME NEW i \in DOMAIN microtasks'
                 PROVE  microtasks'[i].slot \in Occupied(heap) \cup {None}
      BY DEF Elements
    <3>1. CASE i <= m
      <4>1. microtasks'[i] \in Elements(microtasks)
        BY <2>7, <3>1 DEF Elements
      <4> QED
        BY <1>4, <4>1
    <3>2. CASE ~(i <= m)
      <4>1. microtasks'[i].slot \in Elements(cleanupQueue)
        BY <2>7, <3>2 DEF Elements
      <4> QED
        BY <1>4, <4>1
    <3> QED
      BY <3>1, <3>2
  <2>12. cleanupQueue' \in Seq(Slots) /\ Elements(cleanupQueue') = {} /\ DOMAIN cleanupQueue' = {}
    BY <2>1 DEF Elements
  <2>13. MachinePart'
    <3>1. pc' \in {"idle", "pop"}
      BY <2>1
    <3> QED
      BY <1>1, <1>2, <2>4, <2>6, <2>10, <2>11, <2>12, <3>1 DEF MachinePart
  <2>14. \A r \in Slots : Queued(r)' <=> Queued(r)
    <3> SUFFICES ASSUME NEW r \in Slots PROVE Queued(r)' <=> Queued(r)
      OBVIOUS
    <3>1. Queued(r)' => Queued(r)
      BY <2>7, <2>12 DEF Queued, IsCleanupOf
    <3>2. Queued(r) => Queued(r)'
      BY <2>8, <2>9 DEF Queued
    <3> QED
      BY <3>1, <3>2
  <2>15. ASSUME NEW i \in DOMAIN microtasks', NEW j \in DOMAIN microtasks',
                microtasks'[i].kind = "cleanup", microtasks'[j].kind = "cleanup",
                microtasks'[i].slot = microtasks'[j].slot
         PROVE  i = j
    <3>1. i \in Nat /\ j \in Nat
      BY <2>7
    <3>6. ASSUME NEW l \in DOMAIN microtasks'
          PROVE  \/ l <= m /\ l \in DOMAIN microtasks /\ microtasks'[l] = microtasks[l]
                 \/ /\ ~(l <= m) /\ l - m \in DOMAIN cleanupQueue
                    /\ microtasks'[l].slot = cleanupQueue[l - m]
      BY <2>7
    <3>7. /\ \A a, b \in DOMAIN cleanupQueue : cleanupQueue[a] = cleanupQueue[b] => a = b
          /\ \A a, b \in DOMAIN microtasks :
                (microtasks[a].kind = "cleanup" /\ microtasks[b].kind = "cleanup"
                    /\ microtasks[a].slot = microtasks[b].slot) => a = b
          /\ \A a \in DOMAIN cleanupQueue, b \in DOMAIN microtasks :
                ~(microtasks[b].kind = "cleanup" /\ microtasks[b].slot = cleanupQueue[a])
      BY <1>1 DEF Queues, IsCleanupOf
    <3>2. CASE i <= m /\ j <= m
      <4>1. i \in DOMAIN microtasks /\ microtasks'[i] = microtasks[i]
        BY <3>2, <3>6
      <4>2. j \in DOMAIN microtasks /\ microtasks'[j] = microtasks[j]
        BY <3>2, <3>6
      <4> QED
        BY <2>15, <3>7, <4>1, <4>2
    <3>3. CASE ~(i <= m) /\ ~(j <= m)
      <4>1. i - m \in DOMAIN cleanupQueue /\ microtasks'[i].slot = cleanupQueue[i - m]
        BY <3>3, <3>6
      <4>2. j - m \in DOMAIN cleanupQueue /\ microtasks'[j].slot = cleanupQueue[j - m]
        BY <3>3, <3>6
      <4>3. i - m = j - m
        BY <2>15, <3>7, <4>1, <4>2
      <4> QED
        BY <1>5, <3>1, <4>3
    <3>4. CASE i <= m /\ ~(j <= m)
      <4>1. i \in DOMAIN microtasks /\ microtasks'[i] = microtasks[i]
        BY <3>4, <3>6
      <4>2. j - m \in DOMAIN cleanupQueue /\ microtasks'[j].slot = cleanupQueue[j - m]
        BY <3>4, <3>6
      <4> QED
        BY <2>15, <3>7, <4>1, <4>2
    <3>5. CASE ~(i <= m) /\ j <= m
      <4>1. i - m \in DOMAIN cleanupQueue /\ microtasks'[i].slot = cleanupQueue[i - m]
        BY <3>5, <3>6
      <4>2. j \in DOMAIN microtasks /\ microtasks'[j] = microtasks[j]
        BY <3>5, <3>6
      <4> QED
        BY <2>15, <3>7, <4>1, <4>2
    <3> QED
      BY <3>2, <3>3, <3>4, <3>5
  <2>16. \A i \in DOMAIN microtasks' :
            /\ microtasks'[i].hasMore = FALSE
            /\ microtasks'[i].kind = "cleanup" => microtasks'[i].slot \in Slots
    <3> SUFFICES ASSUME NEW i \in DOMAIN microtasks'
                 PROVE  /\ microtasks'[i].hasMore = FALSE
                        /\ microtasks'[i].kind = "cleanup" => microtasks'[i].slot \in Slots
      OBVIOUS
    <3>1. CASE i <= m
      <4>1. i \in DOMAIN microtasks /\ microtasks'[i] = microtasks[i]
        BY <2>7, <3>1
      <4> QED
        BY <1>1, <4>1 DEF Queues
    <3>2. CASE ~(i <= m)
      BY <2>7, <3>2
    <3> QED
      BY <3>1, <3>2
  <2>17. Queues'
    BY <1>1, <1>2, <2>12, <2>14, <2>15, <2>16 DEF Queues
  <2>18. JobShape'
    <3>1. NoJob.kind = "none"
      BY DEF NoJob
    <3> QED
      BY <1>2, <1>3, <2>1, <3>1 DEF JobShape
  <2>19. Keeping'
    BY <1>1, <1>2, <2>1 DEF Keeping
  <2> QED
    BY <2>10, <2>13, <2>17, <2>18, <2>19, Parts
<1> QED
  BY <1>6, <1>7

-----------------------------------------------------------------------------
(* The invariant holds at first.                                             *)
THEOREM WeakInit == Init => IInv
<1> SUFFICES ASSUME Init PROVE IInv
  OBVIOUS
<1>1. Given \in Nat /\ Given \in Slots /\ 1 \in Slots /\ 1 <= Given
  BY WeakJobsAssumption, MaxSlotsAssumption DEF Slots
<1> DEFINE e == [Vacant EXCEPT !.kind = "plain"]
<1>2. e \in Entries /\ Vacant \in Entries
  BY VacantEntry DEF Entries, Kinds
<1>3. /\ e.kind = "plain" /\ e.fields = {} /\ e.target = None /\ e.callback = None
      /\ e.cells = {} /\ e.pending = {} /\ e.scheduled = FALSE
  BY DEF Vacant
<1>4. /\ Vacant.kind = "vacant" /\ Vacant.fields = {} /\ Vacant.target = None
      /\ Vacant.callback = None /\ Vacant.cells = {} /\ Vacant.pending = {}
      /\ Vacant.scheduled = FALSE
  BY DEF Vacant
<1>5. /\ heap = [s \in Slots |-> IF s <= Given THEN e ELSE Vacant]
      /\ slotBytes = [s \in Slots |-> IF s <= Given THEN EntryBytes ELSE 0]
      /\ top = Given /\ globals = 1..Given /\ frame = {} /\ keptAlive = {}
      /\ microtasks = <<>> /\ cleanupQueue = <<>> /\ pc = "idle" /\ job = NoJob
      /\ machineBytes = 0 /\ nextId = 1 /\ delivered = {} /\ observed = {} /\ lost = {}
  BY DEF Init
<1> HIDE DEF e
<1>6. \A s \in Slots : heap[s] \in {e, Vacant} /\ (s > Given => heap[s] = Vacant)
  BY <1>1, <1>5, SlotsFinite
<1>7. \A s \in Slots : /\ heap[s].target = None /\ heap[s].cells = {} /\ heap[s].pending = {}
                       /\ heap[s].scheduled = FALSE /\ heap[s].kind # "registry"
  BY <1>3, <1>4, <1>6
<1>8. Shaped(e) /\ Shaped(Vacant)
  BY <1>3, <1>4, FS_EmptySet DEF Shaped
<1>9. heap \in [Slots -> Entries] /\ slotBytes \in [Slots -> Nat] /\ top \in Slots
  BY <1>1, <1>2, <1>5 DEF EntryBytes
<1>10. Charge(e) = EntryBytes /\ Charge(Vacant) = 0
  <2>1. Cardinality({}) = 0
    BY FS_EmptySet
  <2> QED
    BY <1>3, <1>4, <2>1 DEF Charge, EntryBytes, CellBytes, ValueBytes
<1>11. \A s \in Slots : slotBytes[s] = Charge(heap[s])
  BY <1>5, <1>10
<1>12. HeapShape
  BY <1>5, <1>6, <1>7, <1>8, <1>4 DEF HeapShape
<1>13. Edges
  <2>1. OwnedEdges(e) = {} /\ OwnedEdges(Vacant) = {}
    BY <1>3, <1>4, SlotsFinite DEF OwnedEdges, RegistryEdges
  <2> QED
    BY <1>6, <2>1 DEF Edges, Occupied, Readable
<1>14. Numbering /\ HoldingsAreDue
  BY <1>5, <1>7 DEF Numbering, HoldingsAreDue, Registered
<1>15. HeapPart
  BY <1>5, <1>9, <1>11, <1>12, <1>13, <1>14 DEF HeapPart
<1>16. globals \subseteq Occupied(heap) /\ globals \subseteq Slots /\ Callback \in globals
  BY <1>1, <1>3, <1>5, MaxSlotsAssumption DEF Occupied, Slots, Callback
<1>17. DOMAIN microtasks = {} /\ DOMAIN cleanupQueue = {} /\ Len(microtasks) = 0
       /\ microtasks \in Seq(Jobs) /\ cleanupQueue \in Seq(Slots)
  BY <1>5
<1>18. MachinePart
  <2>1. machineBytes = ValueBytes * Cardinality(keptAlive) /\ machineBytes \in Nat
    BY <1>5, FS_EmptySet DEF ValueBytes
  <2>2. Len(microtasks) <= MaxMicrotasks
    BY <1>17, WeakJobsAssumption
  <2> QED
    BY <1>5, <1>16, <1>17, <2>1, <2>2 DEF MachinePart, Elements, Readable
<1>19. Queues
  BY <1>7, <1>17 DEF Queues, Queued
<1>20. JobShape
  BY <1>5, <1>7 DEF JobShape, NoJob
<1>21. Keeping
  BY <1>5, <1>16 DEF Keeping
<1> QED
  BY <1>15, <1>18, <1>19, <1>20, <1>21, Parts

(* Every step of the program, the collector and the checkpoint keeps it.     *)
THEOREM WeakStep == IInv /\ [Next]_vars => IInv'
<1> SUFFICES ASSUME IInv, [Next]_vars PROVE IInv'
  OBVIOUS
<1>1. CASE Program
  BY <1>1, NewSteps, KeepSteps, RootSteps, SetFieldStep, RegisterStep, UnregisterStep DEF Program
<1>2. CASE Machine
  BY <1>2, CollectStep, RootSteps, EndSteps, ScheduleStep, PopCallbackStep, PopCleanupStep,
     CleanupNextStep, CleanupThrowsStep DEF Machine
<1>3. CASE UNCHANGED vars
  <2>1. UNCHANGED <<heap, top, slotBytes, globals, frame, keptAlive, machineBytes, microtasks,
                    cleanupQueue, pc, job, nextId, delivered, observed, lost>>
    BY <1>3 DEF vars, heapVars, rootVars, queueVars, jobVars, history
  <2>2. HeapPart /\ MachinePart /\ Queues /\ JobShape /\ Keeping
    BY Parts
  <2>3. HeapPart'
    BY <2>1, <2>2, HeapKept
  <2>4. MachinePart'
    BY <2>1, <2>2 DEF MachinePart, Occupied, Readable, Elements
  <2>5. Queues' /\ JobShape' /\ Keeping'
    BY <2>1, <2>2 DEF Queues, Queued, JobShape, Keeping
  <2> QED
    BY <2>3, <2>4, <2>5, Parts
<1> QED
  BY <1>1, <1>2, <1>3 DEF Next

(* The invariant holds in every reachable state of the machine.              *)
THEOREM WeakInvariant == Spec => []IInv
BY WeakInit, WeakStep, PTL DEF Spec

-----------------------------------------------------------------------------
(* Two jobs with the same fields are one.                                    *)
LEMMA CleanupJob ==
    ASSUME NEW j \in Jobs, j.hasMore = FALSE, NEW r \in Slots
    PROVE  j = Job("cleanup", r) <=> IsCleanupOf(j, r)
<1> DEFINE c == Job("cleanup", r)
<1>1. r \in Values
  BY SlotsFinite
<1>2. c \in Jobs /\ c.kind = "cleanup" /\ c.slot = r /\ c.hasMore = FALSE
  BY <1>1, JobFields
<1> HIDE DEF c
<1>3. j.kind = c.kind /\ j.slot = c.slot /\ j.hasMore = c.hasMore => j = c
  BY <1>2 DEF Jobs
<1>4. IsCleanupOf(j, r) => j = c
  BY <1>2, <1>3 DEF IsCleanupOf
<1>5. j = c => IsCleanupOf(j, r)
  BY <1>2 DEF IsCleanupOf
<1> QED
  BY <1>4, <1>5 DEF c

(* In each of the two queues a registry stands at most once, and in one of   *)
(* them only.                                                                *)
LEMMA OccurrencesCounted ==
    ASSUME IInv, NEW r \in Slots
    PROVE  Occurrences(r) = IF Queued(r) THEN 1 ELSE 0
<1>1. MachinePart /\ Queues
  BY Parts
<1> DEFINE A == {i \in DOMAIN cleanupQueue : cleanupQueue[i] = r}
           B == {i \in DOMAIN microtasks : microtasks[i] = Job("cleanup", r)}
<1>2. microtasks \in Seq(Jobs) /\ DOMAIN microtasks = 1..Len(microtasks)
  BY <1>1, LenProperties DEF MachinePart
<1>3. \A i \in DOMAIN microtasks :
          microtasks[i] = Job("cleanup", r) <=> IsCleanupOf(microtasks[i], r)
  <2> SUFFICES ASSUME NEW i \in DOMAIN microtasks
               PROVE  microtasks[i] = Job("cleanup", r) <=> IsCleanupOf(microtasks[i], r)
    OBVIOUS
  <2>1. microtasks[i] \in Jobs
    BY <1>2, ElementOfSeq
  <2>2. microtasks[i].hasMore = FALSE
    BY <1>1 DEF Queues
  <2> QED
    BY <2>1, <2>2, CleanupJob
<1>4. B = {i \in DOMAIN microtasks : IsCleanupOf(microtasks[i], r)}
  BY <1>3
<1>5. Occurrences(r) = Cardinality(A) + Cardinality(B)
  BY DEF Occurrences
<1>6. \A i, j \in A : i = j
  BY <1>1 DEF Queues
<1> HIDE DEF B
<1>7. \A i, j \in B : i = j
  BY <1>1, <1>4 DEF Queues, IsCleanupOf
<1>8. A = {} \/ B = {}
  BY <1>1, <1>4 DEF Queues
<1>9. Queued(r) <=> A # {} \/ B # {}
  BY <1>4 DEF Queued
<1> HIDE DEF A
<1>10. (A # {} => \E x : A = {x}) /\ (B # {} => \E x : B = {x})
  BY <1>6, <1>7
<1>11. Cardinality({}) = 0 /\ \A x : Cardinality({x}) = 1
  BY FS_EmptySet, FS_Singleton
<1>12. CASE A = {} /\ B = {}
  BY <1>5, <1>9, <1>11, <1>12
<1>13. CASE A # {}
  <2>1. Cardinality(A) = 1 /\ Cardinality(B) = 0
    BY <1>8, <1>10, <1>11, <1>13
  <2> QED
    BY <1>5, <1>9, <1>13, <2>1
<1>14. CASE B # {}
  <2>1. Cardinality(A) = 0 /\ Cardinality(B) = 1
    BY <1>8, <1>10, <1>11, <1>14
  <2> QED
    BY <1>5, <1>9, <1>14, <2>1
<1> QED
  BY <1>12, <1>13, <1>14

(* The heap, the machine and its queues have their types; the microtask      *)
(* queue never exceeds Limits::max_microtasks, whoever fills it, and the     *)
(* byte counters never go below zero.                                        *)
THEOREM WeakTypes == Spec => []TypeOK
<1>1. IInv => TypeOK
  BY DEF IInv
<1> QED
  BY <1>1, WeakInvariant, PTL

(* References dangle from one cause only: a collection, at whichever         *)
(* safepoint, takes nothing away that the machine or an entry of the heap    *)
(* holds, save what it finds only behind a property or the prototype of a    *)
(* WeakRef or a registry (trace_roots, trace_entry, trace_strong_edges).     *)
(* While lost is empty nothing dangles at all.                               *)
THEOREM WeakNoOtherDanglingReference == Spec => []NoOtherDanglingReference
<1>1. IInv => NoOtherDanglingReference
  BY DEF IInv
<1> QED
  BY <1>1, WeakInvariant, PTL

(* A target that a WeakRef has shown to the running job is in the heap until *)
(* that job ends (keep_alive_for_job).                                       *)
THEOREM WeakObservedTargetSurvives == Spec => []ObservedTargetSurvives
<1>1. IInv => ObservedTargetSurvives
  BY DEF IInv, Keeping, NoOtherDanglingReference, ObservedTargetSurvives
<1> QED
  BY <1>1, WeakInvariant, PTL

(* A registry has one cleanup queued exactly while cleanup_scheduled says    *)
(* so, and none of its holdings waits unqueued, whatever is thrown and       *)
(* whenever the collector finds more.                                        *)
THEOREM WeakCleanupIsQueuedOnce == Spec => []CleanupIsQueuedOnce
<1>1. IInv => CleanupIsQueuedOnce
  <2> SUFFICES ASSUME IInv, NEW r \in Slots, heap[r].kind = "registry"
               PROVE  /\ Occurrences(r) = (IF heap[r].scheduled THEN 1 ELSE 0)
                      /\ heap[r].pending # {} =>
                            heap[r].scheduled \/ (job.kind = "cleanup" /\ job.slot = r)
    BY DEF CleanupIsQueuedOnce
  <2>1. Occurrences(r) = IF Queued(r) THEN 1 ELSE 0
    BY OccurrencesCounted
  <2>2. heap[r].scheduled <=> Queued(r)
    BY DEF IInv, Queues
  <2>3. heap[r].pending # {} => heap[r].scheduled \/ (job.kind = "cleanup" /\ job.slot = r)
    BY DEF IInv, JobShape, IsCleanupOf
  <2> QED
    BY <2>1, <2>2, <2>3
<1> QED
  BY <1>1, WeakInvariant, PTL

(* A holding is delivered at most once, and for a dead target only           *)
(* (process_weak_targets_after_marking, execute_finalization_cleanup_job).   *)
THEOREM WeakHoldingsAreDue == Spec => []HoldingsAreDue
<1>1. IInv => HoldingsAreDue
  BY DEF IInv
<1> QED
  BY <1>1, WeakInvariant, PTL

(* The byte ledger is exact, so that no refund exceeds what was charged      *)
(* (charge_slot, refund_slot, refund_machine).                               *)
THEOREM WeakLedgerIsExact == Spec => []LedgerIsExact
<1>1. IInv => LedgerIsExact
  BY DEF IInv
<1> QED
  BY <1>1, WeakInvariant, PTL

=============================================================================
