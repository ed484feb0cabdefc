--------------------------- MODULE ApiServerProofs ---------------------------
(* Proofs about ApiControl and ApiServer, for any identifiers, sizes, bounds *)
(* of the partitions and number of frames, and for every transport input.    *)
EXTENDS ApiServer, FiniteSetTheorems, SequenceTheorems, TLAPS

(* The counters are those of the queue, and what they count is finite.       *)
Counting ==
    /\ QueueCounts
    /\ IsFiniteSet(OfKind("work")) /\ IsFiniteSet(OfKind("reject"))
    /\ IsFiniteSet(BytesOf(OfKind("work")))

(* Work and rejections carry the ticket they were admitted with, control     *)
(* items none, and a rejection says why.                                     *)
Shaped(d) ==
    /\ d.kind \in {"work", "reject"} <=> d.ticket # 0
    /\ d.kind = "reject" => d.error # "none"
    /\ d.ticket < nextTicket

Shapes == \A d \in Unanswered : Shaped(d)

(* What each program point of the serving thread knows: how often it has     *)
(* woken the reader, that the queue is closed before it is drained, which    *)
(* item it holds and whether a response to it is due.                        *)
Points ==
    /\ wakes <= 1 \/ server \in {"reap", "drain", "answer", "join", "done"}
    /\ wakes = 0 \/ server \in {"stop", "wake", "reap", "drain", "answer", "join", "done"}
    /\ server \in {"wakeInLoop", "wake", "reap", "drain", "answer", "join", "done"} => stop
    /\ server \in {"answer", "join", "done"} => queue = <<>>
    /\ server # "answer" => drained = <<>>
    /\ server \in {"begin", "plan", "apply"} => item.kind = "work"
    /\ InHand => item.kind \in {"work", "reject"}
    /\ server \in {"retire", "write"} => (Owes(item) <=> response # "none")
    /\ server = "fatal" => response # "none"

(* Tickets grow along a sequence of items.                                   *)
Ordered(s) ==
    \A j, k \in 1..Len(s) :
        (j < k /\ s[j].ticket # 0 /\ s[k].ticket # 0) => s[j].ticket < s[k].ticket

(* First in, first out across the queue, the item in hand, the drained list  *)
(* and the output.                                                           *)
Order ==
    /\ Ordered(queue) /\ Ordered(drained)
    /\ ResponsesInOrder
    /\ InHand => \A d \in Items(queue) : d.ticket # 0 => item.ticket < d.ticket
    /\ \A t \in Answered : \A d \in Unanswered : d.ticket # 0 => t < d.ticket
    /\ \A t \in Answered : t < nextTicket

(* The ledger speaks of tickets already issued, the item whose response is   *)
(* being written has given its identifier back, and what runs was not        *)
(* cancelled before it began.                                                *)
Ledger ==
    /\ \A i \in Ids : outstanding[i] < nextTicket
    /\ (server = "write" /\ item.id \in Ids) => outstanding[item.id] # item.ticket
    /\ executing \notin precancelled
    /\ CancellationIsLive
    /\ IdentifierHasOwner

IInv ==
    /\ TypeOK
    /\ Counting
    /\ Shapes
    /\ Points
    /\ Order
    /\ Ledger
    /\ ObligationsConserved

-----------------------------------------------------------------------------
(* The items of a sequence that grows at its end, or loses its head.         *)
LEMMA ItemsAppend ==
    ASSUME NEW T, NEW s \in Seq(T), NEW e \in T
    PROVE  /\ Append(s, e) \in Seq(T)
           /\ Len(Append(s, e)) = Len(s) + 1
           /\ \A k \in 1..Len(s) : Append(s, e)[k] = s[k]
           /\ Append(s, e)[Len(s) + 1] = e
           /\ Items(Append(s, e)) = Items(s) \cup {e}
<1>1. /\ Append(s, e) \in Seq(T)
      /\ Len(Append(s, e)) = Len(s) + 1
      /\ \A k \in 1..Len(s) : Append(s, e)[k] = s[k]
      /\ Append(s, e)[Len(s) + 1] = e
      /\ Len(s) \in Nat
  OBVIOUS
<1>2. Items(s) \cup {e} \subseteq Items(Append(s, e))
  BY <1>1 DEF Items
<1>3. Items(Append(s, e)) \subseteq Items(s) \cup {e}
  BY <1>1 DEF Items
<1> QED
  BY <1>1, <1>2, <1>3

LEMMA ItemsTail ==
    ASSUME NEW T, NEW s \in Seq(T), s # <<>>
    PROVE  /\ Head(s) = s[1] /\ Head(s) \in T /\ Len(s) >= 1
           /\ Tail(s) \in Seq(T)
           /\ Len(Tail(s)) = Len(s) - 1
           /\ \A k \in 1..Len(Tail(s)) : Tail(s)[k] = s[k + 1]
           /\ Items(s) = {Head(s)} \cup Items(Tail(s))
<1>1. /\ Head(s) = s[1] /\ Head(s) \in T /\ Len(s) >= 1 /\ Len(s) \in Nat
      /\ Tail(s) \in Seq(T)
      /\ Len(Tail(s)) = Len(s) - 1
      /\ \A k \in 1..Len(Tail(s)) : Tail(s)[k] = s[k + 1]
  BY HeadTailProperties, EmptySeq, LenProperties
<1>2. Items(Tail(s)) \subseteq Items(s) /\ Head(s) \in Items(s)
  BY <1>1 DEF Items
<1>3. ASSUME NEW k \in 1..Len(s)
      PROVE  s[k] \in {Head(s)} \cup Items(Tail(s))
  <2>1. CASE k = 1
    BY <2>1, <1>1
  <2>2. CASE k # 1
    <3>1. k - 1 \in 1..Len(Tail(s)) /\ s[k] = Tail(s)[k - 1]
      BY <2>2, <1>1
    <3> QED
      BY <3>1 DEF Items
  <2> QED
    BY <2>1, <2>2
<1>4. Items(s) \subseteq {Head(s)} \cup Items(Tail(s))
  BY <1>3 DEF Items
<1> QED
  BY <1>1, <1>2, <1>4

LEMMA ItemsEmpty == Items(<<>>) = {}
BY DEF Items

(* Every item inside the session is an item, and its ticket was issued.      *)
LEMMA UnansweredType ==
    TypeOK => /\ Unanswered \subseteq ItemType
              /\ Items(queue) \subseteq Unanswered /\ Items(drained) \subseteq Unanswered
<1> SUFFICES ASSUME TypeOK
             PROVE  /\ Unanswered \subseteq ItemType
                    /\ Items(queue) \subseteq Unanswered /\ Items(drained) \subseteq Unanswered
  OBVIOUS
<1>1. Items(queue) \subseteq ItemType /\ Items(drained) \subseteq ItemType
  <2>1. queue \in Seq(ItemType) /\ drained \in Seq(ItemType)
    BY DEF TypeOK
  <2> QED
    BY <2>1, ElementOfSeq DEF Items
<1>2. item \in ItemType
  BY DEF TypeOK
<1> QED
  BY <1>1, <1>2 DEF Unanswered

LEMMA QueuedTickets ==
    ASSUME TypeOK, Shapes
    PROVE  \A d \in Items(queue) : d.ticket < nextTicket /\ d.ticket \in Nat
<1> SUFFICES ASSUME NEW d \in Items(queue)
             PROVE  d.ticket < nextTicket /\ d.ticket \in Nat
  OBVIOUS
<1>1. d \in Unanswered /\ d \in ItemType
  BY UnansweredType
<1> QED
  BY <1>1 DEF Shapes, Shaped, ItemType

(* What was answered are tickets.                                            *)
LEMMA AnsweredType == TypeOK => Answered \subseteq Nat
<1> SUFFICES ASSUME TypeOK PROVE Answered \subseteq Nat
  OBVIOUS
<1> DEFINE R == [ticket : Nat, id : Ids \union {NoId}, code : Codes]
<1>1. output \in Seq(R)
  BY DEF TypeOK
<1>2. \A k \in 1..Len(output) : output[k] \in R
  BY <1>1, ElementOfSeq
<1> QED
  BY <1>2 DEF Answered

(* The bytes of one more item add up, if its ticket is new.                  *)
LEMMA BytesAdd ==
    ASSUME NEW S, NEW q, q.bytes \in Nat, IsFiniteSet(BytesOf(S)),
           \A x \in S : x.ticket # q.ticket
    PROVE  /\ IsFiniteSet(BytesOf(S \cup {q}))
           /\ Cardinality(BytesOf(S \cup {q})) = Cardinality(BytesOf(S)) + q.bytes
<1> DEFINE B == {q.ticket} \X (1..q.bytes)
<1>1. IsFiniteSet(B) /\ Cardinality(B) = q.bytes
  <2>1. IsFiniteSet({q.ticket}) /\ Cardinality({q.ticket}) = 1
    BY FS_Singleton
  <2>2. PICK n \in Nat : n = q.bytes
    OBVIOUS
  <2>3. IsFiniteSet(1..n) /\ Cardinality(1..n) = IF 1 > n THEN 0 ELSE n - 1 + 1
    <3>1. 1 \in Int /\ n \in Int
      OBVIOUS
    <3> QED
      BY <3>1, FS_Interval
  <2>4. Cardinality(1..n) = n
    BY <2>3
  <2>5. IsFiniteSet({q.ticket} \X (1..n))
        /\ Cardinality({q.ticket} \X (1..n)) = Cardinality({q.ticket}) * Cardinality(1..n)
    BY <2>1, <2>3, FS_Product
  <2>6. Cardinality({q.ticket} \X (1..n)) = n
    BY <2>1, <2>4, <2>5
  <2> QED
    BY <2>2, <2>5, <2>6
<1>2. BytesOf(S \cup {q}) = BytesOf(S) \cup B
  BY DEF BytesOf
<1>3. BytesOf(S) \cap B = {}
  BY DEF BytesOf
<1>4. Cardinality(BytesOf(S)) \in Nat
  BY FS_CardinalityType
<1> HIDE DEF B
<1>5. /\ IsFiniteSet(BytesOf(S) \cup B)
      /\ Cardinality(BytesOf(S) \cup B)
           = Cardinality(BytesOf(S)) + Cardinality(B) - Cardinality(BytesOf(S) \cap B)
  BY <1>1, FS_Union
<1>6. Cardinality(BytesOf(S) \cap B) = 0
  BY <1>3, FS_EmptySet
<1>7. PICK n, m \in Nat : n = Cardinality(BytesOf(S)) /\ m = q.bytes
  BY <1>4
<1>8. Cardinality(BytesOf(S) \cup B) = n + m - 0
  BY <1>1, <1>5, <1>6, <1>7
<1>9. IsFiniteSet(BytesOf(S \cup {q})) /\ Cardinality(BytesOf(S \cup {q})) = n + m - 0
  BY <1>2, <1>5, <1>8, Zenon
<1>10. n + m - 0 = n + m
  OBVIOUS
<1> QED
  BY <1>7, <1>9, <1>10, Zenon

-----------------------------------------------------------------------------
(* The counters follow the queue: nothing waits, `queue_control` appends a   *)
(* control item, `offer` work, `queue_reject_locked` a rejection, and `next` *)
(* takes the head.                                                           *)
LEMMA CountEmpty ==
    queue' = <<>> /\ queuedWork' = 0 /\ queuedBytes' = 0 /\ queuedRejects' = 0 => Counting'
<1> SUFFICES ASSUME queue' = <<>>, queuedWork' = 0, queuedBytes' = 0, queuedRejects' = 0
             PROVE  Counting'
  OBVIOUS
<1>1. OfKind("work")' = {} /\ OfKind("reject")' = {}
  BY ItemsEmpty DEF OfKind
<1>2. BytesOf(OfKind("work"))' = {}
  BY <1>1 DEF BytesOf
<1>3. \A j, k \in 1..Len(queue') :
        (queue'[j].kind = queue'[k].kind /\ queue'[j].kind \in {"shutdown", "exit"}) => j = k
  OBVIOUS
<1>4. 0 <= MaxWork /\ 0 <= MaxBytes /\ 0 <= MaxRejects
  BY ControlAssumption
<1> QED
  BY <1>1, <1>2, <1>3, <1>4, FS_EmptySet DEF Counting, QueueCounts

LEMMA CountControl ==
    ASSUME TypeOK, Counting, NEW m \in {"shutdown", "exit"},
           \A k \in 1..Len(queue) : queue[k].kind # m,
           queue' = Append(queue, Ctrl(m)), UNCHANGED counters
    PROVE  Counting'
<1>1. Ctrl(m) \in ItemType /\ Ctrl(m).kind = m
  BY DEF Ctrl, ItemType
<1>2. queue \in Seq(ItemType)
  BY DEF TypeOK
<1>3. /\ Len(queue') = Len(queue) + 1 /\ Len(queue) \in Nat
      /\ \A k \in 1..Len(queue) : queue'[k] = queue[k]
      /\ queue'[Len(queue) + 1] = Ctrl(m)
      /\ Items(queue') = Items(queue) \cup {Ctrl(m)}
  BY <1>1, <1>2, ItemsAppend
<1>4. OfKind("work")' = OfKind("work") /\ OfKind("reject")' = OfKind("reject")
  BY <1>1, <1>3 DEF OfKind
<1>5. BytesOf(OfKind("work"))' = BytesOf(OfKind("work"))
  BY <1>4 DEF BytesOf
<1>6. ASSUME NEW j \in 1..Len(queue'), NEW k \in 1..Len(queue'),
             queue'[j].kind = queue'[k].kind, queue'[j].kind \in {"shutdown", "exit"}
      PROVE  j = k
  BY <1>1, <1>3, <1>6 DEF Counting, QueueCounts
<1> QED
  BY <1>4, <1>5, <1>6 DEF Counting, QueueCounts, counters

LEMMA CountWork ==
    ASSUME TypeOK, Counting, Shapes, NEW e \in ItemType, e.kind = "work", e.ticket = nextTicket,
           queue' = Append(queue, e), Room(e.bytes),
           queuedWork' = queuedWork + 1, queuedBytes' = queuedBytes + e.bytes,
           queuedRejects' = queuedRejects
    PROVE  Counting'
<1>1. queue \in Seq(ItemType) /\ nextTicket \in Nat /\ e.bytes \in Nat /\ queuedWork \in Nat
  BY DEF TypeOK, ItemType
<1>2. /\ Len(queue') = Len(queue) + 1 /\ Len(queue) \in Nat
      /\ \A k \in 1..Len(queue) : queue'[k] = queue[k]
      /\ queue'[Len(queue) + 1] = e
      /\ Items(queue') = Items(queue) \cup {e}
  BY <1>1, ItemsAppend
<1>3. \A d \in Items(queue) : d.ticket # e.ticket
  <2>1. \A d \in Items(queue) : d.ticket < nextTicket /\ d.ticket \in Nat
    BY QueuedTickets
  <2> QED
    BY <1>1, <2>1
<1>4. OfKind("work")' = OfKind("work") \cup {e} /\ OfKind("reject")' = OfKind("reject")
  BY <1>2 DEF OfKind
<1>5. e \notin OfKind("work") /\ \A x \in OfKind("work") : x.ticket # e.ticket
  BY <1>3 DEF OfKind
<1>6. /\ IsFiniteSet(OfKind("work")) /\ IsFiniteSet(OfKind("reject"))
      /\ IsFiniteSet(BytesOf(OfKind("work")))
      /\ QueueCounts
  BY DEF Counting
<1>7. /\ IsFiniteSet(OfKind("work") \cup {e})
      /\ Cardinality(OfKind("work") \cup {e}) = Cardinality(OfKind("work")) + 1
  BY <1>5, <1>6, FS_AddElement
<1>8. /\ IsFiniteSet(BytesOf(OfKind("work") \cup {e}))
      /\ Cardinality(BytesOf(OfKind("work") \cup {e}))
            = Cardinality(BytesOf(OfKind("work"))) + e.bytes
  BY <1>1, <1>5, <1>6, BytesAdd
<1>9. BytesOf(OfKind("work"))' = BytesOf(OfKind("work") \cup {e})
  BY <1>4 DEF BytesOf
<1>10. /\ IsFiniteSet(OfKind("work"))' /\ IsFiniteSet(OfKind("reject"))'
       /\ IsFiniteSet(BytesOf(OfKind("work")))'
  BY <1>4, <1>6, <1>7, <1>8, <1>9, Zenon
<1>11. /\ Cardinality(OfKind("work"))' = queuedWork'
       /\ Cardinality(BytesOf(OfKind("work")))' = queuedBytes'
       /\ Cardinality(OfKind("reject"))' = queuedRejects'
  BY <1>4, <1>6, <1>7, <1>8, <1>9, Zenon DEF QueueCounts
<1>12. queuedWork' <= MaxWork /\ queuedBytes' <= MaxBytes /\ queuedRejects' <= MaxRejects
  BY <1>1, <1>6, ControlAssumption DEF Room, QueueCounts
<1>13. ASSUME NEW j \in 1..Len(queue'), NEW k \in 1..Len(queue'),
              queue'[j].kind = queue'[k].kind, queue'[j].kind \in {"shutdown", "exit"}
       PROVE  j = k
  BY <1>2, <1>6, <1>13 DEF QueueCounts
<1> QED
  BY <1>10, <1>11, <1>12, <1>13 DEF Counting, QueueCounts

LEMMA CountReject ==
    ASSUME TypeOK, Counting, Shapes, NEW e \in ItemType, e.kind = "reject", e.ticket = nextTicket,
           queue' = Append(queue, e), queuedRejects < MaxRejects,
           queuedRejects' = queuedRejects + 1, queuedWork' = queuedWork,
           queuedBytes' = queuedBytes
    PROVE  Counting'
<1>1. queue \in Seq(ItemType) /\ nextTicket \in Nat /\ queuedRejects \in Nat
  BY DEF TypeOK
<1>2. /\ Len(queue') = Len(queue) + 1 /\ Len(queue) \in Nat
      /\ \A k \in 1..Len(queue) : queue'[k] = queue[k]
      /\ queue'[Len(queue) + 1] = e
      /\ Items(queue') = Items(queue) \cup {e}
  BY <1>1, ItemsAppend
<1>3. e \notin OfKind("reject")
  <2>1. \A d \in Items(queue) : d.ticket < nextTicket /\ d.ticket \in Nat
    BY QueuedTickets
  <2> QED
    BY <1>1, <2>1 DEF OfKind
<1>4. OfKind("reject")' = OfKind("reject") \cup {e} /\ OfKind("work")' = OfKind("work")
  BY <1>2 DEF OfKind
<1>5. /\ IsFiniteSet(OfKind("work")) /\ IsFiniteSet(OfKind("reject"))
      /\ IsFiniteSet(BytesOf(OfKind("work")))
      /\ QueueCounts
  BY DEF Counting
<1>6. /\ IsFiniteSet(OfKind("reject") \cup {e})
      /\ Cardinality(OfKind("reject") \cup {e}) = Cardinality(OfKind("reject")) + 1
  BY <1>3, <1>5, FS_AddElement
<1>7. BytesOf(OfKind("work"))' = BytesOf(OfKind("work"))
  BY <1>4 DEF BytesOf
<1>8. /\ IsFiniteSet(OfKind("work"))' /\ IsFiniteSet(OfKind("reject"))'
      /\ IsFiniteSet(BytesOf(OfKind("work")))'
  BY <1>4, <1>5, <1>6, <1>7, Zenon
<1>9. /\ Cardinality(OfKind("work"))' = queuedWork'
      /\ Cardinality(BytesOf(OfKind("work")))' = queuedBytes'
      /\ Cardinality(OfKind("reject"))' = queuedRejects'
  BY <1>4, <1>5, <1>6, <1>7, Zenon DEF QueueCounts
<1>10. queuedWork' <= MaxWork /\ queuedBytes' <= MaxBytes /\ queuedRejects' <= MaxRejects
  BY <1>1, <1>5, ControlAssumption DEF QueueCounts
<1>11. ASSUME NEW j \in 1..Len(queue'), NEW k \in 1..Len(queue'),
              queue'[j].kind = queue'[k].kind, queue'[j].kind \in {"shutdown", "exit"}
       PROVE  j = k
  BY <1>2, <1>5, <1>11 DEF QueueCounts
<1> QED
  BY <1>8, <1>9, <1>10, <1>11 DEF Counting, QueueCounts

(* The head of the queue is like no other item behind it: its ticket is the  *)
(* smallest, and a control item is the only one of its kind.                 *)
LEMMA HeadIsAlone ==
    ASSUME TypeOK, Shapes, Order, queue # <<>>
    PROVE  \A d \in Items(Tail(queue)) :
              Head(queue).ticket # 0 => d.ticket # Head(queue).ticket
<1> SUFFICES ASSUME NEW d \in Items(Tail(queue)), Head(queue).ticket # 0
             PROVE  d.ticket # Head(queue).ticket
  OBVIOUS
<1>1. queue \in Seq(ItemType)
  BY DEF TypeOK
<1>2. /\ Head(queue) = queue[1] /\ Len(queue) >= 1 /\ Len(queue) \in Nat
      /\ Len(Tail(queue)) = Len(queue) - 1
      /\ \A k \in 1..Len(Tail(queue)) : Tail(queue)[k] = queue[k + 1]
  BY <1>1, ItemsTail
<1>3. PICK k \in 1..Len(Tail(queue)) : d = Tail(queue)[k]
  BY DEF Items
<1>4. k + 1 \in 1..Len(queue) /\ 1 \in 1..Len(queue) /\ d = queue[k + 1] /\ 1 < k + 1
  BY <1>2, <1>3
<1>5. queue[1] \in ItemType /\ queue[k + 1] \in ItemType
  BY <1>1, <1>4, ElementOfSeq
<1>6. queue[1].ticket \in Nat /\ queue[k + 1].ticket \in Nat
  BY <1>5 DEF ItemType
<1>7. Ordered(queue)
  BY DEF Order
<1> QED
  BY <1>2, <1>4, <1>6, <1>7 DEF Ordered

LEMMA CountTail ==
    ASSUME TypeOK, Counting, Shapes, Order, NextInbound
    PROVE  /\ Counting'
           /\ queuedWork' \in Nat /\ queuedBytes' \in Nat /\ queuedRejects' \in Nat
<1> DEFINE h == Head(queue)
           W == OfKind("work")
           R == OfKind("reject")
<1>1. queue \in Seq(ItemType) /\ queue # <<>> /\ queue' = Tail(queue)
  BY DEF TypeOK, NextInbound
<1>2. /\ h = queue[1] /\ h \in ItemType /\ Len(queue) >= 1 /\ Len(queue) \in Nat
      /\ Len(queue') = Len(queue) - 1
      /\ \A k \in 1..Len(queue') : queue'[k] = queue[k + 1]
      /\ Items(queue) = {h} \cup Items(queue')
  BY <1>1, ItemsTail
<1>3. /\ IsFiniteSet(W) /\ IsFiniteSet(R) /\ IsFiniteSet(BytesOf(W))
      /\ QueueCounts
  BY DEF Counting
<1>4. h \in Items(queue) /\ h.bytes \in Nat
      /\ (h.kind \in {"work", "reject"} => h.ticket # 0)
  <2>1. h \in Items(queue) /\ h \in Unanswered
    BY <1>2, UnansweredType
  <2> QED
    BY <2>1, <1>2 DEF Shapes, Shaped, ItemType
<1>5. ASSUME h.kind \in {"work", "reject"}
      PROVE  \A d \in Items(queue') : d.ticket # h.ticket
  BY <1>1, <1>4, <1>5, HeadIsAlone
<1>6. ASSUME NEW j \in 1..Len(queue'), NEW k \in 1..Len(queue'),
             queue'[j].kind = queue'[k].kind, queue'[j].kind \in {"shutdown", "exit"}
      PROVE  j = k
  <2>1. j + 1 \in 1..Len(queue) /\ k + 1 \in 1..Len(queue)
        /\ queue'[j] = queue[j + 1] /\ queue'[k] = queue[k + 1]
    BY <1>2
  <2>2. j + 1 = k + 1
    BY <1>3, <1>6, <2>1 DEF QueueCounts
  <2> QED
    BY <2>2
<1>7. Cardinality(W') \in Nat /\ Cardinality(BytesOf(W')) \in Nat /\ Cardinality(R') \in Nat
      /\ IsFiniteSet(W') /\ IsFiniteSet(R') /\ IsFiniteSet(BytesOf(W'))
      /\ queuedWork' = Cardinality(W') /\ queuedBytes' = Cardinality(BytesOf(W'))
      /\ queuedRejects' = Cardinality(R')
  <2>1. CASE h.kind = "work"
    <3>1. /\ queuedWork' = queuedWork - 1
          /\ queuedBytes' = queuedBytes - h.bytes
          /\ queuedRejects' = queuedRejects - 0
      BY <2>1 DEF NextInbound
    <3>2. W' = W \ {h} /\ h \in W /\ R' = R /\ W = W' \cup {h}
      BY <1>2, <1>5, <2>1 DEF OfKind
    <3>3. /\ IsFiniteSet(W \ {h})
          /\ Cardinality(W \ {h}) = Cardinality(W) - 1
      BY <1>3, <3>2, FS_RemoveElement
    <3>4. \A x \in W' : x.ticket # h.ticket
      BY <1>5, <2>1 DEF OfKind
    <3>5. BytesOf(W') \subseteq BytesOf(W)
      BY <3>2 DEF BytesOf
    <3>6. IsFiniteSet(BytesOf(W'))
      BY <1>3, <3>5, FS_Subset
    <3>7. Cardinality(BytesOf(W' \cup {h})) = Cardinality(BytesOf(W')) + h.bytes
      BY <1>4, <3>4, <3>6, BytesAdd
    <3>8. Cardinality(BytesOf(W)) = Cardinality(BytesOf(W')) + h.bytes
      BY <3>2, <3>7, Zenon
    <3>9. /\ queuedWork = Cardinality(W) /\ queuedBytes = Cardinality(BytesOf(W))
          /\ queuedRejects = Cardinality(R)
      BY <1>3 DEF QueueCounts
    <3>10. IsFiniteSet(W') /\ IsFiniteSet(R')
           /\ Cardinality(W') = Cardinality(W) - 1 /\ Cardinality(R') = Cardinality(R)
      BY <1>3, <3>2, <3>3, Zenon
    <3>11. Cardinality(W) \in Nat /\ Cardinality(W') \in Nat /\ Cardinality(R') \in Nat
           /\ Cardinality(BytesOf(W')) \in Nat
      BY <1>3, <3>6, <3>10, FS_CardinalityType
    <3> HIDE DEF W, R, h
    <3> QED
      BY <1>4, <3>1, <3>6, <3>8, <3>9, <3>10, <3>11
  <2>2. CASE h.kind = "reject"
    <3>1. /\ queuedWork' = queuedWork - 0
          /\ queuedBytes' = queuedBytes - 0
          /\ queuedRejects' = queuedRejects - 1
      BY <2>2 DEF NextInbound
    <3>2. R' = R \ {h} /\ h \in R /\ W' = W
      BY <1>2, <1>5, <2>2 DEF OfKind
    <3>3. /\ IsFiniteSet(R \ {h})
          /\ Cardinality(R \ {h}) = Cardinality(R) - 1
      BY <1>3, <3>2, FS_RemoveElement
    <3>4. BytesOf(W') = BytesOf(W)
      BY <3>2, Zenon
    <3>5. /\ queuedWork = Cardinality(W) /\ queuedBytes = Cardinality(BytesOf(W))
          /\ queuedRejects = Cardinality(R)
      BY <1>3 DEF QueueCounts
    <3>6. IsFiniteSet(W') /\ IsFiniteSet(R') /\ IsFiniteSet(BytesOf(W'))
          /\ Cardinality(W') = Cardinality(W) /\ Cardinality(R') = Cardinality(R) - 1
          /\ Cardinality(BytesOf(W')) = Cardinality(BytesOf(W))
      BY <1>3, <3>2, <3>3, <3>4, Zenon
    <3>7. Cardinality(W') \in Nat /\ Cardinality(R) \in Nat /\ Cardinality(R') \in Nat
          /\ Cardinality(BytesOf(W')) \in Nat
      BY <1>3, <3>6, FS_CardinalityType
    <3> HIDE DEF W, R, h
    <3> QED
      BY <3>1, <3>5, <3>6, <3>7
  <2>3. CASE h.kind \notin {"work", "reject"}
    <3>1. /\ queuedWork' = queuedWork - 0
          /\ queuedBytes' = queuedBytes - 0
          /\ queuedRejects' = queuedRejects - 0
      BY <2>3 DEF NextInbound
    <3>2. R' = R /\ W' = W
      BY <1>2, <2>3 DEF OfKind
    <3>3. /\ queuedWork = Cardinality(W) /\ queuedBytes = Cardinality(BytesOf(W))
          /\ queuedRejects = Cardinality(R)
      BY <1>3 DEF QueueCounts
    <3>4. IsFiniteSet(W') /\ IsFiniteSet(R') /\ IsFiniteSet(BytesOf(W'))
          /\ Cardinality(W') = Cardinality(W) /\ Cardinality(R') = Cardinality(R)
          /\ Cardinality(BytesOf(W')) = Cardinality(BytesOf(W))
      BY <1>3, <3>2, Zenon
    <3>5. Cardinality(W') \in Nat /\ Cardinality(R') \in Nat
          /\ Cardinality(BytesOf(W')) \in Nat
      BY <3>4, FS_CardinalityType
    <3> HIDE DEF W, R, h
    <3> QED
      BY <3>1, <3>3, <3>4, <3>5
  <2> QED
    BY <2>1, <2>2, <2>3
<1>8. queuedWork' <= queuedWork /\ queuedBytes' <= queuedBytes /\ queuedRejects' <= queuedRejects
  BY <1>4 DEF NextInbound, TypeOK
<1>9. queuedWork' <= MaxWork /\ queuedBytes' <= MaxBytes /\ queuedRejects' <= MaxRejects
  <2>1. queuedWork' \in Nat /\ queuedBytes' \in Nat /\ queuedRejects' \in Nat
    BY <1>7
  <2>2. queuedWork \in Nat /\ queuedBytes \in Nat /\ queuedRejects \in Nat
    BY DEF TypeOK
  <2>3. queuedWork <= MaxWork /\ queuedBytes <= MaxBytes /\ queuedRejects <= MaxRejects
    BY <1>3 DEF QueueCounts
  <2> QED
    BY <2>1, <2>2, <2>3, <1>8, ControlAssumption
<1>10. QueueCounts'
  BY <1>6, <1>7, <1>9 DEF QueueCounts
<1> QED
  BY <1>7, <1>10 DEF Counting

-----------------------------------------------------------------------------
(* `Control::new` and the start of `serve_reaped`.                           *)
THEOREM ApiInit == Init => IInv
<1> SUFFICES ASSUME Init PROVE IInv
  OBVIOUS
<1> USE DEF Init, ControlInit
<1>1. TypeOK
  <2>1. Ctrl("shutdown") \in ItemType
    BY DEF Ctrl, ItemType
  <2>2. output \in Seq([ticket : Nat, id : Ids \union {NoId}, code : Codes])
    OBVIOUS
  <2>3. outstanding \in [Ids -> Nat] /\ held \in Requests \cup {NoRequest} /\ input \in Inputs
        /\ frames \in 0..MaxFrames /\ wakes \in 0..2
    BY ServerAssumption
  <2>4. queue \in Seq(ItemType) /\ drained \in Seq(ItemType) /\ item \in ItemType
    BY <2>1
  <2>5. /\ queuedWork \in Nat /\ queuedBytes \in Nat /\ queuedRejects \in Nat
        /\ precancelled \subseteq Nat \ {0} /\ owed \subseteq Nat \ {0}
        /\ executing \in Nat /\ nextTicket \in Nat \ {0}
    OBVIOUS
  <2>6. /\ cancelled \in BOOLEAN /\ stop \in BOOLEAN /\ waiting \in BOOLEAN
        /\ carried \in BOOLEAN /\ abandoned \in BOOLEAN /\ stopped \in BOOLEAN
        /\ firstError \in BOOLEAN /\ failed \in BOOLEAN /\ reaped \in BOOLEAN
    BY Zenon
  <2> QED
    BY <2>2, <2>3, <2>4, <2>5, <2>6 DEF TypeOK
<1>2. Unanswered = {} /\ Answered = {} /\ ~InHand
  BY ItemsEmpty DEF Unanswered, Answered, InHand
<1>3. Counting
  <2>1. OfKind("work") = {} /\ OfKind("reject") = {}
    BY ItemsEmpty DEF OfKind
  <2>2. BytesOf(OfKind("work")) = {}
    BY <2>1 DEF BytesOf
  <2>3. 0 <= MaxWork /\ 0 <= MaxBytes /\ 0 <= MaxRejects
    BY ControlAssumption
  <2>4. \A j, k \in 1..Len(queue) :
          (queue[j].kind = queue[k].kind /\ queue[j].kind \in {"shutdown", "exit"}) => j = k
    OBVIOUS
  <2>5. IsFiniteSet({}) /\ Cardinality({}) = 0
    BY FS_EmptySet
  <2>6. /\ IsFiniteSet(OfKind("work")) /\ Cardinality(OfKind("work")) = 0
        /\ IsFiniteSet(OfKind("reject")) /\ Cardinality(OfKind("reject")) = 0
        /\ IsFiniteSet(BytesOf(OfKind("work"))) /\ Cardinality(BytesOf(OfKind("work"))) = 0
    BY <2>1, <2>2, <2>5, Zenon
  <2> QED
    BY <2>3, <2>4, <2>6 DEF Counting, QueueCounts
<1>4. Shapes
  BY <1>2 DEF Shapes
<1>5. Points
  BY <1>2 DEF Points
<1>6. Order
  BY <1>2 DEF Order, Ordered, ResponsesInOrder
<1>7. Ledger
  BY <1>2 DEF Ledger, CancellationIsLive, IdentifierHasOwner
<1>8. ObligationsConserved
  BY <1>2 DEF ObligationsConserved
<1> QED
  BY <1>1, <1>3, <1>4, <1>5, <1>6, <1>7, <1>8 DEF IInv

-----------------------------------------------------------------------------
(* A step that leaves the queue, the ledger and the serving thread alone: the *)
(* reader between two calls, a refused `offer`, a dropped notification, a    *)
(* flood, `fatal` and `reader_exited`.                                       *)
LEMMA QuietStep ==
    ASSUME IInv, TypeOK',
           UNCHANGED <<queue, counters, outstanding, precancelled, executing, owed, serverVars>>,
           nextTicket' >= nextTicket, stop => stop', wakes' <= wakes
    PROVE  IInv'
<1> USE DEF IInv, serverVars, counters
<1>1. Unanswered' = Unanswered /\ Answered' = Answered /\ InHand' = InHand
  BY DEF Unanswered, Answered, InHand, Items
<1>2. nextTicket \in Nat /\ nextTicket' \in Nat /\ wakes \in 0..2 /\ wakes' \in 0..2
      /\ Unanswered \subseteq ItemType
  BY UnansweredType DEF TypeOK
<1>3. Counting'
  BY DEF Counting, QueueCounts, OfKind, Items, BytesOf
<1>4. Shapes'
  BY <1>1, <1>2 DEF Shapes, Shaped, ItemType
<1>5. Points'
  BY <1>1, <1>2 DEF Points, Owes
<1>6. Order'
  <2>1. Answered \subseteq Nat
    BY AnsweredType
  <2>2. \A t \in Answered : t < nextTicket'
    BY <1>2, <2>1 DEF Order
  <2> QED
    BY <1>1, <2>2 DEF Order, Ordered, ResponsesInOrder, Items
<1>7. Ledger'
  BY <1>1, <1>2 DEF Ledger, CancellationIsLive, IdentifierHasOwner, TypeOK
<1>8. ObligationsConserved'
  BY <1>1 DEF ObligationsConserved, Owes
<1> QED
  BY <1>3, <1>4, <1>5, <1>6, <1>7, <1>8

(* An item is admitted at the end of an open queue: `queue_control`,          *)
(* `queue_reject_locked` and `offer`.                                        *)
LEMMA Enqueue ==
    ASSUME IInv, TypeOK', Counting', ~stop, NEW e \in ItemType,
           queue' = Append(queue, e),
           UNCHANGED <<precancelled, executing, stop, wakes, serverVars>>,
           \/ e.kind \in {"shutdown", "exit"} /\ e.ticket = 0 /\ nextTicket' = nextTicket
           \/ /\ e.kind \in {"work", "reject"}
              /\ e.ticket = nextTicket /\ nextTicket' = nextTicket + 1,
           e.kind = "reject" => e.error # "none",
           owed' = IF Owes(e) THEN owed \cup {e.ticket} ELSE owed,
           \A i \in Ids : \/ outstanding'[i] = outstanding[i]
                          \/ /\ outstanding[i] = 0 /\ outstanding'[i] = nextTicket
                             /\ e.ticket = nextTicket /\ e.id = i
    PROVE  IInv'
<1> USE DEF IInv, serverVars
<1>1. queue \in Seq(ItemType) /\ nextTicket \in Nat \ {0} /\ nextTicket' \in Nat
      /\ Unanswered \subseteq ItemType
      /\ e.ticket \in Nat /\ nextTicket' >= nextTicket /\ e.ticket < nextTicket'
      /\ item \in ItemType
  <2>1. queue \in Seq(ItemType) /\ nextTicket \in Nat \ {0} /\ nextTicket' \in Nat
        /\ item \in ItemType
    BY DEF TypeOK
  <2>2. e.ticket \in Nat
    BY DEF ItemType
  <2> QED
    BY <2>1, <2>2, UnansweredType
<1>2. /\ Len(queue') = Len(queue) + 1 /\ Len(queue) \in Nat
      /\ \A k \in 1..Len(queue) : queue'[k] = queue[k]
      /\ queue'[Len(queue) + 1] = e
      /\ Items(queue') = Items(queue) \cup {e}
  BY <1>1, ItemsAppend
<1>3. Unanswered' = Unanswered \cup {e} /\ Answered' = Answered /\ InHand' = InHand
  BY <1>2 DEF Unanswered, Answered, InHand, Items
<1>4. \A d \in Unanswered : d.ticket < nextTicket /\ d.ticket \in Nat
  BY <1>1 DEF Shapes, Shaped, ItemType
<1>5. Shapes'
  BY <1>1, <1>3, <1>4 DEF Shapes, Shaped
<1>6. Points'
  BY <1>3 DEF Points, Owes
<1>7. Order'
  <2>1. Ordered(queue')
    <3> SUFFICES ASSUME NEW j \in 1..Len(queue'), NEW k \in 1..Len(queue'), j < k,
                        queue'[j].ticket # 0, queue'[k].ticket # 0
                 PROVE  queue'[j].ticket < queue'[k].ticket
      BY DEF Ordered
    <3>1. j \in 1..Len(queue) /\ queue'[j] = queue[j]
      BY <1>2
    <3>2. CASE k \in 1..Len(queue)
      BY <1>2, <3>1, <3>2 DEF Order, Ordered
    <3>3. CASE k = Len(queue) + 1
      <4>1. queue[j] \in Unanswered
        BY <3>1, UnansweredType DEF Items
      <4>2. e.ticket = nextTicket
        BY <1>2, <3>3
      <4> QED
        BY <1>2, <1>4, <3>1, <3>3, <4>1, <4>2
    <3> QED
      BY <1>2, <3>2, <3>3
  <2>2. InHand' => \A d \in Items(queue') : d.ticket # 0 => item.ticket < d.ticket
    <3>1. InHand => item \in Unanswered
      BY DEF Unanswered
    <3> QED
      BY <1>2, <1>3, <1>4, <3>1 DEF Order
  <2>3. \A t \in Answered : \A d \in Unanswered' : d.ticket # 0 => t < d.ticket
    BY <1>3 DEF Order
  <2>4. \A t \in Answered : t < nextTicket'
    <3>1. Answered \subseteq Nat
      BY AnsweredType
    <3> QED
      BY <1>1, <3>1 DEF Order
  <2>5. Ordered(drained)' /\ ResponsesInOrder'
    BY DEF Order, Ordered, ResponsesInOrder
  <2> QED
    BY <1>3, <2>1, <2>2, <2>3, <2>4, <2>5 DEF Order, Ordered
<1>8. Ledger'
  <2>1. outstanding \in [Ids -> Nat] /\ outstanding' \in [Ids -> Nat]
    BY DEF TypeOK
  <2>2. \A i \in Ids : outstanding'[i] < nextTicket'
    BY <1>1, <2>1 DEF Ledger
  <2>3. (server' = "write" /\ item'.id \in Ids) => outstanding'[item'.id] # item'.ticket
    <3> SUFFICES ASSUME server = "write", item.id \in Ids
                 PROVE  outstanding'[item.id] # item.ticket
      OBVIOUS
    <3>1. item \in Unanswered
      BY DEF Unanswered, InHand
    <3>2. item.ticket < nextTicket /\ item.ticket \in Nat
      BY <1>4, <3>1
    <3> QED
      BY <1>1, <3>2 DEF Ledger
  <2>4. CancellationIsLive'
    <3> SUFFICES ASSUME NEW t \in precancelled
                 PROVE  \E i \in Ids : outstanding'[i] = t
      BY DEF CancellationIsLive
    <3>1. PICK i \in Ids : outstanding[i] = t
      BY DEF Ledger, CancellationIsLive
    <3>2. t # 0
      BY DEF TypeOK
    <3> QED
      BY <3>1, <3>2
  <2>5. IdentifierHasOwner'
    <3>1. ASSUME NEW i \in Ids, outstanding'[i] # 0
          PROVE  \E u \in Unanswered' : u.id = i /\ u.ticket = outstanding'[i]
      BY <1>3, <3>1 DEF Ledger, IdentifierHasOwner
    <3>2. server' # "done"
      BY DEF Points
    <3> QED
      BY <3>1, <3>2 DEF IdentifierHasOwner
  <2> QED
    BY <2>2, <2>3, <2>4, <2>5 DEF Ledger
<1>9. ObligationsConserved'
  <2>1. server # "done"
    BY DEF Points
  <2>2. {d.ticket : d \in {u \in Unanswered' : Owes(u)}}
          = {d.ticket : d \in {u \in Unanswered : Owes(u)}}
              \cup (IF Owes(e) THEN {e.ticket} ELSE {})
    BY <1>3
  <2> QED
    BY <1>3, <2>1, <2>2 DEF ObligationsConserved
<1> QED
  BY <1>5, <1>6, <1>7, <1>8, <1>9

-----------------------------------------------------------------------------
(* TypeOK by component: the queue and its ledger, the reader, the serving    *)
(* thread.                                                                   *)
ControlTypes ==
    /\ queue \in Seq(ItemType)
    /\ queuedWork \in Nat /\ queuedBytes \in Nat /\ queuedRejects \in Nat
    /\ outstanding \in [Ids -> Nat] /\ precancelled \subseteq Nat \ {0}
    /\ executing \in Nat /\ nextTicket \in Nat \ {0} /\ owed \subseteq Nat \ {0}
    /\ cancelled \in BOOLEAN /\ stop \in BOOLEAN /\ waiting \in BOOLEAN
    /\ readerExit \in {"none", "eof", "woken", "failed", "panicked"}
    /\ fatal \in {"none", "flooded", "parse"}

ReaderTypes ==
    /\ reader \in {"read", "skip", "offer", "reject", "malformed", "exit", "gone"}
    /\ held \in Requests \union {NoRequest}
    /\ carried \in BOOLEAN /\ abandoned \in BOOLEAN
    /\ exit \in {"none", "eof", "woken", "failed", "panicked"}
    /\ frames \in 0..MaxFrames

ServerTypes ==
    /\ server \in {"next", "begin", "plan", "apply", "retire", "write", "fatal",
                   "stopInLoop", "wakeInLoop", "stop", "wake", "reap", "drain",
                   "answer", "join", "done"}
    /\ drained \in Seq(ItemType) /\ item \in ItemType
    /\ response \in Codes \union {"none"}
    /\ stopped \in BOOLEAN /\ firstError \in BOOLEAN /\ failed \in BOOLEAN /\ reaped \in BOOLEAN
    /\ output \in Seq([ticket : Nat, id : Ids \union {NoId}, code : Codes])
    /\ result \in {"none", "ok", "error"}

LEMMA TypesSplit ==
    /\ TypeOK <=> (input \in Inputs /\ wakes \in 0..2 /\ ControlTypes /\ ReaderTypes /\ ServerTypes)
    /\ TypeOK' <=> (input' \in Inputs /\ wakes' \in 0..2
                      /\ ControlTypes' /\ ReaderTypes' /\ ServerTypes')
<1>1. TypeOK <=> (input \in Inputs /\ wakes \in 0..2 /\ ControlTypes /\ ReaderTypes /\ ServerTypes)
  BY Zenon DEF TypeOK, ControlTypes, ReaderTypes, ServerTypes
<1>2. TypeOK' <=> (input' \in Inputs /\ wakes' \in 0..2
                      /\ ControlTypes' /\ ReaderTypes' /\ ServerTypes')
  BY Zenon DEF TypeOK, ControlTypes, ReaderTypes, ServerTypes
<1> QED
  BY <1>1, <1>2

LEMMA ControlUnchanged == ControlTypes /\ UNCHANGED controlVars => ControlTypes'
BY DEF ControlTypes, controlVars, counters, ledger

LEMMA ServerUnchanged == ServerTypes /\ UNCHANGED serverVars => ServerTypes'
BY DEF ServerTypes, serverVars

LEMMA ReaderUnchanged == ReaderTypes /\ UNCHANGED readerVars => ReaderTypes'
BY DEF ReaderTypes, readerVars

(* The reader between two calls of Control: `read_frame`, `drain_body` and a *)
(* wake that reaches it.                                                     *)
LEMMA ReaderReads ==
    ASSUME IInv, UNCHANGED input,
           \/ \E r \in Requests : ReadRequest(r)
           \/ ReadInvalid \/ ReadOversize \/ SkipDone \/ ReadMalformed \/ ReadEof
           \/ ReadFails \/ Woken
    PROVE  IInv'
<1>1. TypeOK /\ ControlTypes /\ ReaderTypes /\ ServerTypes /\ input \in Inputs /\ wakes \in 0..2
  BY TypesSplit DEF IInv
<1>2. UNCHANGED <<controlVars, serverVars>> /\ wakes' \in 0..2 /\ wakes' <= wakes
  BY <1>1 DEF ReadRequest, ReadInvalid, ReadOversize, SkipDone, ReadMalformed, ReadEof,
              ReadFails, Woken
<1>3. ReaderTypes'
  <2>1. /\ reader' \in {"read", "skip", "offer", "reject", "malformed", "exit", "gone"}
        /\ exit' \in {"none", "eof", "woken", "failed", "panicked"}
    BY <1>1 DEF ReaderTypes, ReadRequest, ReadInvalid, ReadOversize, SkipDone, ReadMalformed,
                ReadEof, ReadFails, Woken, Leave
  <2>2. held' \in Requests \union {NoRequest} /\ frames' \in 0..MaxFrames /\ abandoned' = abandoned
    BY <1>1, ServerAssumption DEF ReaderTypes, ReadRequest, ReadInvalid, ReadOversize, SkipDone,
                ReadMalformed, ReadEof, ReadFails, Woken, Leave
  <2>3. carried' \in BOOLEAN
    <3>1. carried' = carried \/ carried' = InLoop
      BY DEF ReadRequest, ReadInvalid, ReadOversize, SkipDone,
             ReadMalformed, ReadEof, ReadFails, Woken, Leave
    <3>2. carried \in BOOLEAN /\ InLoop \in BOOLEAN
      BY <1>1 DEF ReaderTypes, InLoop
    <3> QED
      BY <3>1, <3>2, Zenon
  <2> QED
    BY <1>1, <2>1, <2>2, <2>3 DEF ReaderTypes
<1>4. ControlTypes' /\ ServerTypes'
  BY <1>1, <1>2, ControlUnchanged, ServerUnchanged
<1>5. TypeOK'
  BY <1>1, <1>2, <1>3, <1>4, TypesSplit
<1>6. /\ UNCHANGED <<queue, counters, outstanding, precancelled, executing, owed, serverVars>>
      /\ nextTicket' >= nextTicket /\ stop' = stop
  BY <1>1, <1>2 DEF controlVars, counters, ledger, ControlTypes
<1> QED
  BY <1>2, <1>5, <1>6, QuietStep

(* `queue_reject_locked` for a fresh ticket, with the identifier kept by its *)
(* holder or reserved for the answer: a full partition ends the session and  *)
(* leaves the ledger as it was.                                              *)
LEMMA RejectStep ==
    ASSUME IInv, ~Halted, NEW i \in Ids \cup {NoId}, NEW err \in {"invalid", "full", "bad"},
           NEW adm, NEW out,
           \/ out = outstanding
           \/ /\ i \in Ids /\ outstanding[i] = 0
              /\ out = [k \in Ids |-> IF k = i THEN nextTicket ELSE outstanding[k]],
           QueueRejectLocked(i, err, adm, out),
           nextTicket' = nextTicket + 1, waiting' = FALSE,
           UNCHANGED <<queuedWork, queuedBytes, precancelled, executing, cancelled, readerExit>>,
           UNCHANGED <<input, wakes, serverVars>>, ReaderTypes'
    PROVE  IInv'
<1> DEFINE e == Reject(nextTicket, i, err)
<1>1. TypeOK /\ ControlTypes /\ ServerTypes /\ ServerTypes' /\ input' \in Inputs /\ wakes' \in 0..2
      /\ wakes' <= wakes
  BY TypesSplit, ServerUnchanged DEF IInv
<1>2. nextTicket \in Nat \ {0} /\ outstanding \in [Ids -> Nat] /\ nextTicket' \in Nat \ {0}
      /\ nextTicket' >= nextTicket
  BY <1>1 DEF ControlTypes
<1>3. out \in [Ids -> Nat]
  BY <1>2
<1>4. e \in ItemType /\ e.kind = "reject" /\ e.ticket = nextTicket /\ e.error # "none" /\ e.id = i
  BY <1>2 DEF Reject, ItemType
<1>5. CASE queuedRejects >= MaxRejects
  <2>1. /\ outstanding' = [k \in Ids |-> IF out[k] = nextTicket THEN 0 ELSE out[k]]
        /\ stop' = TRUE /\ fatal' = "flooded"
        /\ UNCHANGED <<queue, queuedRejects, owed>>
    BY <1>5 DEF QueueRejectLocked
  <2>2. \A k \in Ids : outstanding[k] # nextTicket
    BY <1>2 DEF IInv, Ledger
  <2>3. outstanding' = outstanding
    BY <1>2, <1>3, <2>1, <2>2
  <2>4. ControlTypes'
    BY <1>1, <1>2, <2>1, <2>3 DEF ControlTypes
  <2>5. TypeOK'
    BY <1>1, <2>4, TypesSplit
  <2>6. UNCHANGED <<queue, counters, outstanding, precancelled, executing, owed, serverVars>>
    BY <2>1, <2>3 DEF counters
  <2> QED
    BY <1>1, <1>2, <2>1, <2>5, <2>6, QuietStep
<1>6. CASE ~(queuedRejects >= MaxRejects)
  <2>1. /\ outstanding' = out /\ queuedRejects' = queuedRejects + 1
        /\ queue' = Append(queue, e) /\ owed' = owed \union {nextTicket}
        /\ UNCHANGED <<stop, fatal>>
    BY <1>6 DEF QueueRejectLocked
  <2>2. queue' \in Seq(ItemType)
    BY <1>1, <1>4, <2>1, ItemsAppend DEF ControlTypes
  <2>3. ControlTypes'
    <3>1. queuedRejects' \in Nat /\ owed' \subseteq Nat \ {0}
      BY <1>1, <1>2, <2>1 DEF ControlTypes
    <3>2. outstanding' \in [Ids -> Nat]
      BY <1>3, <2>1
    <3> QED
      BY <1>1, <1>2, <2>1, <2>2, <3>1, <3>2 DEF ControlTypes
  <2>4. TypeOK'
    BY <1>1, <2>3, TypesSplit
  <2>5. queuedRejects < MaxRejects
    BY <1>1, <1>6, ControlAssumption DEF ControlTypes
  <2>6. Counting'
    BY <1>1, <1>4, <2>1, <2>5, CountReject DEF IInv
  <2>7. ~stop /\ Owes(e)
    BY <1>4 DEF Halted, Owes
  <2>8. \A k \in Ids : \/ outstanding'[k] = outstanding[k]
                       \/ /\ outstanding[k] = 0 /\ outstanding'[k] = nextTicket
                          /\ e.ticket = nextTicket /\ e.id = k
    BY <1>2, <1>4, <2>1
  <2>9. owed' = IF Owes(e) THEN owed \cup {e.ticket} ELSE owed
    BY <1>4, <2>1, <2>7
  <2> HIDE DEF e
  <2> QED
    BY <1>4, <2>1, <2>4, <2>6, <2>7, <2>8, <2>9, Enqueue
<1> QED
  BY <1>5, <1>6

(* `offer` of a `$/cancelRequest`: the request that runs has its token set,  *)
(* one that waits is marked, and no other ticket is touched.                 *)
LEMMA CancelStep ==
    ASSUME IInv, NEW r \in Requests, NEW adm, OfferCancel(r, adm),
           UNCHANGED <<input, wakes, serverVars>>, ReaderTypes'
    PROVE  IInv'
<1>1. TypeOK /\ ControlTypes /\ ServerTypes /\ ServerTypes' /\ input' \in Inputs /\ wakes' \in 0..2
  BY TypesSplit, ServerUnchanged DEF IInv
<1>2. /\ UNCHANGED <<queue, counters, outstanding, executing, nextTicket, stop, readerExit,
                     fatal, owed>>
      /\ waiting' = FALSE
  BY DEF OfferCancel, Notify
<1>3. outstanding \in [Ids -> Nat] /\ executing \in Nat /\ precancelled \subseteq Nat \ {0}
  BY <1>1 DEF ControlTypes
<1>4. r.target \in Ids \cup {NoId}
  BY DEF Requests
<1>5. /\ precancelled' \subseteq Nat \ {0} /\ cancelled' \in BOOLEAN
      /\ executing \notin precancelled'
      /\ \A t \in precancelled' : \E i \in Ids : outstanding[i] = t
  <2>1. executing \notin precancelled /\ \A t \in precancelled : \E i \in Ids : outstanding[i] = t
    BY DEF IInv, Ledger, CancellationIsLive
  <2>2. cancelled \in BOOLEAN
    BY <1>1 DEF ControlTypes
  <2>3. CASE r.target = NoId
    BY <1>3, <2>1, <2>2, <2>3 DEF OfferCancel
  <2>4. CASE r.target # NoId
    <3>1. CancelLocked(r.target) /\ r.target \in Ids
      BY <1>4, <2>4 DEF OfferCancel
    <3>2. CASE executing # 0 /\ outstanding[r.target] = executing
      BY <1>3, <2>1, <3>1, <3>2 DEF CancelLocked
    <3>3. CASE ~(executing # 0 /\ outstanding[r.target] = executing)
      <4>1. precancelled' = precancelled \union ({outstanding[r.target]} \ {0})
            /\ cancelled' = cancelled
        BY <3>1, <3>3 DEF CancelLocked
      <4>2. outstanding[r.target] \in Nat
        BY <1>3, <3>1
      <4>3. precancelled' \subseteq Nat \ {0} /\ cancelled' \in BOOLEAN
        BY <1>3, <2>2, <4>1, <4>2
      <4>4. executing \notin precancelled'
        BY <2>1, <3>3, <4>1
      <4>5. \A t \in precancelled' : \E i \in Ids : outstanding[i] = t
        BY <2>1, <3>1, <4>1
      <4> QED
        BY <4>3, <4>4, <4>5
    <3> QED
      BY <3>2, <3>3
  <2> QED
    BY <2>3, <2>4
<1>6. ControlTypes'
  BY <1>1, <1>2, <1>5 DEF ControlTypes, counters
<1>7. TypeOK'
  BY <1>1, <1>6, TypesSplit
<1>8. Unanswered' = Unanswered /\ Answered' = Answered /\ InHand' = InHand
  BY <1>2 DEF Unanswered, Answered, InHand, Items, serverVars
<1>9. Counting' /\ Shapes' /\ Order' /\ ObligationsConserved'
  BY <1>2, <1>8 DEF IInv, Counting, QueueCounts, OfKind, Items, BytesOf, Shapes, Shaped, Order,
                    Ordered, ResponsesInOrder, ObligationsConserved, Owes, counters, serverVars
<1>10. Points'
  BY <1>2, <1>8 DEF IInv, Points, Owes, serverVars
<1>11. Ledger'
  BY <1>2, <1>5, <1>8 DEF IInv, Ledger, CancellationIsLive, IdentifierHasOwner, serverVars
<1> QED
  BY <1>7, <1>9, <1>10, <1>11 DEF IInv

(* `offer` of the shutdown and exit notifications.                           *)
LEMMA ControlStep ==
    ASSUME IInv, ~Halted, NEW r \in Requests, NEW adm, OfferControl(r, adm),
           UNCHANGED <<input, wakes, serverVars>>, ReaderTypes'
    PROVE  IInv'
<1> DEFINE e == Ctrl(r.method)
<1>1. TypeOK /\ ControlTypes /\ ServerTypes /\ ServerTypes' /\ input' \in Inputs /\ wakes' \in 0..2
      /\ wakes' <= wakes
  BY TypesSplit, ServerUnchanged DEF IInv
<1>2. /\ r.method \in {"shutdown", "exit"} /\ waiting' = FALSE
      /\ UNCHANGED <<counters, ledger, nextTicket, stop, readerExit, fatal, owed>>
  BY DEF OfferControl, Notify
<1>3. nextTicket \in Nat
  BY <1>1 DEF ControlTypes
<1>4. CASE \E k \in 1..Len(queue) : queue[k].kind = r.method
  <2>1. queue' = queue
    BY <1>4 DEF OfferControl
  <2>2. ControlTypes'
    BY <1>1, <1>2, <2>1 DEF ControlTypes, counters, ledger
  <2>3. TypeOK'
    BY <1>1, <2>2, TypesSplit
  <2> QED
    BY <1>1, <1>2, <1>3, <2>1, <2>3, QuietStep DEF ledger
<1>5. CASE ~(\E k \in 1..Len(queue) : queue[k].kind = r.method)
  <2>1. queue' = Append(queue, e)
    BY <1>5 DEF OfferControl
  <2>2. e \in ItemType /\ e.kind = r.method /\ e.ticket = 0
    BY <1>2 DEF Ctrl, ItemType
  <2>3. queue' \in Seq(ItemType)
    BY <1>1, <2>1, <2>2, ItemsAppend DEF ControlTypes
  <2>4. ControlTypes'
    BY <1>1, <1>2, <2>3 DEF ControlTypes, counters, ledger
  <2>5. TypeOK'
    BY <1>1, <2>4, TypesSplit
  <2>6. Counting'
    BY <1>1, <1>2, <1>5, <2>1, CountControl DEF IInv
  <2>7. ~stop /\ ~Owes(e) /\ e.kind # "reject"
    BY <1>2, <2>2 DEF Halted, Owes
  <2>8. UNCHANGED <<precancelled, executing, stop, wakes, serverVars>> /\ outstanding' = outstanding
        /\ owed' = IF Owes(e) THEN owed \cup {e.ticket} ELSE owed
    BY <1>2, <2>7 DEF ledger
  <2> HIDE DEF e
  <2> QED
    BY <1>2, <2>1, <2>2, <2>5, <2>6, <2>7, <2>8, Enqueue
<1> QED
  BY <1>4, <1>5

(* `offer` of a request, or of a notification to run, that finds room.       *)
LEMMA WorkStep ==
    ASSUME IInv, ~Halted, NEW r \in Requests, NEW adm, OfferWork(r, adm),
           UNCHANGED <<input, wakes, serverVars>>, ReaderTypes'
    PROVE  IInv'
<1> DEFINE e == Work(nextTicket, r)
<1>1. TypeOK /\ ControlTypes /\ ServerTypes /\ ServerTypes' /\ input' \in Inputs /\ wakes' \in 0..2
  BY TypesSplit, ServerUnchanged DEF IInv
<1>2. nextTicket \in Nat \ {0} /\ outstanding \in [Ids -> Nat]
  BY <1>1 DEF ControlTypes
<1>3. /\ r.id \in Ids \cup {NoId} /\ r.bytes \in Nat /\ r.method \in {"work", "shutdown"}
      /\ (r.id \in Ids => outstanding[r.id] = 0)
  BY ControlAssumption DEF OfferWork, Admissible, Requests
<1>4. e \in ItemType /\ e.kind = "work" /\ e.ticket = nextTicket /\ e.id = r.id /\ e.bytes = r.bytes
  BY <1>2, <1>3 DEF Work, ItemType
<1>5. /\ Room(e.bytes) /\ outstanding' = Reserve(r, nextTicket)
      /\ queuedWork' = queuedWork + 1 /\ queuedBytes' = queuedBytes + e.bytes
      /\ queue' = Append(queue, e)
      /\ owed' = (IF r.id = NoId THEN owed ELSE owed \union {nextTicket})
      /\ nextTicket' = nextTicket + 1 /\ waiting' = FALSE
      /\ UNCHANGED <<queuedRejects, precancelled, executing, cancelled, stop, readerExit, fatal>>
  BY <1>4 DEF OfferWork, Notify
<1>6. queue' \in Seq(ItemType) /\ outstanding' \in [Ids -> Nat] /\ owed' \subseteq Nat \ {0}
  <2>1. queue' \in Seq(ItemType)
    BY <1>1, <1>4, <1>5, ItemsAppend DEF ControlTypes
  <2>2. outstanding' \in [Ids -> Nat]
    BY <1>2, <1>5 DEF Reserve
  <2>3. owed' \subseteq Nat \ {0}
    BY <1>1, <1>2, <1>5 DEF ControlTypes
  <2> QED
    BY <2>1, <2>2, <2>3
<1>7. ControlTypes'
  <2>1. queuedWork' \in Nat /\ queuedBytes' \in Nat /\ nextTicket' \in Nat \ {0}
    BY <1>1, <1>2, <1>3, <1>4, <1>5 DEF ControlTypes
  <2> QED
    BY <1>1, <1>5, <1>6, <2>1 DEF ControlTypes
<1>8. TypeOK'
  BY <1>1, <1>7, TypesSplit
<1>9. Counting'
  BY <1>1, <1>4, <1>5, CountWork DEF IInv
<1>10. ~stop /\ (Owes(e) <=> r.id # NoId) /\ e.kind # "reject"
  BY <1>4 DEF Halted, Owes
<1>11. \A i \in Ids : \/ outstanding'[i] = outstanding[i]
                      \/ /\ outstanding[i] = 0 /\ outstanding'[i] = nextTicket
                         /\ e.ticket = nextTicket /\ e.id = i
  BY <1>2, <1>3, <1>4, <1>5 DEF Reserve
<1>12. owed' = IF Owes(e) THEN owed \cup {e.ticket} ELSE owed
  BY <1>4, <1>5, <1>10
<1> HIDE DEF e
<1> QED
  BY <1>4, <1>5, <1>8, <1>9, <1>10, <1>11, <1>12, Enqueue

(* `offer`, whatever the frame holds and whatever it returns.                *)
LEMMA OfferStep ==
    ASSUME IInv, NEW r \in Requests \cup {NoRequest}, NEW adm, Offer(r, adm),
           UNCHANGED <<input, wakes, serverVars>>, ReaderTypes'
    PROVE  IInv'
<1>1. TypeOK /\ ControlTypes /\ ServerTypes /\ ServerTypes' /\ input' \in Inputs /\ wakes' \in 0..2
      /\ wakes' <= wakes /\ nextTicket \in Nat \ {0} /\ outstanding \in [Ids -> Nat]
  BY TypesSplit, ServerUnchanged DEF IInv, ControlTypes
<1>2. CASE OfferHalted(adm)
  <2>1. UNCHANGED controlVars
    BY <1>2 DEF OfferHalted
  <2>2. TypeOK'
    BY <1>1, <2>1, ControlUnchanged, TypesSplit
  <2> QED
    BY <1>1, <2>1, <2>2, QuietStep DEF controlVars, counters, ledger
<1>3. CASE ~Halted /\ OfferCancel(r, adm)
  <2>1. r \in Requests
    BY <1>3 DEF OfferCancel, NoRequest
  <2> QED
    BY <1>3, <2>1, CancelStep
<1>4. CASE ~Halted /\ OfferControl(r, adm)
  <2>1. r \in Requests
    BY <1>4 DEF OfferControl, NoRequest
  <2> QED
    BY <1>4, <2>1, ControlStep
<1>5. CASE ~Halted /\ OfferWork(r, adm)
  <2>1. r \in Requests
    BY <1>5 DEF OfferWork, Admissible, NoRequest
  <2> QED
    BY <1>5, <2>1, WorkStep
<1>6. CASE ~Halted /\ OfferBadId(r, adm)
  <2> DEFINE i == IF r.id \in LongIds THEN NoId ELSE r.id
  <2>1. /\ QueueRejectLocked(i, "invalid", adm, outstanding)
        /\ nextTicket' = nextTicket + 1 /\ waiting' = FALSE
        /\ UNCHANGED <<queuedWork, queuedBytes, precancelled, executing, cancelled, readerExit>>
    BY <1>6 DEF OfferBadId, Notify
  <2>2. i \in Ids \cup {NoId}
    BY <1>6 DEF OfferBadId, Requests, NoRequest
  <2> HIDE DEF i
  <2> QED
    BY <1>6, <2>1, <2>2, RejectStep
<1>7. CASE ~Halted /\ OfferFull(r, adm)
  <2>1. CASE r.id = NoId
    <3>1. /\ UNCHANGED <<queue, queuedRejects, outstanding, stop, fatal, waiting, owed>>
          /\ nextTicket' = nextTicket + 1
          /\ UNCHANGED <<queuedWork, queuedBytes, precancelled, executing, cancelled, readerExit>>
      BY <1>7, <2>1 DEF OfferFull
    <3>2. nextTicket' \in Nat \ {0} /\ nextTicket' >= nextTicket
      BY <1>1, <3>1
    <3>3. ControlTypes'
      BY <1>1, <3>1, <3>2 DEF ControlTypes
    <3>4. TypeOK'
      BY <1>1, <3>3, TypesSplit
    <3> QED
      BY <1>1, <3>1, <3>2, <3>4, QuietStep DEF counters
  <2>2. CASE r.id # NoId
    <3>1. /\ QueueRejectLocked(r.id, "full", adm, Reserve(r, nextTicket))
          /\ nextTicket' = nextTicket + 1 /\ waiting' = FALSE
          /\ UNCHANGED <<queuedWork, queuedBytes, precancelled, executing, cancelled, readerExit>>
      BY <1>7, <2>2 DEF OfferFull, Notify
    <3>2. r.id \in Ids /\ outstanding[r.id] = 0
      BY <1>7, <2>2 DEF OfferFull, Admissible, Requests, NoRequest
    <3>3. Reserve(r, nextTicket)
            = [k \in Ids |-> IF k = r.id THEN nextTicket ELSE outstanding[k]]
      BY DEF Reserve
    <3> DEFINE out == Reserve(r, nextTicket)
    <3> HIDE DEF out
    <3>4. QueueRejectLocked(r.id, "full", adm, out)
      BY <3>1 DEF out
    <3>5. out = [k \in Ids |-> IF k = r.id THEN nextTicket ELSE outstanding[k]]
      BY <3>3 DEF out
    <3> QED
      BY <1>7, <3>1, <3>2, <3>4, <3>5, RejectStep
  <2> QED
    BY <2>1, <2>2
<1> QED
  BY <1>2, <1>3, <1>4, <1>5, <1>6, <1>7 DEF Offer

(* The reader's calls of Control.                                            *)
LEMMA ReaderCalls ==
    ASSUME IInv, UNCHANGED input,
           ReaderOffer \/ ReaderReject \/ ReaderMalformed \/ ReaderExit
    PROVE  IInv'
<1>1. TypeOK /\ ControlTypes /\ ReaderTypes /\ ServerTypes /\ input' \in Inputs
      /\ wakes \in 0..2 /\ nextTicket \in Nat \ {0}
  BY TypesSplit DEF IInv, ControlTypes
<1>2. UNCHANGED <<input, wakes, serverVars>> /\ ServerTypes' /\ wakes' \in 0..2 /\ wakes' <= wakes
  <2>1. UNCHANGED <<input, wakes, serverVars>>
    BY DEF ReaderOffer, ReaderReject, ReaderMalformed, ReaderExit
  <2> QED
    BY <1>1, <2>1, ServerUnchanged
<1>3. CASE ReaderOffer
  <2>1. ReaderTypes'
    BY <1>1, <1>3, Zenon DEF ReaderOffer, ReaderTypes, Leave
  <2>2. PICK adm : Offer(held, adm)
    BY <1>3 DEF ReaderOffer
  <2>3. held \in Requests \cup {NoRequest}
    BY <1>1 DEF ReaderTypes
  <2> QED
    BY <1>2, <2>1, <2>2, <2>3, OfferStep
<1>4. CASE ReaderReject
  <2>1. ReaderTypes'
    BY <1>1, <1>4, Zenon DEF ReaderReject, ReaderTypes, Leave
  <2>2. PICK adm : RejectFrame(adm)
    BY <1>4 DEF ReaderReject
  <2>3. CASE OfferHalted(adm)
    <3>1. UNCHANGED controlVars
      BY <2>3 DEF OfferHalted
    <3>2. TypeOK'
      BY <1>1, <1>2, <2>1, <3>1, ControlUnchanged, TypesSplit
    <3> QED
      BY <1>1, <1>2, <3>1, <3>2, QuietStep DEF controlVars, counters, ledger
  <2>4. CASE ~Halted /\ ~OfferHalted(adm)
    <3>1. /\ QueueRejectLocked(NoId, "bad", adm, outstanding)
          /\ nextTicket' = nextTicket + 1 /\ waiting' = FALSE
          /\ UNCHANGED <<queuedWork, queuedBytes, precancelled, executing, cancelled, readerExit>>
      BY <2>2, <2>4 DEF RejectFrame, Notify
    <3>2. NoId \in Ids \cup {NoId} /\ "bad" \in {"invalid", "full", "bad"}
      OBVIOUS
    <3> QED
      BY <1>2, <2>1, <2>4, <3>1, <3>2, RejectStep
  <2> QED
    BY <2>2, <2>3, <2>4 DEF RejectFrame
<1>5. CASE ReaderMalformed
  <2>1. ReaderTypes'
    BY <1>1, <1>5, Zenon DEF ReaderMalformed, ReaderTypes, Leave
  <2>2. /\ stop' = TRUE /\ waiting' = FALSE /\ fatal' \in {"none", "flooded", "parse"}
        /\ UNCHANGED <<queue, counters, ledger, nextTicket, readerExit, owed>>
    BY <1>1, <1>5 DEF ReaderMalformed, Fatal, Notify, ControlTypes
  <2>3. ControlTypes'
    BY <1>1, <2>2 DEF ControlTypes, counters, ledger
  <2>4. TypeOK'
    BY <1>1, <1>2, <2>1, <2>3, TypesSplit
  <2> QED
    BY <1>1, <1>2, <2>2, <2>4, QuietStep DEF ledger
<1>6. CASE ReaderExit
  <2>1. ReaderTypes'
    BY <1>1, <1>6, Zenon DEF ReaderExit, ReaderTypes
  <2>2. /\ waiting' = FALSE /\ readerExit' \in {"none", "eof", "woken", "failed", "panicked"}
        /\ UNCHANGED <<queue, counters, ledger, nextTicket, stop, fatal, owed>>
    BY <1>1, <1>6 DEF ReaderExit, ReaderExited, Notify, ControlTypes, ReaderTypes
  <2>3. ControlTypes'
    BY <1>1, <2>2 DEF ControlTypes, counters, ledger
  <2>4. TypeOK'
    BY <1>1, <1>2, <2>1, <2>3, TypesSplit
  <2> QED
    BY <1>1, <1>2, <2>2, <2>4, QuietStep DEF ledger
<1> QED
  BY <1>3, <1>4, <1>5, <1>6

-----------------------------------------------------------------------------
(* A step of the serving thread from one program point to another that keeps *)
(* the item in hand; `begin` may settle a cancellation on the way.           *)
LEMMA MoveStep ==
    ASSUME IInv, TypeOK', Points',
           UNCHANGED <<queue, counters, outstanding, nextTicket, owed, item, drained, output,
                       firstError>>,
           precancelled' \subseteq precancelled, executing' \notin precancelled',
           InHand' = InHand, server' # "write", server' = "done" => Unanswered = {}
    PROVE  IInv'
<1> USE DEF IInv, counters
<1>1. Unanswered' = Unanswered /\ Answered' = Answered
  BY DEF Unanswered, Answered, Items
<1>2. Counting'
  BY DEF Counting, QueueCounts, OfKind, Items, BytesOf
<1>3. Shapes'
  BY <1>1 DEF Shapes, Shaped
<1>4. Order'
  BY <1>1 DEF Order, Ordered, ResponsesInOrder, Items
<1>5. Ledger'
  <2>1. IdentifierHasOwner'
    BY <1>1 DEF Ledger, IdentifierHasOwner
  <2> QED
    BY <2>1 DEF Ledger, CancellationIsLive
<1>6. ObligationsConserved'
  <2>1. ~firstError => owed = Answered \union {d.ticket : d \in {u \in Unanswered : Owes(u)}}
    BY DEF ObligationsConserved
  <2>2. (server' = "done" /\ ~firstError) => owed = Answered
    BY <2>1
  <2> QED
    BY <1>1, <2>1, <2>2 DEF ObligationsConserved, Owes
<1> QED
  BY <1>2, <1>3, <1>4, <1>5, <1>6

(* `retire` frees what its ticket holds and nothing else, and takes the      *)
(* cancellation mark with it.                                                *)
LEMMA RetireLedger ==
    ASSUME TypeOK, Ledger, NEW t \in Nat \ {0}, NEW i, Retire(t, i)
    PROVE  /\ ControlTypes'
           /\ CancellationIsLive'
           /\ executing' \notin precancelled'
           /\ \A k \in Ids : outstanding'[k] = outstanding[k] \/ outstanding'[k] = 0
           /\ i \in Ids => outstanding'[i] # t
<1>1. ControlTypes /\ outstanding \in [Ids -> Nat] /\ precancelled \subseteq Nat \ {0}
      /\ executing \in Nat /\ cancelled \in BOOLEAN
  BY TypesSplit DEF ControlTypes
<1>2. /\ outstanding' = [k \in Ids |-> IF k = i /\ outstanding[k] = t THEN 0 ELSE outstanding[k]]
      /\ executing' = (IF executing = t THEN 0 ELSE executing)
      /\ cancelled' = (IF executing = t THEN FALSE ELSE cancelled)
      /\ precancelled' = precancelled \ {t}
      /\ UNCHANGED <<queue, counters, nextTicket, stop, readerExit, fatal, waiting, owed>>
  BY DEF Retire
<1>3. ControlTypes'
  <2>1. outstanding' \in [Ids -> Nat] /\ precancelled' \subseteq Nat \ {0} /\ executing' \in Nat
    BY <1>1, <1>2
  <2>2. cancelled' \in BOOLEAN
    BY <1>1, <1>2
  <2> QED
    BY <1>1, <1>2, <2>1, <2>2 DEF ControlTypes, counters
<1>4. CancellationIsLive'
  <2> SUFFICES ASSUME NEW u \in precancelled, u # t
               PROVE  \E k \in Ids : outstanding'[k] = u
    BY <1>2 DEF CancellationIsLive
  <2>1. PICK k \in Ids : outstanding[k] = u
    BY DEF Ledger, CancellationIsLive
  <2> QED
    BY <1>1, <1>2, <2>1
<1>5. executing' \notin precancelled'
  BY <1>1, <1>2 DEF Ledger
<1> QED
  BY <1>1, <1>2, <1>3, <1>4, <1>5

(* `write_terminal`: the response is the last one, or there is an error.     *)
LEMMA WriteStep ==
    ASSUME TypeOK, ResponsesInOrder, NEW t \in Nat, NEW i \in Ids \cup {NoId}, NEW code \in Codes,
           \/ WriteTerminal(t, i, code)
           \/ /\ output' = Append(output, [ticket |-> t, id |-> i, code |-> code])
              /\ firstError' = TRUE,
           t # 0 => \A a \in Answered : a < t
    PROVE  /\ output' \in Seq([ticket : Nat, id : Ids \union {NoId}, code : Codes])
           /\ firstError' \in BOOLEAN
           /\ ResponsesInOrder'
           /\ Answered \subseteq Answered' /\ Answered' \subseteq Answered \cup ({t} \ {0})
           /\ ~firstError' => ~firstError /\ Answered' = Answered \cup ({t} \ {0})
<1> DEFINE R == [ticket : Nat, id : Ids \union {NoId}, code : Codes]
           r == [ticket |-> t, id |-> i, code |-> code]
<1>1. output \in Seq(R) /\ firstError \in BOOLEAN
  BY DEF TypeOK
<1>2. r \in R
  OBVIOUS
<1>3. firstError' \in BOOLEAN
  BY <1>1, Zenon DEF WriteTerminal
<1> HIDE DEF R
<1>4. CASE output' = Append(output, r)
  <2> HIDE DEF r
  <2>1. /\ output' \in Seq(R)
        /\ Len(output') = Len(output) + 1 /\ Len(output) \in Nat
        /\ \A k \in 1..Len(output) : output'[k] = output[k]
        /\ output'[Len(output) + 1] = r
        /\ Items(output') = Items(output) \cup {r}
    BY <1>1, <1>2, <1>4, ItemsAppend
  <2>2. Answered = {x.ticket : x \in Items(output)} \ {0}
    BY DEF Answered, Items
  <2>3. Answered' = {x.ticket : x \in Items(output')} \ {0}
    BY DEF Answered, Items
  <2>4. Answered' = Answered \cup ({t} \ {0})
    <3>1. r.ticket = t
      BY DEF r
    <3> QED
      BY <2>1, <2>2, <2>3, <3>1
  <2>5. ResponsesInOrder'
    <3> SUFFICES ASSUME NEW j \in 1..Len(output'), NEW k \in 1..Len(output'), j < k,
                        output'[j].ticket # 0, output'[k].ticket # 0
                 PROVE  output'[j].ticket < output'[k].ticket
      BY DEF ResponsesInOrder
    <3>1. j \in 1..Len(output) /\ output'[j] = output[j]
      BY <2>1
    <3>2. CASE k \in 1..Len(output)
      BY <2>1, <3>1, <3>2 DEF ResponsesInOrder
    <3>3. CASE k = Len(output) + 1
      <4>1. output[j].ticket \in Answered
        BY <3>1 DEF Answered
      <4> QED
        BY <2>1, <3>1, <3>3, <4>1 DEF r
    <3> QED
      BY <2>1, <3>2, <3>3
  <2>6. ~firstError' => ~firstError
    BY <1>1, <1>3 DEF WriteTerminal
  <2> QED
    BY <1>3, <2>1, <2>4, <2>5, <2>6 DEF R
<1>5. CASE output' # Append(output, r)
  <2>1. output' = output /\ firstError'
    BY <1>1, <1>5 DEF WriteTerminal
  <2>2. Answered' = Answered /\ ResponsesInOrder'
    BY <2>1 DEF Answered, ResponsesInOrder
  <2> QED
    BY <1>1, <1>3, <2>1, <2>2 DEF R
<1> QED
  BY <1>4, <1>5

(* The steps of the serving thread that move from one point to another:      *)
(* `next` without an item, `begin`, plan and apply, stop and wake, the wait  *)
(* for the reader, the second look and the join.                             *)
LEMMA ServerMoves ==
    ASSUME IInv, UNCHANGED input,
           \/ ServeNextFatal \/ ServeReaderExited \/ ServeWait \/ ServeBegin \/ ServePlan
           \/ ServeApply \/ ServeStop \/ ServeWake \/ ServeReap \/ ServeRecheck \/ ServeJoin
    PROVE  IInv'
<1>1. TypeOK /\ ControlTypes /\ ReaderTypes /\ ServerTypes /\ input' \in Inputs /\ wakes \in 0..2
  BY TypesSplit DEF IInv
<1>2. ReaderTypes'
  <2>1. UNCHANGED readerVars
    BY DEF ServeNextFatal, ServeReaderExited, ServeWait, ServeBegin, ServePlan, ServeApply,
           ServeStop, ServeWake, ServeReap, ServeRecheck, ServeJoin
  <2> QED
    BY <1>1, <2>1, ReaderUnchanged
<1>3. item \in ItemType /\ executing \notin precancelled /\ Points /\ item.ticket \in Nat
      /\ item.id \in Ids \cup {NoId}
  BY <1>1 DEF IInv, Ledger, ServerTypes, ItemType
<1>4. CASE ServeNextFatal
  <2>1. /\ UNCHANGED <<queue, counters, outstanding, nextTicket, owed, item, drained, output,
                       firstError>>
        /\ precancelled' \subseteq precancelled /\ executing' \notin precancelled'
    BY <1>3, <1>4 DEF ServeNextFatal, NextFatal, controlVars, ledger, serverVars
  <2>2. ControlTypes' /\ wakes' \in 0..2
    BY <1>1, <1>3, <1>4, <2>1 DEF ServeNextFatal, NextFatal, ControlTypes, controlVars, counters, ledger, Points
  <2>3. ServerTypes'
    BY <1>1, <1>4, <2>1 DEF ServeNextFatal, NextFatal, ServerTypes, ControlTypes, serverVars, Codes
  <2>4. TypeOK'
    BY <1>1, <1>2, <2>2, <2>3, TypesSplit
  <2>5. /\ InHand' = InHand /\ server' # "write" /\ (server' = "done" => Unanswered = {})
    BY <1>3, <1>4, ItemsEmpty DEF ServeNextFatal, InHand, Unanswered, Points, serverVars
  <2>6. Points'
    BY <1>1, <1>3, <1>4, <2>1, <2>5 DEF ServeNextFatal, NextFatal, Points, Owes, InHand, Answer, serverVars,
           controlVars, ControlTypes
  <2> QED
    BY <2>1, <2>4, <2>5, <2>6, MoveStep
<1>5. CASE ServeReaderExited
  <2>1. /\ UNCHANGED <<queue, counters, outstanding, nextTicket, owed, item, drained, output,
                       firstError>>
        /\ precancelled' \subseteq precancelled /\ executing' \notin precancelled'
    BY <1>3, <1>5 DEF ServeReaderExited, NextReaderExited, controlVars, ledger, serverVars
  <2>2. ControlTypes' /\ wakes' \in 0..2
    BY <1>1, <1>3, <1>5, <2>1 DEF ServeReaderExited, NextReaderExited, ControlTypes, controlVars, counters, ledger, Points
  <2>3. ServerTypes'
    BY <1>1, <1>5, <2>1 DEF ServeReaderExited, NextReaderExited, ServerTypes, ControlTypes, serverVars
  <2>4. TypeOK'
    BY <1>1, <1>2, <2>2, <2>3, TypesSplit
  <2>5. /\ InHand' = InHand /\ server' # "write" /\ (server' = "done" => Unanswered = {})
    BY <1>3, <1>5, ItemsEmpty DEF ServeReaderExited, InHand, Unanswered, Points, serverVars
  <2>6. Points'
    BY <1>1, <1>3, <1>5, <2>1, <2>5 DEF ServeReaderExited, NextReaderExited, Points, Owes, InHand, Answer, serverVars,
           controlVars, ControlTypes
  <2> QED
    BY <2>1, <2>4, <2>5, <2>6, MoveStep
<1>6. CASE ServeWait
  <2>1. /\ UNCHANGED <<queue, counters, outstanding, nextTicket, owed, item, drained, output,
                       firstError>>
        /\ precancelled' \subseteq precancelled /\ executing' \notin precancelled'
    BY <1>3, <1>6 DEF ServeWait, NextWait, controlVars, ledger, serverVars
  <2>2. ControlTypes' /\ wakes' \in 0..2
    BY <1>1, <1>3, <1>6, <2>1 DEF ServeWait, NextWait, ControlTypes, controlVars, counters, ledger, Points
  <2>3. ServerTypes'
    BY <1>1, <1>6, <2>1 DEF ServeWait, NextWait, ServerTypes, ControlTypes, serverVars
  <2>4. TypeOK'
    BY <1>1, <1>2, <2>2, <2>3, TypesSplit
  <2>5. /\ InHand' = InHand /\ server' # "write" /\ (server' = "done" => Unanswered = {})
    BY <1>3, <1>6, ItemsEmpty DEF ServeWait, InHand, Unanswered, Points, serverVars
  <2>6. Points'
    BY <1>1, <1>3, <1>6, <2>1, <2>5 DEF ServeWait, NextWait, Points, Owes, InHand, Answer, serverVars,
           controlVars, ControlTypes
  <2> QED
    BY <2>1, <2>4, <2>5, <2>6, MoveStep
<1>7. CASE ServeBegin
  <2>1. /\ UNCHANGED <<queue, counters, outstanding, nextTicket, owed, item, drained, output,
                       firstError>>
        /\ precancelled' \subseteq precancelled /\ executing' \notin precancelled'
    BY <1>3, <1>7 DEF ServeBegin, BeginCancelled, BeginRun, controlVars, ledger, serverVars
  <2>2. ControlTypes' /\ wakes' \in 0..2
    BY <1>1, <1>3, <1>7, <2>1 DEF ServeBegin, BeginCancelled, BeginRun, ControlTypes, controlVars, counters, ledger, Points
  <2>3. ServerTypes'
    BY <1>1, <1>7, <2>1 DEF ServeBegin, BeginCancelled, BeginRun, ServerTypes, ControlTypes, serverVars, Answer, Codes
  <2>4. TypeOK'
    BY <1>1, <1>2, <2>2, <2>3, TypesSplit
  <2>5. /\ InHand' = InHand /\ server' # "write" /\ (server' = "done" => Unanswered = {})
    BY <1>3, <1>7, ItemsEmpty DEF ServeBegin, InHand, Unanswered, Points, serverVars
  <2>6. Points'
    BY <1>1, <1>3, <1>7, <2>1, <2>5 DEF ServeBegin, BeginCancelled, BeginRun, Points, Owes, InHand, Answer, serverVars,
           controlVars, ControlTypes
  <2> QED
    BY <2>1, <2>4, <2>5, <2>6, MoveStep
<1>8. CASE ServePlan
  <2>1. /\ UNCHANGED <<queue, counters, outstanding, nextTicket, owed, item, drained, output,
                       firstError>>
        /\ precancelled' \subseteq precancelled /\ executing' \notin precancelled'
    BY <1>3, <1>8 DEF ServePlan, controlVars, ledger, serverVars
  <2>2. ControlTypes' /\ wakes' \in 0..2
    BY <1>1, <1>3, <1>8, <2>1 DEF ServePlan, ControlTypes, controlVars, counters, ledger, Points
  <2>3. ServerTypes'
    BY <1>1, <1>8, <2>1 DEF ServePlan, ServerTypes, ControlTypes, serverVars, Answer, Codes
  <2>4. TypeOK'
    BY <1>1, <1>2, <2>2, <2>3, TypesSplit
  <2>5. /\ InHand' = InHand /\ server' # "write" /\ (server' = "done" => Unanswered = {})
    BY <1>3, <1>8, ItemsEmpty DEF ServePlan, InHand, Unanswered, Points, serverVars
  <2>6. Points'
    BY <1>1, <1>3, <1>8, <2>1, <2>5 DEF ServePlan, Points, Owes, InHand, Answer, serverVars,
           controlVars, ControlTypes
  <2> QED
    BY <2>1, <2>4, <2>5, <2>6, MoveStep
<1>9. CASE ServeApply
  <2>1. /\ UNCHANGED <<queue, counters, outstanding, nextTicket, owed, item, drained, output,
                       firstError>>
        /\ precancelled' \subseteq precancelled /\ executing' \notin precancelled'
    BY <1>3, <1>9 DEF ServeApply, controlVars, ledger, serverVars
  <2>2. ControlTypes' /\ wakes' \in 0..2
    BY <1>1, <1>3, <1>9, <2>1 DEF ServeApply, ControlTypes, controlVars, counters, ledger, Points
  <2>3. ServerTypes'
    BY <1>1, <1>9, <2>1 DEF ServeApply, ServerTypes, ControlTypes, serverVars, Answer, Codes
  <2>4. TypeOK'
    BY <1>1, <1>2, <2>2, <2>3, TypesSplit
  <2>5. /\ InHand' = InHand /\ server' # "write" /\ (server' = "done" => Unanswered = {})
    BY <1>3, <1>9, ItemsEmpty DEF ServeApply, InHand, Unanswered, Points, serverVars
  <2>6. Points'
    BY <1>1, <1>3, <1>9, <2>1, <2>5 DEF ServeApply, Points, Owes, InHand, Answer, serverVars,
           controlVars, ControlTypes
  <2> QED
    BY <2>1, <2>4, <2>5, <2>6, MoveStep
<1>10. CASE ServeStop
  <2>1. /\ UNCHANGED <<queue, counters, outstanding, nextTicket, owed, item, drained, output,
                       firstError>>
        /\ precancelled' \subseteq precancelled /\ executing' \notin precancelled'
    BY <1>3, <1>10 DEF ServeStop, Stop, Notify, controlVars, ledger, serverVars
  <2>2. ControlTypes' /\ wakes' \in 0..2
    BY <1>1, <1>3, <1>10, <2>1 DEF ServeStop, Stop, Notify, ControlTypes, controlVars, counters, ledger, Points
  <2>3. ServerTypes'
    BY <1>1, <1>10, <2>1 DEF ServeStop, Stop, Notify, ServerTypes, ControlTypes, serverVars
  <2>4. TypeOK'
    BY <1>1, <1>2, <2>2, <2>3, TypesSplit
  <2>5. /\ InHand' = InHand /\ server' # "write" /\ (server' = "done" => Unanswered = {})
    BY <1>3, <1>10, ItemsEmpty DEF ServeStop, InHand, Unanswered, Points, serverVars
  <2>6. Points'
    BY <1>1, <1>3, <1>10, <2>1, <2>5 DEF ServeStop, Stop, Notify, Points, Owes, InHand, Answer, serverVars,
           controlVars, ControlTypes
  <2> QED
    BY <2>1, <2>4, <2>5, <2>6, MoveStep
<1>11. CASE ServeWake
  <2>1. /\ UNCHANGED <<queue, counters, outstanding, nextTicket, owed, item, drained, output,
                       firstError>>
        /\ precancelled' \subseteq precancelled /\ executing' \notin precancelled'
    BY <1>3, <1>11 DEF ServeWake, controlVars, ledger, serverVars
  <2>2. ControlTypes' /\ wakes' \in 0..2
    BY <1>1, <1>3, <1>11, <2>1 DEF ServeWake, ControlTypes, controlVars, counters, ledger, Points
  <2>3. ServerTypes'
    BY <1>1, <1>11, <2>1 DEF ServeWake, ServerTypes, ControlTypes, serverVars
  <2>4. TypeOK'
    BY <1>1, <1>2, <2>2, <2>3, TypesSplit
  <2>5. /\ InHand' = InHand /\ server' # "write" /\ (server' = "done" => Unanswered = {})
    BY <1>3, <1>11, ItemsEmpty DEF ServeWake, InHand, Unanswered, Points, serverVars
  <2>6. Points'
    BY <1>1, <1>3, <1>11, <2>1, <2>5 DEF ServeWake, Points, Owes, InHand, Answer, serverVars,
           controlVars, ControlTypes
  <2> QED
    BY <2>1, <2>4, <2>5, <2>6, MoveStep
<1>12. CASE ServeReap
  <2>1. /\ UNCHANGED <<queue, counters, outstanding, nextTicket, owed, item, drained, output,
                       firstError>>
        /\ precancelled' \subseteq precancelled /\ executing' \notin precancelled'
    BY <1>3, <1>12 DEF ServeReap, controlVars, ledger, serverVars
  <2>2. ControlTypes' /\ wakes' \in 0..2
    BY <1>1, <1>3, <1>12, <2>1 DEF ServeReap, ControlTypes, controlVars, counters, ledger, Points
  <2>3. ServerTypes'
    BY <1>1, <1>12, <2>1 DEF ServeReap, ServerTypes, ControlTypes, serverVars
  <2>4. TypeOK'
    BY <1>1, <1>2, <2>2, <2>3, TypesSplit
  <2>5. /\ InHand' = InHand /\ server' # "write" /\ (server' = "done" => Unanswered = {})
    BY <1>3, <1>12, ItemsEmpty DEF ServeReap, InHand, Unanswered, Points, serverVars
  <2>6. Points'
    BY <1>1, <1>3, <1>12, <2>1, <2>5 DEF ServeReap, Points, Owes, InHand, Answer, serverVars,
           controlVars, ControlTypes
  <2> QED
    BY <2>1, <2>4, <2>5, <2>6, MoveStep
<1>13. CASE ServeRecheck
  <2>1. /\ UNCHANGED <<queue, counters, outstanding, nextTicket, owed, item, drained, output,
                       firstError>>
        /\ precancelled' \subseteq precancelled /\ executing' \notin precancelled'
    BY <1>3, <1>13 DEF ServeRecheck, controlVars, ledger, serverVars
  <2>2. ControlTypes' /\ wakes' \in 0..2
    BY <1>1, <1>3, <1>13, <2>1 DEF ServeRecheck, ControlTypes, controlVars, counters, ledger, Points
  <2>3. ServerTypes'
    BY <1>1, <1>13, <2>1 DEF ServeRecheck, ServerTypes, ControlTypes, serverVars
  <2>4. TypeOK'
    BY <1>1, <1>2, <2>2, <2>3, TypesSplit
  <2>5. /\ InHand' = InHand /\ server' # "write" /\ (server' = "done" => Unanswered = {})
    BY <1>3, <1>13, ItemsEmpty DEF ServeRecheck, InHand, Unanswered, Points, serverVars
  <2>6. Points'
    BY <1>1, <1>3, <1>13, <2>1, <2>5 DEF ServeRecheck, Points, Owes, InHand, Answer, serverVars,
           controlVars, ControlTypes
  <2> QED
    BY <2>1, <2>4, <2>5, <2>6, MoveStep
<1>14. CASE ServeJoin
  <2>1. /\ UNCHANGED <<queue, counters, outstanding, nextTicket, owed, item, drained, output,
                       firstError>>
        /\ precancelled' \subseteq precancelled /\ executing' \notin precancelled'
    BY <1>3, <1>14 DEF ServeJoin, controlVars, ledger, serverVars
  <2>2. ControlTypes' /\ wakes' \in 0..2
    BY <1>1, <1>3, <1>14, <2>1 DEF ServeJoin, ControlTypes, controlVars, counters, ledger, Points
  <2>3. ServerTypes'
    BY <1>1, <1>14, <2>1 DEF ServeJoin, ServerTypes, ControlTypes, serverVars
  <2>4. TypeOK'
    BY <1>1, <1>2, <2>2, <2>3, TypesSplit
  <2>5. /\ InHand' = InHand /\ server' # "write" /\ (server' = "done" => Unanswered = {})
    BY <1>3, <1>14, ItemsEmpty DEF ServeJoin, InHand, Unanswered, Points, serverVars
  <2>6. Points'
    BY <1>1, <1>3, <1>14, <2>1, <2>5 DEF ServeJoin, Points, Owes, InHand, Answer, serverVars,
           controlVars, ControlTypes
  <2> QED
    BY <2>1, <2>4, <2>5, <2>6, MoveStep
<1> QED
  BY <1>4, <1>5, <1>6, <1>7, <1>8, <1>9, <1>10, <1>11, <1>12, <1>13, <1>14

(* `next` returns the head of the queue: work and a rejection come to hand, *)
(* a control item is consumed.                                               *)
LEMMA InboundStep ==
    ASSUME IInv, UNCHANGED input, ServeInbound
    PROVE  IInv'
<1> DEFINE h == Head(queue)
<1>1. TypeOK /\ ControlTypes /\ ReaderTypes /\ ServerTypes /\ input' \in Inputs /\ wakes \in 0..2
  BY TypesSplit DEF IInv
<1>2. /\ queue # <<>> /\ queue' = Tail(queue) /\ item' = h /\ server = "next" /\ wakes' = wakes
      /\ UNCHANGED <<outstanding, precancelled, executing, cancelled, nextTicket, stop, readerExit,
                     fatal, waiting, owed>>
      /\ UNCHANGED <<stopped, firstError, failed, drained, reaped, output, result>>
      /\ UNCHANGED readerVars
  BY DEF ServeInbound, NextInbound, ledger
<1>3. queue \in Seq(ItemType)
  BY <1>1 DEF ControlTypes
<1>4. /\ h = queue[1] /\ h \in ItemType /\ Len(queue) >= 1 /\ Len(queue) \in Nat
      /\ queue' \in Seq(ItemType)
      /\ Len(queue') = Len(queue) - 1
      /\ \A k \in 1..Len(queue') : queue'[k] = queue[k + 1]
      /\ Items(queue) = {h} \cup Items(queue')
  BY <1>2, <1>3, ItemsTail
<1>5. h \in Unanswered /\ Shaped(h) /\ h.ticket \in Nat
      /\ h.kind \in {"work", "reject", "shutdown", "exit"}
      /\ h.error \in {"none", "invalid", "full", "bad"}
  <2>1. h \in Unanswered
    BY <1>1, <1>4, UnansweredType
  <2> QED
    BY <1>4, <2>1 DEF IInv, Shapes, ItemType
<1>6. /\ response' = (IF h.kind = "reject" THEN h.error ELSE "none")
      /\ server' \in {"begin", "retire", "next", "stopInLoop"}
      /\ server' = "begin" <=> h.kind = "work"
      /\ server' = "retire" <=> h.kind = "reject"
  <2>1. server' = CASE h.kind = "work" -> "begin"
                    [] h.kind = "reject" -> "retire"
                    [] h.kind = "shutdown" -> "next"
                    [] h.kind = "exit" -> "stopInLoop"
    BY DEF ServeInbound
  <2>2. response' = (IF h.kind = "reject" THEN h.error ELSE "none")
    BY DEF ServeInbound
  <2> HIDE DEF h
  <2> QED
    BY <1>5, <2>1, <2>2
<1>7. Counting' /\ queuedWork' \in Nat /\ queuedBytes' \in Nat /\ queuedRejects' \in Nat
  BY <1>1, CountTail DEF IInv, ServeInbound
<1> HIDE DEF h
<1>8. ~InHand /\ (InHand' <=> h.kind \in {"work", "reject"})
  BY <1>2, <1>6 DEF InHand
<1>9. TypeOK'
  <2>1. ControlTypes'
    BY <1>1, <1>2, <1>4, <1>7 DEF ControlTypes
  <2>2. ServerTypes'
    BY <1>1, <1>2, <1>4, <1>5, <1>6 DEF ServerTypes, Codes
  <2>3. ReaderTypes'
    BY <1>1, <1>2, ReaderUnchanged
  <2> QED
    BY <1>1, <1>2, <2>1, <2>2, <2>3, TypesSplit
<1>10. Answered' = Answered /\ drained = <<>> /\ drained' = <<>>
  BY <1>2 DEF Answered, IInv, Points
<1>11. Unanswered = {h} \cup Items(queue')
       /\ Unanswered' = Items(queue') \cup (IF h.kind \in {"work", "reject"} THEN {h} ELSE {})
  BY <1>2, <1>4, <1>8, <1>10, ItemsEmpty DEF Unanswered
<1>12. Unanswered' \subseteq Unanswered
  BY <1>11
<1>13. Shapes'
  BY <1>2, <1>12 DEF IInv, Shapes, Shaped
<1>14. Points'
  BY <1>2, <1>5, <1>6, <1>8, <1>10 DEF IInv, Points, Shaped, Owes
<1>15. Order'
  <2>1. Ordered(queue) /\ Ordered(drained)
    BY DEF IInv, Order
  <2>2. Ordered(queue')
    <3> SUFFICES ASSUME NEW j \in 1..Len(queue'), NEW k \in 1..Len(queue'), j < k,
                        queue'[j].ticket # 0, queue'[k].ticket # 0
                 PROVE  queue'[j].ticket < queue'[k].ticket
      BY DEF Ordered
    <3>1. j + 1 \in 1..Len(queue) /\ k + 1 \in 1..Len(queue) /\ j + 1 < k + 1
          /\ queue'[j] = queue[j + 1] /\ queue'[k] = queue[k + 1]
      BY <1>4
    <3> QED
      BY <2>1, <3>1 DEF Ordered
  <2>3. ASSUME h.ticket # 0, NEW d \in Items(queue'), d.ticket # 0
        PROVE  h.ticket < d.ticket
    <3>1. PICK k \in 1..Len(queue') : d = queue'[k]
      BY DEF Items
    <3>2. k + 1 \in 1..Len(queue) /\ 1 \in 1..Len(queue) /\ 1 < k + 1 /\ d = queue[k + 1]
      BY <1>4, <3>1
    <3> QED
      BY <1>4, <2>1, <2>3, <3>2 DEF Ordered
  <2>4. InHand' => \A d \in Items(queue') : d.ticket # 0 => item'.ticket < d.ticket
    BY <1>2, <1>5, <1>8, <2>3 DEF Shaped
  <2>5. ResponsesInOrder' /\ Ordered(drained)'
    BY <1>2, <1>10 DEF IInv, Order, ResponsesInOrder, Ordered
  <2> QED
    BY <1>2, <1>10, <1>12, <2>2, <2>4, <2>5 DEF IInv, Order, Ordered
<1>16. Ledger'
  <2>1. IdentifierHasOwner'
    <3> SUFFICES ASSUME NEW i \in Ids, outstanding[i] # 0
                 PROVE  \E u \in Unanswered' : u.id = i /\ u.ticket = outstanding[i]
      BY <1>2, <1>6 DEF IdentifierHasOwner
    <3>1. PICK u \in Unanswered : u.id = i /\ u.ticket = outstanding[i]
      BY DEF IInv, Ledger, IdentifierHasOwner
    <3>2. u = h => h.kind \in {"work", "reject"}
      BY <1>5, <3>1 DEF Shaped
    <3> QED
      BY <1>11, <3>1, <3>2
  <2> QED
    BY <1>2, <1>6, <2>1 DEF IInv, Ledger, CancellationIsLive
<1>17. ObligationsConserved'
  <2>1. {u \in Unanswered' : Owes(u)} = {u \in Unanswered : Owes(u)}
    BY <1>11 DEF Owes
  <2> QED
    BY <1>2, <1>6, <1>10, <2>1 DEF IInv, ObligationsConserved, Owes
<1> QED
  BY <1>7, <1>9, <1>13, <1>14, <1>15, <1>16, <1>17 DEF IInv

(* The fatal response is written without a ticket.                           *)
LEMMA FatalStep ==
    ASSUME IInv, UNCHANGED input, ServeFatal
    PROVE  IInv'
<1>1. TypeOK /\ ControlTypes /\ ReaderTypes /\ ServerTypes /\ input' \in Inputs /\ wakes \in 0..2
  BY TypesSplit DEF IInv
<1>2. /\ server = "fatal" /\ server' = "stopInLoop"
      /\ UNCHANGED <<item, response, stopped, failed, drained, reaped, result>>
      /\ UNCHANGED <<controlVars, readerVars, wakes>>
  BY DEF ServeFatal
<1>3. response \in Codes
  BY <1>1, <1>2 DEF IInv, Points, ServerTypes
<1>4. \/ WriteTerminal(0, NoId, response)
      \/ /\ output' = Append(output, [ticket |-> 0, id |-> NoId, code |-> response])
         /\ firstError' = TRUE
  BY DEF ServeFatal
<1>5. /\ output' \in Seq([ticket : Nat, id : Ids \union {NoId}, code : Codes])
      /\ firstError' \in BOOLEAN
      /\ ResponsesInOrder'
      /\ Answered \subseteq Answered' /\ Answered' \subseteq Answered \cup ({0} \ {0})
      /\ ~firstError' => ~firstError /\ Answered' = Answered \cup ({0} \ {0})
  <2>1. 0 \in Nat /\ NoId \in Ids \cup {NoId} /\ ResponsesInOrder
    BY DEF IInv, Order
  <2> QED
    BY <1>1, <1>3, <1>4, <2>1, WriteStep
<1>6. Answered' = Answered /\ (~firstError' => ~firstError)
  BY <1>5
<1>7. TypeOK'
  <2>1. ControlTypes' /\ ReaderTypes'
    BY <1>1, <1>2, ControlUnchanged, ReaderUnchanged
  <2>2. ServerTypes'
    BY <1>1, <1>2, <1>5 DEF ServerTypes
  <2> QED
    BY <1>1, <1>2, <2>1, <2>2, TypesSplit
<1>8. Unanswered' = Unanswered /\ ~InHand' /\ ~InHand
  BY <1>2 DEF Unanswered, InHand, Items, controlVars
<1>9. Counting'
  BY <1>2 DEF IInv, Counting, QueueCounts, OfKind, Items, BytesOf, controlVars, counters
<1>10. Shapes'
  BY <1>2, <1>8 DEF IInv, Shapes, Shaped, controlVars
<1>11. Points'
  BY <1>2, <1>8 DEF IInv, Points, controlVars
<1>12. Order'
  BY <1>2, <1>5, <1>6, <1>8 DEF IInv, Order, Ordered, controlVars
<1>13. Ledger'
  BY <1>2, <1>8 DEF IInv, Ledger, CancellationIsLive, IdentifierHasOwner, controlVars, ledger
<1>14. ObligationsConserved'
  BY <1>2, <1>6, <1>8 DEF IInv, ObligationsConserved, Owes, controlVars
<1> QED
  BY <1>7, <1>9, <1>10, <1>11, <1>12, <1>13, <1>14 DEF IInv

(* `retire` of the item in hand: its identifier is free before the response  *)
(* is written.                                                               *)
LEMMA RetireStep ==
    ASSUME IInv, UNCHANGED input, ServeRetire
    PROVE  IInv'
<1>1. TypeOK /\ ControlTypes /\ ReaderTypes /\ ServerTypes /\ input' \in Inputs /\ wakes \in 0..2
  BY TypesSplit DEF IInv
<1>2. /\ server = "retire" /\ server' = "write" /\ Retire(item.ticket, item.id)
      /\ UNCHANGED <<item, response, stopped, firstError, failed, drained, reaped, output, result>>
      /\ UNCHANGED <<readerVars, wakes>>
      /\ UNCHANGED <<queue, counters, nextTicket, stop, readerExit, fatal, waiting, owed>>
  BY DEF ServeRetire, Retire
<1>3. item \in Unanswered /\ item \in ItemType
  BY <1>1, <1>2 DEF Unanswered, InHand, ServerTypes
<1>4. item.ticket \in Nat \ {0}
  BY <1>2, <1>3 DEF IInv, Points, InHand, Shapes, Shaped, ItemType
<1>5. /\ ControlTypes'
      /\ CancellationIsLive'
      /\ executing' \notin precancelled'
      /\ \A k \in Ids : outstanding'[k] = outstanding[k] \/ outstanding'[k] = 0
      /\ item.id \in Ids => outstanding'[item.id] # item.ticket
  BY <1>1, <1>2, <1>4, RetireLedger DEF IInv
<1>6. TypeOK'
  <2>1. ServerTypes' /\ ReaderTypes'
    BY <1>1, <1>2, ReaderUnchanged DEF ServerTypes
  <2> QED
    BY <1>1, <1>2, <1>5, <2>1, TypesSplit
<1>7. Unanswered' = Unanswered /\ Answered' = Answered /\ InHand' /\ InHand
  BY <1>2 DEF Unanswered, InHand, Items, Answered
<1>8. Counting'
  BY <1>2 DEF IInv, Counting, QueueCounts, OfKind, Items, BytesOf, counters
<1>9. Shapes'
  BY <1>2, <1>7 DEF IInv, Shapes, Shaped
<1>10. Points'
  BY <1>2, <1>7 DEF IInv, Points, Owes
<1>11. Order'
  BY <1>2, <1>7 DEF IInv, Order, Ordered, ResponsesInOrder, Items
<1>12. Ledger'
  <2>1. nextTicket \in Nat \ {0}
    BY <1>1 DEF ControlTypes
  <2>2. \A i \in Ids : outstanding'[i] < nextTicket'
    BY <1>2, <1>5, <2>1 DEF IInv, Ledger
  <2>3. IdentifierHasOwner'
    BY <1>2, <1>5, <1>7 DEF IInv, Ledger, IdentifierHasOwner
  <2> QED
    BY <1>2, <1>5, <2>2, <2>3 DEF Ledger
<1>13. ObligationsConserved'
  BY <1>2, <1>7 DEF IInv, ObligationsConserved, Owes
<1> QED
  BY <1>6, <1>8, <1>9, <1>10, <1>11, <1>12, <1>13 DEF IInv

(* The response to the item in hand is written, which leaves the session.    *)
LEMMA WriteItemStep ==
    ASSUME IInv, UNCHANGED input, ServeWrite
    PROVE  IInv'
<1>1. TypeOK /\ ControlTypes /\ ReaderTypes /\ ServerTypes /\ input' \in Inputs /\ wakes \in 0..2
  BY TypesSplit DEF IInv
<1>2. /\ server = "write" /\ server' \in {"stopInLoop", "next"}
      /\ UNCHANGED <<item, response, stopped, failed, drained, reaped, result>>
      /\ UNCHANGED <<controlVars, readerVars, wakes>>
  BY DEF ServeWrite
<1>3. item \in Unanswered /\ item \in ItemType /\ drained = <<>> /\ InHand /\ ~InHand'
  BY <1>1, <1>2 DEF Unanswered, InHand, ServerTypes, IInv, Points
<1>4. item.ticket \in Nat \ {0} /\ item.ticket < nextTicket /\ item.id \in Ids \cup {NoId}
      /\ (Owes(item) <=> response # "none")
  BY <1>2, <1>3 DEF IInv, Points, Shapes, Shaped, ItemType
<1>5. Unanswered = Items(queue) \cup {item} /\ Unanswered' = Items(queue)
  BY <1>2, <1>3, ItemsEmpty DEF Unanswered, controlVars
<1>6. /\ output' \in Seq([ticket : Nat, id : Ids \union {NoId}, code : Codes])
      /\ firstError' \in BOOLEAN
      /\ ResponsesInOrder'
      /\ Answered \subseteq Answered' /\ Answered' \subseteq Answered \cup {item.ticket}
      /\ ~firstError' => ~firstError
      /\ ~firstError' => Answered' = Answered \cup (IF Owes(item) THEN {item.ticket} ELSE {})
  <2>1. CASE response = "none"
    <3>1. UNCHANGED <<firstError, output>>
      BY <2>1 DEF ServeWrite
    <3>2. Answered' = Answered /\ ResponsesInOrder'
      BY <3>1 DEF Answered, ResponsesInOrder, IInv, Order
    <3> QED
      BY <1>1, <1>4, <2>1, <3>1, <3>2 DEF ServerTypes
  <2>2. CASE response # "none"
    <3>1. WriteTerminal(item.ticket, item.id, response) /\ response \in Codes
      BY <1>1, <2>2 DEF ServeWrite, ServerTypes
    <3>2. \A a \in Answered : a < item.ticket
      BY <1>3, <1>4 DEF IInv, Order
    <3>3. ResponsesInOrder
      BY DEF IInv, Order
    <3>4. /\ output' \in Seq([ticket : Nat, id : Ids \union {NoId}, code : Codes])
          /\ firstError' \in BOOLEAN
          /\ ResponsesInOrder'
          /\ Answered \subseteq Answered' /\ Answered' \subseteq Answered \cup ({item.ticket} \ {0})
          /\ ~firstError' => ~firstError /\ Answered' = Answered \cup ({item.ticket} \ {0})
      BY <1>1, <1>4, <3>1, <3>2, <3>3, WriteStep
    <3>5. {item.ticket} \ {0} = {item.ticket}
      BY <1>4
    <3>6. /\ Answered' \subseteq Answered \cup {item.ticket}
          /\ ~firstError' => Answered' = Answered \cup {item.ticket}
      BY <3>4, <3>5
    <3> QED
      BY <1>4, <2>2, <3>4, <3>6
  <2> QED
    BY <2>1, <2>2
<1>7. TypeOK'
  <2>1. ControlTypes' /\ ReaderTypes'
    BY <1>1, <1>2, ControlUnchanged, ReaderUnchanged
  <2>2. ServerTypes'
    BY <1>1, <1>2, <1>6 DEF ServerTypes
  <2> QED
    BY <1>1, <1>2, <2>1, <2>2, TypesSplit
<1>8. Counting'
  BY <1>2 DEF IInv, Counting, QueueCounts, OfKind, Items, BytesOf, controlVars, counters
<1>9. Shapes'
  BY <1>2, <1>5 DEF IInv, Shapes, Shaped, controlVars
<1>10. Points'
  BY <1>2, <1>3 DEF IInv, Points, controlVars
<1>11. Order'
  <2>1. \A d \in Items(queue) : d.ticket # 0 => item.ticket < d.ticket
    BY <1>3 DEF IInv, Order
  <2>2. \A t \in Answered' : \A d \in Unanswered' : d.ticket # 0 => t < d.ticket
    BY <1>5, <1>6, <2>1 DEF IInv, Order
  <2>3. \A t \in Answered' : t < nextTicket'
    BY <1>2, <1>4, <1>6 DEF IInv, Order, controlVars
  <2> QED
    BY <1>2, <1>3, <1>6, <2>2, <2>3 DEF IInv, Order, Ordered, controlVars
<1>12. Ledger'
  <2>1. ASSUME NEW i \in Ids, outstanding[i] # 0
        PROVE  \E u \in Unanswered' : u.id = i /\ u.ticket = outstanding[i]
    <3>1. PICK u \in Unanswered : u.id = i /\ u.ticket = outstanding[i]
      BY <2>1 DEF IInv, Ledger, IdentifierHasOwner
    <3>2. u # item
      BY <1>2, <3>1 DEF IInv, Ledger
    <3> QED
      BY <1>5, <3>1, <3>2
  <2>2. IdentifierHasOwner'
    BY <1>2, <2>1 DEF IdentifierHasOwner, controlVars, ledger
  <2> QED
    BY <1>2, <2>2 DEF IInv, Ledger, CancellationIsLive, controlVars, ledger
<1>13. ObligationsConserved'
  <2> SUFFICES ASSUME ~firstError'
               PROVE  owed' = Answered' \union {d.ticket : d \in {u \in Unanswered' : Owes(u)}}
    BY <1>2 DEF ObligationsConserved, Owes
  <2>1. owed' = Answered \union {d.ticket : d \in {u \in Unanswered : Owes(u)}}
    BY <1>2, <1>6 DEF IInv, ObligationsConserved, controlVars
  <2>2. Answered' = Answered \cup (IF Owes(item) THEN {item.ticket} ELSE {})
    BY <1>6
  <2> QED
    BY <1>5, <2>1, <2>2
<1> QED
  BY <1>7, <1>8, <1>9, <1>10, <1>11, <1>12, <1>13 DEF IInv

(* `drain` hands the queue over whole.                                       *)
LEMMA DrainStep ==
    ASSUME IInv, UNCHANGED input, ServeDrain
    PROVE  IInv'
<1>1. TypeOK /\ ControlTypes /\ ReaderTypes /\ ServerTypes /\ input' \in Inputs /\ wakes \in 0..2
  BY TypesSplit DEF IInv
<1>2. /\ server = "drain" /\ server' = "answer" /\ drained' = queue /\ queue' = <<>>
      /\ queuedWork' = 0 /\ queuedBytes' = 0 /\ queuedRejects' = 0
      /\ UNCHANGED <<item, response, stopped, firstError, failed, reaped, output, result>>
      /\ UNCHANGED <<readerVars, wakes, ledger, nextTicket, stop, readerExit, fatal, waiting, owed>>
  BY DEF ServeDrain, Drain
<1>3. drained = <<>> /\ stop /\ ~InHand /\ ~InHand'
  BY <1>2 DEF IInv, Points, InHand
<1>4. Unanswered' = Unanswered /\ Answered' = Answered
  BY <1>2, <1>3, ItemsEmpty DEF Unanswered, Answered
<1>5. TypeOK'
  <2>1. ReaderTypes'
    BY <1>1, <1>2, ReaderUnchanged
  <2>2. queue' \in Seq(ItemType)
    BY <1>2
  <2>3. ControlTypes'
    BY <1>1, <1>2, <2>2 DEF ControlTypes, ledger
  <2>4. ServerTypes'
    BY <1>1, <1>2 DEF ServerTypes, ControlTypes
  <2> QED
    BY <1>1, <1>2, <2>1, <2>3, <2>4, TypesSplit
<1>6. Counting'
  BY <1>2, CountEmpty
<1>7. Shapes'
  BY <1>2, <1>4 DEF IInv, Shapes, Shaped
<1>8. Points'
  BY <1>2, <1>3 DEF IInv, Points
<1>9. Order'
  <2>1. Ordered(queue') /\ Ordered(drained')
    BY <1>2 DEF IInv, Order, Ordered
  <2> QED
    BY <1>2, <1>3, <1>4, <2>1 DEF IInv, Order, Ordered, ResponsesInOrder
<1>10. Ledger'
  BY <1>2, <1>4 DEF IInv, Ledger, CancellationIsLive, IdentifierHasOwner, ledger
<1>11. ObligationsConserved'
  BY <1>2, <1>4 DEF IInv, ObligationsConserved, Owes
<1> QED
  BY <1>5, <1>6, <1>7, <1>8, <1>9, <1>10, <1>11 DEF IInv

(* One item of the drained list is retired and answered.                     *)
LEMMA AnswerStep ==
    ASSUME IInv, UNCHANGED input, ServeAnswer
    PROVE  IInv'
<1> DEFINE h == Head(drained)
           code == IF h.kind = "work" THEN "cancelled" ELSE h.error
<1>1. TypeOK /\ ControlTypes /\ ReaderTypes /\ ServerTypes /\ input' \in Inputs /\ wakes \in 0..2
  BY TypesSplit DEF IInv
<1>2. /\ server = "answer" /\ server' = "answer" /\ drained # <<>> /\ drained' = Tail(drained)
      /\ UNCHANGED <<item, response, stopped, failed, reaped, result>>
      /\ UNCHANGED <<readerVars, wakes>>
      /\ UNCHANGED <<queue, counters, nextTicket, stop, readerExit, fatal, waiting, owed>>
  BY DEF ServeAnswer, Retire, controlVars
<1>3. drained \in Seq(ItemType) /\ queue = <<>> /\ queue' = <<>> /\ stop
  BY <1>1, <1>2 DEF ServerTypes, IInv, Points
<1>4. /\ h = drained[1] /\ h \in ItemType /\ Len(drained) >= 1 /\ Len(drained) \in Nat
      /\ drained' \in Seq(ItemType)
      /\ Len(drained') = Len(drained) - 1
      /\ \A k \in 1..Len(drained') : drained'[k] = drained[k + 1]
      /\ Items(drained) = {h} \cup Items(drained')
  BY <1>2, <1>3, ItemsTail
<1>5. ~InHand /\ ~InHand' /\ Unanswered = {h} \cup Items(drained') /\ Unanswered' = Items(drained')
  BY <1>2, <1>3, <1>4, ItemsEmpty DEF InHand, Unanswered
<1>6. Shaped(h) /\ h.ticket \in Nat /\ h.id \in Ids \cup {NoId}
      /\ h.kind \in {"work", "reject", "shutdown", "exit"}
      /\ h.error \in {"none", "invalid", "full", "bad"}
  BY <1>4, <1>5 DEF IInv, Shapes, ItemType
<1>7. /\ ControlTypes'
      /\ CancellationIsLive'
      /\ executing' \notin precancelled'
      /\ \A k \in Ids : outstanding'[k] = outstanding[k] \/ outstanding'[k] = 0
      /\ h.id \in Ids => (outstanding'[h.id] # h.ticket \/ outstanding'[h.id] = 0)
  <2>1. CASE h.kind \in {"work", "reject"}
    <3>1. Retire(h.ticket, h.id) /\ h.ticket \in Nat \ {0}
      BY <1>6, <2>1 DEF ServeAnswer, Shaped
    <3> HIDE DEF h
    <3>2. /\ ControlTypes'
          /\ CancellationIsLive'
          /\ executing' \notin precancelled'
          /\ \A k \in Ids : outstanding'[k] = outstanding[k] \/ outstanding'[k] = 0
          /\ h.id \in Ids => outstanding'[h.id] # h.ticket
      BY <1>1, <3>1, RetireLedger DEF IInv
    <3> QED
      BY <3>2
  <2>2. CASE h.kind \notin {"work", "reject"}
    <3>1. UNCHANGED controlVars
      BY <2>2 DEF ServeAnswer
    <3>2. ControlTypes'
      BY <1>1, <3>1, ControlUnchanged
    <3>3. h.ticket = 0
      BY <1>6, <2>2 DEF Shaped
    <3> HIDE DEF h
    <3> QED
      BY <3>1, <3>2, <3>3 DEF IInv, Ledger, CancellationIsLive, controlVars, ledger
  <2> QED
    BY <2>1, <2>2
<1>8. /\ output' \in Seq([ticket : Nat, id : Ids \union {NoId}, code : Codes])
      /\ firstError' \in BOOLEAN
      /\ ResponsesInOrder'
      /\ Answered \subseteq Answered' /\ Answered' \subseteq Answered \cup ({h.ticket} \ {0})
      /\ ~firstError' => ~firstError
      /\ ~firstError' => Answered' = Answered \cup (IF Owes(h) THEN {h.ticket} ELSE {})
  <2>1. CASE ~Owes(h)
    <3>1. UNCHANGED <<firstError, output>>
      BY <1>6, <2>1 DEF ServeAnswer, Owes
    <3>2. Answered' = Answered /\ ResponsesInOrder'
      BY <3>1 DEF Answered, ResponsesInOrder, IInv, Order
    <3> HIDE DEF h
    <3> QED
      BY <1>1, <2>1, <3>1, <3>2 DEF ServerTypes
  <2>2. CASE Owes(h)
    <3>1. WriteTerminal(h.ticket, h.id, code)
      BY <2>2 DEF ServeAnswer, Owes
    <3>2. code \in Codes /\ h.ticket # 0
      BY <1>6, <2>2 DEF Codes, Shaped, Owes
    <3> HIDE DEF h, code
    <3>3. \A a \in Answered : a < h.ticket
      BY <1>5, <3>2 DEF IInv, Order
    <3>4. ResponsesInOrder
      BY DEF IInv, Order
    <3>5. /\ output' \in Seq([ticket : Nat, id : Ids \union {NoId}, code : Codes])
          /\ firstError' \in BOOLEAN
          /\ ResponsesInOrder'
          /\ Answered \subseteq Answered' /\ Answered' \subseteq Answered \cup ({h.ticket} \ {0})
          /\ ~firstError' => ~firstError /\ Answered' = Answered \cup ({h.ticket} \ {0})
      BY <1>1, <1>6, <3>1, <3>2, <3>3, <3>4, WriteStep
    <3>6. {h.ticket} \ {0} = {h.ticket}
      BY <3>2
    <3>7. ~firstError' => Answered' = Answered \cup {h.ticket}
      BY <3>5, <3>6
    <3> QED
      BY <2>2, <3>5, <3>7
  <2> QED
    BY <2>1, <2>2
<1> HIDE DEF h, code
<1>9. TypeOK'
  <2>1. ReaderTypes'
    BY <1>1, <1>2, ReaderUnchanged
  <2>2. ServerTypes'
    BY <1>1, <1>2, <1>4, <1>8 DEF ServerTypes
  <2> QED
    BY <1>1, <1>2, <1>7, <2>1, <2>2, TypesSplit
<1>10. Counting'
  BY <1>2 DEF IInv, Counting, QueueCounts, OfKind, Items, BytesOf, counters
<1>11. Shapes'
  BY <1>2, <1>5 DEF IInv, Shapes, Shaped
<1>12. Points'
  BY <1>2, <1>3, <1>5 DEF IInv, Points
<1>13. Order'
  <2>1. Ordered(drained)
    BY DEF IInv, Order
  <2>2. Ordered(drained')
    <3> SUFFICES ASSUME NEW j \in 1..Len(drained'), NEW k \in 1..Len(drained'), j < k,
                        drained'[j].ticket # 0, drained'[k].ticket # 0
                 PROVE  drained'[j].ticket < drained'[k].ticket
      BY DEF Ordered
    <3>1. j + 1 \in 1..Len(drained) /\ k + 1 \in 1..Len(drained) /\ j + 1 < k + 1
          /\ drained'[j] = drained[j + 1] /\ drained'[k] = drained[k + 1]
      BY <1>4
    <3> QED
      BY <2>1, <3>1 DEF Ordered
  <2>3. ASSUME h.ticket # 0, NEW d \in Items(drained'), d.ticket # 0
        PROVE  h.ticket < d.ticket
    <3>1. PICK k \in 1..Len(drained') : d = drained'[k]
      BY DEF Items
    <3>2. k + 1 \in 1..Len(drained) /\ 1 \in 1..Len(drained) /\ 1 < k + 1 /\ d = drained[k + 1]
      BY <1>4, <3>1
    <3> QED
      BY <1>4, <2>1, <2>3, <3>2 DEF Ordered
  <2>4. \A t \in Answered' : \A d \in Unanswered' : d.ticket # 0 => t < d.ticket
    BY <1>5, <1>8, <2>3 DEF IInv, Order
  <2>5. \A t \in Answered' : t < nextTicket'
    BY <1>2, <1>6, <1>8 DEF IInv, Order, Shaped
  <2>6. Ordered(queue')
    BY <1>2, <1>3 DEF Ordered
  <2> QED
    BY <1>5, <1>8, <2>2, <2>4, <2>5, <2>6 DEF Order, Ordered
<1>14. Ledger'
  <2>1. nextTicket \in Nat \ {0}
    BY <1>1 DEF ControlTypes
  <2>2. \A i \in Ids : outstanding'[i] < nextTicket'
    BY <1>2, <1>7, <2>1 DEF IInv, Ledger
  <2>3. ASSUME NEW i \in Ids, outstanding'[i] # 0
        PROVE  \E u \in Unanswered' : u.id = i /\ u.ticket = outstanding'[i]
    <3>1. outstanding'[i] = outstanding[i]
      BY <1>7, <2>3
    <3>2. PICK u \in Unanswered : u.id = i /\ u.ticket = outstanding[i]
      BY <2>3, <3>1 DEF IInv, Ledger, IdentifierHasOwner
    <3>3. u # h
      BY <1>7, <2>3, <3>1, <3>2
    <3> QED
      BY <1>5, <3>1, <3>2, <3>3
  <2> QED
    BY <1>2, <1>7, <2>2, <2>3 DEF Ledger, IdentifierHasOwner
<1>15. ObligationsConserved'
  <2> SUFFICES ASSUME ~firstError'
               PROVE  owed' = Answered' \union {d.ticket : d \in {u \in Unanswered' : Owes(u)}}
    BY <1>2 DEF ObligationsConserved, Owes
  <2>1. owed' = Answered \union {d.ticket : d \in {u \in Unanswered : Owes(u)}}
    BY <1>2, <1>8 DEF IInv, ObligationsConserved
  <2>2. Answered' = Answered \cup (IF Owes(h) THEN {h.ticket} ELSE {})
    BY <1>8
  <2> QED
    BY <1>5, <2>1, <2>2
<1> QED
  BY <1>9, <1>10, <1>11, <1>12, <1>13, <1>14, <1>15 DEF IInv

-----------------------------------------------------------------------------
(* Every step of the reader and of the serving thread keeps the invariant.   *)
THEOREM ApiStep == IInv /\ [Next]_vars => IInv'
<1> SUFFICES ASSUME IInv, [Next]_vars PROVE IInv'
  OBVIOUS
<1>1. CASE Environment
  BY <1>1, ReaderReads DEF Environment
<1>2. CASE ReaderStep
  BY <1>2, ReaderReads, ReaderCalls DEF ReaderStep
<1>3. CASE ServerStep
  BY <1>3, ServerMoves, InboundStep, FatalStep, RetireStep, WriteItemStep, DrainStep, AnswerStep
     DEF ServerStep
<1>4. CASE UNCHANGED vars
  <2>1. UNCHANGED <<input, controlVars, readerVars, wakes, serverVars>>
    BY <1>4 DEF vars
  <2>2. TypeOK /\ ControlTypes /\ ReaderTypes /\ ServerTypes /\ input \in Inputs /\ wakes \in 0..2
        /\ nextTicket \in Nat \ {0}
    BY TypesSplit DEF IInv, ControlTypes
  <2>3. TypeOK'
    BY <2>1, <2>2, ControlUnchanged, ReaderUnchanged, ServerUnchanged, TypesSplit
  <2> QED
    BY <2>1, <2>2, <2>3, QuietStep DEF controlVars, counters, ledger
<1> QED
  BY <1>1, <1>2, <1>3, <1>4 DEF Next, Finished

(* The invariant holds of every reachable state of a session.                *)
THEOREM ApiInvariant == Spec => []IInv
BY ApiInit, ApiStep, PTL DEF Spec

(* Types: in particular no counter of the partitions ever drops below zero.  *)
THEOREM ApiTypes == Spec => []TypeOK
<1>1. IInv => TypeOK
  BY DEF IInv
<1> QED
  BY <1>1, ApiInvariant, PTL

(* A cancellation mark belongs to a request that holds its identifier, so a  *)
(* late `$/cancelRequest` never reaches the next user of it.                 *)
THEOREM ApiCancellationIsLive == Spec => []CancellationIsLive
<1>1. IInv => CancellationIsLive
  BY DEF IInv, Ledger
<1> QED
  BY <1>1, ApiInvariant, PTL

(* An admitted request is inside the session or answered, and none is inside *)
(* when it ends.                                                             *)
THEOREM ApiObligationsConserved == Spec => []ObligationsConserved
<1>1. IInv => ObligationsConserved
  BY DEF IInv
<1> QED
  BY <1>1, ApiInvariant, PTL

(* Responses leave in the order of admission.                                *)
THEOREM ApiResponsesInOrder == Spec => []ResponsesInOrder
<1>1. IInv => ResponsesInOrder
  BY DEF IInv, Order
<1> QED
  BY <1>1, ApiInvariant, PTL

(* The counters are those of the queue and within their bounds, and an       *)
(* identifier in use belongs to a request inside the session.                *)
THEOREM ApiAccounting == Spec => []Accounting
<1>1. IInv => Accounting
  BY DEF IInv, Ledger, Accounting, Counting
<1> QED
  BY <1>1, ApiInvariant, PTL

(* A request cancelled before `begin` is never the one that runs.            *)
THEOREM ApiCancelledNeverRuns == Spec => CancelledNeverRuns
<1>1. IInv /\ [Next]_vars => [executing' \notin precancelled]_vars
  <2> SUFFICES ASSUME IInv, Next PROVE executing' \notin precancelled
    OBVIOUS
  <2>1. executing \notin precancelled /\ 0 \notin precancelled
    BY DEF IInv, Ledger, TypeOK
  <2>2. executing' = executing \/ executing' = 0 \/ executing' \notin precancelled
    BY DEF Next, Environment, ReaderStep, ServerStep, Finished, vars, controlVars, ledger,
           ReadRequest, ReadInvalid, ReadOversize, SkipDone, ReadMalformed, ReadEof, ReadFails,
           Woken, ReaderOffer, Offer, OfferHalted, OfferCancel, OfferControl, OfferBadId,
           OfferWork, OfferFull, ReaderReject, RejectFrame, ReaderMalformed, Fatal, ReaderExit,
           ReaderExited, ServeInbound, NextInbound, ServeNextFatal, NextFatal, ServeFatal,
           ServeReaderExited, NextReaderExited, ServeWait, NextWait, ServeBegin, BeginCancelled,
           BeginRun, ServePlan, ServeApply, ServeRetire, Retire, ServeWrite, ServeStop, Stop,
           ServeWake, ServeReap, ServeDrain, Drain, ServeAnswer, ServeRecheck, ServeJoin
  <2> QED
    BY <2>1, <2>2
<1> QED
  BY <1>1, ApiInvariant, PTL DEF Spec, CancelledNeverRuns

=============================================================================
