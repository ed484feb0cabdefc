----------------------------- MODULE ApiControl -----------------------------
(***************************************************************************)
(* The bounded admission queue of the `--api` transport and its            *)
(* cancellation ledger: `Control` of                                       *)
(* crates/bamts-cli/src/api_server/control.rs.                             *)
(*                                                                         *)
(* One mutex guards the whole of `Inner`, so every operation is one atomic *)
(* step.  An operation returns its answer through a parameter: Offer(r,    *)
(* "halt") is the call of `offer` that returns Admission::Halt.  ApiServer *)
(* composes these operations into the reader and the serving thread.       *)
(***************************************************************************)
EXTENDS Integers, Sequences, FiniteSets

CONSTANTS
    Ids,         \* request identifiers a client uses
    LongIds,     \* those longer than MAX_ID_BYTES
    Sizes,       \* frame body lengths
    NoId,        \* the identifier of a notification, and of a null response
    MaxWork,     \* MAX_QUEUED_WORK
    MaxBytes,    \* MAX_QUEUED_BYTES
    MaxRejects   \* MAX_QUEUED_REJECTS

ASSUME ControlAssumption ==
    /\ LongIds \subseteq Ids /\ NoId \notin Ids
    /\ Sizes \subseteq Nat
    /\ MaxWork \in Nat /\ MaxBytes \in Nat /\ MaxRejects \in Nat

VARIABLES
    queue,         \* the items between the reader and the serving thread
    queuedWork,    \* `queued_work`
    queuedBytes,   \* `queued_bytes`
    queuedRejects, \* `queued_rejects`
    outstanding,   \* the ticket of each identifier in use, 0 when it is free
    precancelled,  \* tickets cancelled before they began
    executing,     \* the ticket of the request that runs, 0 for None
    cancelled,     \* the CancellationToken of that request is set
    nextTicket,    \* `next_ticket`
    stop,          \* `stop`
    readerExit,    \* `reader_exit`, "none" for None
    fatal,         \* `fatal`, "none" for None
    waiting,       \* the serving thread sleeps on the condvar `ready`
    owed           \* history: the tickets admitted with a response to come

counters == <<queuedWork, queuedBytes, queuedRejects>>
ledger == <<outstanding, precancelled, executing, cancelled>>
controlVars == <<queue, counters, ledger, nextTicket, stop, readerExit, fatal,
                 waiting, owed>>

\* A decoded frame: an absent id marks a notification.
Requests ==
    [id : Ids, method : {"work", "shutdown"}, target : {NoId}, bytes : Sizes]
        \union
    [id : {NoId}, method : {"work", "shutdown", "exit"}, target : {NoId}, bytes : Sizes]
        \union
    [id : {NoId}, method : {"cancel"}, target : Ids \union {NoId}, bytes : Sizes]

\* `Inbound`: work, a rejection to answer, or a control item.
Work(t, r) == [kind |-> "work", ticket |-> t, id |-> r.id, method |-> r.method,
               bytes |-> r.bytes, error |-> "none"]
Reject(t, i, e) == [kind |-> "reject", ticket |-> t, id |-> i, method |-> "none",
                    bytes |-> 0, error |-> e]
Ctrl(k) == [kind |-> k, ticket |-> 0, id |-> NoId, method |-> "none",
            bytes |-> 0, error |-> "none"]

ControlInit ==
    /\ queue = <<>>
    /\ queuedWork = 0 /\ queuedBytes = 0 /\ queuedRejects = 0
    /\ outstanding = [i \in Ids |-> 0]
    /\ precancelled = {}
    /\ executing = 0 /\ cancelled = FALSE
    /\ nextTicket = 1
    /\ stop = FALSE
    /\ readerExit = "none"
    /\ fatal = "none"
    /\ waiting = FALSE
    /\ owed = {}

-----------------------------------------------------------------------------
(***************************************************************************)
(* Admission, called by the reader.                                        *)
(***************************************************************************)

\* `ready.notify_one()` and `notify_all()`: at most one thread waits.
Notify == waiting' = FALSE

\* The early return of `offer` and `reject`.
Halted == stop \/ fatal # "none"

\* `offer` or `reject` once the session is ending: nothing is touched.
OfferHalted(adm) ==
    /\ Halted
    /\ adm = "halt"
    /\ UNCHANGED controlVars

\* `cancel_locked`: an identifier that is not outstanding is ignored.
CancelLocked(i) ==
    IF executing # 0 /\ outstanding[i] = executing
    THEN cancelled' = TRUE /\ UNCHANGED precancelled
    ELSE /\ precancelled' = precancelled \union ({outstanding[i]} \ {0})
         /\ UNCHANGED cancelled

\* The `$/cancelRequest` notification; one without a usable id does nothing.
OfferCancel(r, adm) ==
    /\ r.id = NoId /\ r.method = "cancel"
    /\ adm = "accepted"
    /\ IF r.target = NoId
       THEN UNCHANGED <<precancelled, cancelled>>
       ELSE CancelLocked(r.target)
    /\ Notify
    /\ UNCHANGED <<queue, counters, outstanding, executing, nextTicket, stop,
                   readerExit, fatal, owed>>

\* The `shutdown` and `exit` notifications: `queue_control` keeps at most one
\* item of a kind, and `exit` also ends the reader.
OfferControl(r, adm) ==
    /\ r.id = NoId /\ r.method \in {"shutdown", "exit"}
    /\ adm = IF r.method = "exit" THEN "halt" ELSE "accepted"
    /\ queue' = IF \E k \in 1..Len(queue) : queue[k].kind = r.method
                THEN queue ELSE Append(queue, Ctrl(r.method))
    /\ Notify
    /\ UNCHANGED <<counters, ledger, nextTicket, stop, readerExit, fatal, owed>>

\* Fault: a rejection overtakes the work that waits.
QueueRejectLocked_Front(i, e, adm, out) ==
    IF queuedRejects >= MaxRejects
    THEN /\ outstanding' = [k \in Ids |-> IF out[k] = nextTicket THEN 0 ELSE out[k]]
         /\ stop' = TRUE
         /\ fatal' = "flooded"
         /\ adm = "halt"
         /\ UNCHANGED <<queue, queuedRejects, owed>>
    ELSE /\ outstanding' = out
         /\ queuedRejects' = queuedRejects + 1
         /\ queue' = <<Reject(nextTicket, i, e)>> \o queue
         /\ owed' = owed \union {nextTicket}
         /\ adm = "accepted"
         /\ UNCHANGED <<stop, fatal>>

\* `queue_reject_locked` for the ticket just allocated; `out` is `outstanding`
\* as the caller leaves it.  A full reject partition ends the session.
QueueRejectLocked(i, e, adm, out) ==
    IF queuedRejects >= MaxRejects
    THEN /\ outstanding' = [k \in Ids |-> IF out[k] = nextTicket THEN 0 ELSE out[k]]
         /\ stop' = TRUE
         /\ fatal' = "flooded"
         /\ adm = "halt"
         /\ UNCHANGED <<queue, queuedRejects, owed>>
    ELSE /\ outstanding' = out
         /\ queuedRejects' = queuedRejects + 1
         /\ queue' = Append(queue, Reject(nextTicket, i, e))
         /\ owed' = owed \union {nextTicket}
         /\ adm = "accepted"
         /\ UNCHANGED <<stop, fatal>>

\* Fault: the count alone decides.
Room_CountOnly(b) == queuedWork < MaxWork

\* The work partition has room for one more item of b bytes.
Room(b) == queuedWork < MaxWork /\ queuedBytes + b <= MaxBytes

\* An identifier that is too long, or already in use.
OfferBadId(r, adm) ==
    /\ r.id \in LongIds \/ (r.id \in Ids /\ outstanding[r.id] # 0)
    /\ QueueRejectLocked(IF r.id \in LongIds THEN NoId ELSE r.id, "invalid", adm, outstanding)
    /\ nextTicket' = nextTicket + 1
    /\ Notify
    /\ UNCHANGED <<queuedWork, queuedBytes, precancelled, executing, cancelled, readerExit>>

\* Admissible: a notification, or a request whose identifier is free.
Admissible(r) ==
    IF r.id = NoId THEN r.method = "work"
    ELSE r.id \notin LongIds /\ outstanding[r.id] = 0

\* `outstanding` with the identifier of r, if it has one, given to t.
Reserve(r, t) == [i \in Ids |-> IF i = r.id THEN t ELSE outstanding[i]]

\* Fault: the item is queued and not counted.
OfferWork_Uncounted(r, adm) ==
    /\ Admissible(r)
    /\ Room(r.bytes)
    /\ adm = "accepted"
    /\ outstanding' = Reserve(r, nextTicket)
    /\ queue' = Append(queue, Work(nextTicket, r))
    /\ owed' = IF r.id = NoId THEN owed ELSE owed \union {nextTicket}
    /\ nextTicket' = nextTicket + 1
    /\ Notify
    /\ UNCHANGED <<counters, precancelled, executing, cancelled, stop, readerExit, fatal>>

\* A request or notification that finds room.
OfferWork(r, adm) ==
    /\ Admissible(r)
    /\ Room(r.bytes)
    /\ adm = "accepted"
    /\ outstanding' = Reserve(r, nextTicket)
    /\ queuedWork' = queuedWork + 1
    /\ queuedBytes' = queuedBytes + r.bytes
    /\ queue' = Append(queue, Work(nextTicket, r))
    /\ owed' = IF r.id = NoId THEN owed ELSE owed \union {nextTicket}
    /\ nextTicket' = nextTicket + 1
    /\ Notify
    /\ UNCHANGED <<queuedRejects, precancelled, executing, cancelled, stop,
                   readerExit, fatal>>

\* A request that finds none: it is answered, and keeps its identifier until
\* then.  A notification is dropped without a trace but its ticket.
OfferFull(r, adm) ==
    /\ Admissible(r)
    /\ ~Room(r.bytes)
    /\ IF r.id = NoId
       THEN /\ adm = "accepted"
            /\ UNCHANGED <<queue, queuedRejects, outstanding, stop, fatal, waiting, owed>>
       ELSE /\ QueueRejectLocked(r.id, "full", adm, Reserve(r, nextTicket))
            /\ Notify
    /\ nextTicket' = nextTicket + 1
    /\ UNCHANGED <<queuedWork, queuedBytes, precancelled, executing, cancelled, readerExit>>

\* `offer`.
Offer(r, adm) ==
    \/ OfferHalted(adm)
    \/ /\ ~Halted
       /\ \/ OfferCancel(r, adm)
          \/ OfferControl(r, adm)
          \/ OfferBadId(r, adm)
          \/ OfferWork(r, adm)
          \/ OfferFull(r, adm)

\* `reject`, for a body that is not a request and for an oversize frame.
RejectFrame(adm) ==
    \/ OfferHalted(adm)
    \/ /\ ~Halted
       /\ QueueRejectLocked(NoId, "bad", adm, outstanding)
       /\ nextTicket' = nextTicket + 1
       /\ Notify
       /\ UNCHANGED <<queuedWork, queuedBytes, precancelled, executing, cancelled, readerExit>>

\* `fatal`, for headers that leave no body length.
Fatal ==
    /\ fatal' = IF fatal = "none" THEN "parse" ELSE fatal
    /\ stop' = TRUE
    /\ Notify
    /\ UNCHANGED <<queue, counters, ledger, nextTicket, readerExit, owed>>

\* `reader_exited`, run by the drop of the reader's guard.
ReaderExited(exit) ==
    /\ readerExit' = IF readerExit = "none" THEN exit ELSE readerExit
    /\ Notify
    /\ UNCHANGED <<queue, counters, ledger, nextTicket, stop, fatal, owed>>

-----------------------------------------------------------------------------
(***************************************************************************)
(* Service, called by the serving thread.                                  *)
(***************************************************************************)

\* `next` pops the oldest item.
NextInbound ==
    /\ ~waiting
    /\ queue # <<>>
    /\ LET item == Head(queue) IN
        /\ queuedWork' = queuedWork - (IF item.kind = "work" THEN 1 ELSE 0)
        /\ queuedBytes' = queuedBytes - (IF item.kind = "work" THEN item.bytes ELSE 0)
        /\ queuedRejects' = queuedRejects - (IF item.kind = "reject" THEN 1 ELSE 0)
    /\ queue' = Tail(queue)
    /\ UNCHANGED <<ledger, nextTicket, stop, readerExit, fatal, waiting, owed>>

\* `next` takes the fatal response once the queue is empty.
NextFatal ==
    /\ ~waiting
    /\ queue = <<>>
    /\ fatal # "none"
    /\ fatal' = "none"
    /\ UNCHANGED <<queue, counters, ledger, nextTicket, stop, readerExit, waiting, owed>>

\* `next` reports the reader's exit once nothing is left to serve.
NextReaderExited ==
    /\ ~waiting
    /\ queue = <<>>
    /\ fatal = "none"
    /\ readerExit # "none"
    /\ UNCHANGED controlVars

\* `next` finds nothing and sleeps on `ready`, which releases the mutex.
NextWait ==
    /\ ~waiting
    /\ queue = <<>> /\ fatal = "none" /\ readerExit = "none"
    /\ waiting' = TRUE
    /\ UNCHANGED <<queue, counters, ledger, nextTicket, stop, readerExit, fatal, owed>>

\* `begin` refuses a ticket cancelled while it waited.
BeginCancelled(t) ==
    /\ t \in precancelled
    /\ precancelled' = precancelled \ {t}
    /\ UNCHANGED <<queue, counters, outstanding, executing, cancelled, nextTicket, stop,
                   readerExit, fatal, waiting, owed>>

\* Fault: `begin` does not look at the ledger.
BeginRun_Unchecked(t) ==
    /\ executing' = t
    /\ cancelled' = FALSE
    /\ UNCHANGED <<queue, counters, outstanding, precancelled, nextTicket, stop,
                   readerExit, fatal, waiting, owed>>

\* `begin` starts a ticket with a fresh token.
BeginRun(t) ==
    /\ t \notin precancelled
    /\ executing' = t
    /\ cancelled' = FALSE
    /\ UNCHANGED <<queue, counters, outstanding, precancelled, nextTicket, stop,
                   readerExit, fatal, waiting, owed>>

\* Fault: `retire` leaves the cancellation behind.
Retire_KeepCancel(t, i) ==
    /\ outstanding' = [k \in Ids |-> IF k = i /\ outstanding[k] = t THEN 0 ELSE outstanding[k]]
    /\ executing' = IF executing = t THEN 0 ELSE executing
    /\ cancelled' = IF executing = t THEN FALSE ELSE cancelled
    /\ UNCHANGED <<queue, counters, precancelled, nextTicket, stop, readerExit, fatal,
                   waiting, owed>>

\* `retire`: only the ticket that holds the identifier frees it.  The token is
\* dropped with the execution it belongs to.
Retire(t, i) ==
    /\ outstanding' = [k \in Ids |-> IF k = i /\ outstanding[k] = t THEN 0 ELSE outstanding[k]]
    /\ executing' = IF executing = t THEN 0 ELSE executing
    /\ cancelled' = IF executing = t THEN FALSE ELSE cancelled
    /\ precancelled' = precancelled \ {t}
    /\ UNCHANGED <<queue, counters, nextTicket, stop, readerExit, fatal, waiting, owed>>

\* `stop`.
Stop ==
    /\ stop' = TRUE
    /\ Notify
    /\ UNCHANGED <<queue, counters, ledger, nextTicket, readerExit, fatal, owed>>

\* `drain`: the caller receives the queue.
Drain ==
    /\ queue' = <<>>
    /\ queuedWork' = 0 /\ queuedBytes' = 0 /\ queuedRejects' = 0
    /\ UNCHANGED <<ledger, nextTicket, stop, readerExit, fatal, waiting, owed>>

-----------------------------------------------------------------------------
(***************************************************************************)
(* Properties of the ledger alone.                                         *)
(***************************************************************************)

\* The items of a sequence, those of one kind that wait, and the bytes that
\* items hold, each byte under the ticket it came with.
Items(s) == {s[k] : k \in 1..Len(s)}
OfKind(k) == {q \in Items(queue) : q.kind = k}
BytesOf(items) == UNION {{q.ticket} \X (1..q.bytes) : q \in items}

\* The counters that admission decides by are those of the queue, within their
\* bounds, whatever the order of `offer`, `next` and `drain`.
QueueCounts ==
    /\ queuedWork = Cardinality(OfKind("work")) /\ queuedWork <= MaxWork
    /\ queuedBytes = Cardinality(BytesOf(OfKind("work"))) /\ queuedBytes <= MaxBytes
    /\ queuedRejects = Cardinality(OfKind("reject")) /\ queuedRejects <= MaxRejects
    /\ \A j, k \in 1..Len(queue) :
            (queue[j].kind = queue[k].kind /\ queue[j].kind \in {"shutdown", "exit"}) => j = k

\* Only a ticket that still holds its identifier can be marked cancelled: a
\* late `$/cancelRequest` never reaches a request that reuses the identifier,
\* and the ledger cannot grow beyond the requests in flight.
CancellationIsLive ==
    \A t \in precancelled : \E i \in Ids : outstanding[i] = t
=============================================================================
