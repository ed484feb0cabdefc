------------------------------ MODULE ApiServer ------------------------------
(***************************************************************************)
(* One `--api` session: the reader thread (`reader_main`), the serving     *)
(* thread (`serve_reaped`) and the transport input they share, composed    *)
(* over the admission queue of ApiControl.                                 *)
(*                                                                         *)
(* The peer is the environment: it sends any request at any time, keeps    *)
(* the stream open and silent as long as it likes, or closes it.           *)
(***************************************************************************)
EXTENDS ApiControl

CONSTANTS
    Inputs,       \* the TransportInputs a session may have: "socket", "channel", ...
    MaxFrames,    \* bound on the frames the peer sends
    OutputFails,  \* whether a write to the output may fail
    ReaderFails   \* whether a read may fail, or the reader panic

ASSUME ServerAssumption ==
    /\ Inputs \subseteq {"socket", "channel", "poll", "stdin"}
    /\ MaxFrames \in Nat
    /\ OutputFails \in BOOLEAN /\ ReaderFails \in BOOLEAN

VARIABLES
    input,      \* the TransportInput of the session, given to `serve_reaped`
    reader,     \* the program point of `reader_main`
    held,       \* the request the reader has decoded and not yet offered
    carried,    \* history: that request was read while the serving loop ran
    abandoned,  \* history: that request was dropped by a halted `offer`
    exit,       \* the ReaderExit its guard will report
    frames,     \* how many frames the peer has sent
    wakes,      \* wake signals the input has not consumed
    server,     \* the program point of `serve_reaped`
    item,       \* the item being served
    response,   \* the response being built, "none" for None
    stopped,    \* `session.stopped`
    firstError, \* `first_error` is Some
    failed,     \* `reader_failure` is Some
    drained,    \* the rest of the list `drain` returned
    reaped,     \* `reader_reaped`
    output,     \* the responses written
    result      \* what `serve_reaped` returned

readerVars == <<reader, held, carried, abandoned, exit, frames>>
serverVars == <<server, item, response, stopped, firstError, failed, drained,
                reaped, output, result>>
vars == <<input, controlVars, readerVars, wakes, serverVars>>

NoRequest == [id |-> NoId, method |-> "none", target |-> NoId, bytes |-> 0]

Init ==
    /\ input \in Inputs
    /\ ControlInit
    /\ reader = "read" /\ held = NoRequest /\ carried = FALSE /\ abandoned = FALSE
    /\ exit = "none" /\ frames = 0
    /\ wakes = 0
    /\ server = "next" /\ item = Ctrl("shutdown") /\ response = "none"
    /\ stopped = FALSE /\ firstError = FALSE /\ failed = FALSE
    /\ drained = <<>> /\ reaped = FALSE /\ output = <<>> /\ result = "none"

-----------------------------------------------------------------------------
(***************************************************************************)
(* The reader thread.                                                      *)
(***************************************************************************)

\* `ReaderWaker::REAPABLE`.
Reapable == input # "stdin"

\* The serving loop has not been left.
InLoop == server \in {"next", "begin", "plan", "apply", "retire", "write", "fatal"}

\* The reader leaves its loop; its guard reports e.
Leave(e) == reader' = "exit" /\ exit' = e

\* `read_frame` returns a payload that decodes as a request.
ReadRequest(r) ==
    /\ reader = "read"
    /\ frames < MaxFrames
    /\ frames' = frames + 1
    /\ held' = r
    /\ carried' = InLoop
    /\ reader' = "offer"
    /\ UNCHANGED <<controlVars, serverVars, wakes, abandoned, exit>>

\* `read_frame` returns a payload that is not a request.
ReadInvalid ==
    /\ reader = "read"
    /\ frames < MaxFrames
    /\ frames' = frames + 1
    /\ reader' = "reject"
    /\ UNCHANGED <<controlVars, serverVars, wakes, held, carried, abandoned, exit>>

\* `drain_body` starts to skip an oversize body.
ReadOversize ==
    /\ reader = "read"
    /\ frames < MaxFrames
    /\ frames' = frames + 1
    /\ reader' = "skip"
    /\ UNCHANGED <<controlVars, serverVars, wakes, held, carried, abandoned, exit>>

\* `drain_body` has consumed the whole body.
SkipDone ==
    /\ reader = "skip"
    /\ reader' = "reject"
    /\ UNCHANGED <<controlVars, serverVars, wakes, held, carried, abandoned, exit, frames>>

\* Headers without a length, or a stream that ends inside a frame.
ReadMalformed ==
    /\ reader \in {"read", "skip"}
    /\ reader' = "malformed"
    /\ UNCHANGED <<controlVars, serverVars, wakes, held, carried, abandoned, exit, frames>>

\* The peer closes the stream at a frame boundary.
ReadEof ==
    /\ reader = "read"
    /\ Leave("eof")
    /\ UNCHANGED <<controlVars, serverVars, wakes, held, carried, abandoned, frames>>

\* The read fails, or the reader's thread unwinds.
ReadFails ==
    /\ ReaderFails
    /\ reader \in {"read", "skip"}
    /\ \E e \in {"failed", "panicked"} : Leave(e)
    /\ UNCHANGED <<controlVars, serverVars, wakes, held, carried, abandoned, frames>>

\* A wake reaches a reader that waits for bytes.  SocketWaker shuts the read
\* side down and ChannelWaker sends an empty chunk: the read returns 0, an end
\* of stream.  PollReader consumes one wake byte and fails with
\* ErrorKind::Interrupted, which `read_line` and `read_exact` retry and only
\* the plain `read` of `drain_body` lets through.
Woken ==
    /\ wakes > 0
    /\ \/ /\ input \in {"socket", "channel"}
          /\ reader = "read"
          /\ Leave("eof")
          /\ UNCHANGED wakes
       \/ /\ input \in {"socket", "channel"}
          /\ reader = "skip"
          /\ reader' = "malformed"
          /\ UNCHANGED <<exit, wakes>>
       \/ /\ input = "poll"
          /\ reader = "read"
          /\ wakes' = wakes - 1
          /\ UNCHANGED <<reader, exit>>
       \/ /\ input = "poll"
          /\ reader = "skip"
          /\ wakes' = wakes - 1
          /\ Leave("woken")
    /\ UNCHANGED <<controlVars, serverVars, held, carried, abandoned, frames>>

\* `control.offer(request)`; Halt ends the reader as woken.
ReaderOffer ==
    /\ reader = "offer"
    /\ \E adm \in {"accepted", "halt"} :
        /\ Offer(held, adm)
        /\ IF adm = "halt" THEN Leave("woken") ELSE reader' = "read" /\ UNCHANGED exit
    /\ IF Halted
       THEN abandoned' = TRUE /\ UNCHANGED <<held, carried>>
       ELSE held' = NoRequest /\ carried' = FALSE /\ UNCHANGED abandoned
    /\ UNCHANGED <<frames, wakes, serverVars>>

\* `control.reject(None, error)`.
ReaderReject ==
    /\ reader = "reject"
    /\ \E adm \in {"accepted", "halt"} :
        /\ RejectFrame(adm)
        /\ IF adm = "halt" THEN Leave("woken") ELSE reader' = "read" /\ UNCHANGED exit
    /\ UNCHANGED <<held, carried, abandoned, frames, wakes, serverVars>>

\* `control.fatal(...)`, after which the reader returns.
ReaderMalformed ==
    /\ reader = "malformed"
    /\ Fatal
    /\ Leave("woken")
    /\ UNCHANGED <<held, carried, abandoned, frames, wakes, serverVars>>

\* The drop of ReaderExitGuard, and the end of the thread.
ReaderExit ==
    /\ reader = "exit"
    /\ ReaderExited(exit)
    /\ reader' = "gone"
    /\ UNCHANGED <<held, carried, abandoned, exit, frames, wakes, serverVars>>

-----------------------------------------------------------------------------
(***************************************************************************)
(* The serving thread.                                                     *)
(***************************************************************************)

\* `write_terminal`: nothing is written after the first error.
WriteTerminal(t, i, code) ==
    \/ /\ ~firstError
       /\ output' = Append(output, [ticket |-> t, id |-> i, code |-> code])
       /\ UNCHANGED firstError
    \/ /\ ~firstError /\ OutputFails
       /\ firstError' = TRUE
       /\ UNCHANGED output
    \/ /\ firstError
       /\ UNCHANGED <<firstError, output>>

\* `control.next()` returns an item.
ServeInbound ==
    /\ server = "next"
    /\ NextInbound
    /\ item' = Head(queue)
    /\ server' = CASE Head(queue).kind = "work" -> "begin"
                   [] Head(queue).kind = "reject" -> "retire"
                   [] Head(queue).kind = "shutdown" -> "next"
                   [] Head(queue).kind = "exit" -> "stopInLoop"
    /\ response' = IF Head(queue).kind = "reject" THEN Head(queue).error ELSE "none"
    /\ UNCHANGED <<stopped, firstError, failed, drained, reaped, output, result>>
    /\ UNCHANGED <<readerVars, wakes>>

\* `control.next()` returns the fatal response.
ServeNextFatal ==
    /\ server = "next"
    /\ NextFatal
    /\ response' = fatal
    /\ server' = "fatal"
    /\ UNCHANGED <<item, stopped, firstError, failed, drained, reaped, output, result>>
    /\ UNCHANGED <<readerVars, wakes>>

\* The fatal response is written, with a null id, and logged.
ServeFatal ==
    /\ server = "fatal"
    /\ \/ WriteTerminal(0, NoId, response)
       \/ /\ ~firstError /\ OutputFails   \* the log cannot be written
          /\ output' = Append(output, [ticket |-> 0, id |-> NoId, code |-> response])
          /\ firstError' = TRUE
    /\ server' = "stopInLoop"
    /\ UNCHANGED <<item, response, stopped, failed, drained, reaped, result>>
    /\ UNCHANGED <<controlVars, readerVars, wakes>>

\* `control.next()` reports the reader's exit.
ServeReaderExited ==
    /\ server = "next"
    /\ NextReaderExited
    /\ failed' = (readerExit = "failed")
    /\ server' = "stop"
    /\ UNCHANGED <<item, response, stopped, firstError, drained, reaped, output, result>>
    /\ UNCHANGED <<readerVars, wakes>>

\* `control.next()` sleeps.
ServeWait ==
    /\ server = "next"
    /\ NextWait
    /\ UNCHANGED <<serverVars, readerVars, wakes>>

\* The code of a response to the item in hand: a notification has none.
Answer(code) == IF item.id = NoId THEN "none" ELSE code

\* `control.begin(...)`.
ServeBegin ==
    /\ server = "begin"
    /\ \/ /\ BeginCancelled(item.ticket)
          /\ response' = Answer("cancelled")
          /\ server' = "retire"
       \/ /\ BeginRun(item.ticket)
          /\ response' = "none"
          /\ server' = "plan"
    /\ UNCHANGED <<item, stopped, firstError, failed, drained, reaped, output, result>>
    /\ UNCHANGED <<readerVars, wakes>>

\* `session.plan`: the token is read once before the request is dispatched.
ServePlan ==
    /\ server = "plan"
    /\ response' = IF cancelled THEN Answer("cancelled") ELSE "none"
    /\ server' = IF cancelled THEN "retire" ELSE "apply"
    /\ UNCHANGED <<item, stopped, firstError, failed, drained, reaped, output, result>>
    /\ UNCHANGED <<controlVars, readerVars, wakes>>

\* `session.apply`: dispatch.  A request whose token is set while it runs may
\* complete all the same.  The `shutdown` request stops the session.
ServeApply ==
    /\ server = "apply"
    /\ \E code \in {"completed"} \union (IF cancelled THEN {"cancelled"} ELSE {}) :
        /\ item.method = "shutdown" => code = "completed"
        /\ response' = Answer(code)
    /\ stopped' = (stopped \/ item.method = "shutdown")
    /\ server' = "retire"
    /\ UNCHANGED <<item, firstError, failed, drained, reaped, output, result>>
    /\ UNCHANGED <<controlVars, readerVars, wakes>>

\* `control.retire(...)`, before the response is written.
ServeRetire ==
    /\ server = "retire"
    /\ Retire(item.ticket, item.id)
    /\ server' = "write"
    /\ UNCHANGED <<item, response, stopped, firstError, failed, drained, reaped, output, result>>
    /\ UNCHANGED <<readerVars, wakes>>

\* The response is written; an error or a stopped session leaves the loop.
ServeWrite ==
    /\ server = "write"
    /\ IF response = "none"
       THEN UNCHANGED <<firstError, output>>
       ELSE WriteTerminal(item.ticket, item.id, response)
    /\ server' = IF firstError' \/ stopped THEN "stopInLoop" ELSE "next"
    /\ UNCHANGED <<item, response, stopped, failed, drained, reaped, result>>
    /\ UNCHANGED <<controlVars, readerVars, wakes>>

\* `control.stop()`, in the arm that breaks the loop and again behind it.
ServeStop ==
    /\ server \in {"stopInLoop", "stop"}
    /\ Stop
    /\ server' = IF server = "stop" THEN "wake" ELSE "wakeInLoop"
    /\ UNCHANGED <<item, response, stopped, firstError, failed, drained, reaped, output, result>>
    /\ UNCHANGED <<readerVars, wakes>>

\* `waker.wake()`, likewise.  The waker of the Windows stdin does nothing.
ServeWake ==
    /\ server \in {"wakeInLoop", "wake"}
    /\ wakes' = IF Reapable THEN wakes + 1 ELSE wakes
    /\ server' = IF server = "wake" THEN "reap" ELSE "stop"
    /\ UNCHANGED <<item, response, stopped, firstError, failed, drained, reaped, output, result>>
    /\ UNCHANGED <<controlVars, readerVars>>

\* Fault: no deadline ends the wait for the reader.
ServeReap_NoDeadline ==
    /\ server = "reap"
    /\ Reapable => readerExit # "none"
    /\ reaped' = (Reapable /\ readerExit # "none")
    /\ server' = "drain"
    /\ UNCHANGED <<item, response, stopped, firstError, failed, drained, output, result>>
    /\ UNCHANGED <<controlVars, readerVars, wakes>>

\* `wait_reaped(REAP_DEADLINE)`: the reader's exit, or the deadline.
ServeReap ==
    /\ server = "reap"
    /\ reaped' = (Reapable /\ readerExit # "none")
    /\ server' = "drain"
    /\ UNCHANGED <<item, response, stopped, firstError, failed, drained, output, result>>
    /\ UNCHANGED <<controlVars, readerVars, wakes>>

\* `control.drain()`.
ServeDrain ==
    /\ server = "drain"
    /\ Drain
    /\ drained' = queue
    /\ server' = "answer"
    /\ UNCHANGED <<item, response, stopped, firstError, failed, reaped, output, result>>
    /\ UNCHANGED <<readerVars, wakes>>

\* Fault: the drain answers only the rejections.
ServeAnswer_RejectsOnly ==
    /\ server = "answer"
    /\ drained # <<>>
    /\ LET d == Head(drained) IN
        IF d.kind \in {"work", "reject"}
        THEN /\ Retire(d.ticket, d.id)
             /\ IF d.kind = "work"
                THEN UNCHANGED <<firstError, output>>
                ELSE WriteTerminal(d.ticket, d.id, d.error)
        ELSE UNCHANGED <<controlVars, firstError, output>>
    /\ drained' = Tail(drained)
    /\ UNCHANGED <<server, item, response, stopped, failed, reaped, result>>
    /\ UNCHANGED <<readerVars, wakes>>

\* One drained item: it is retired and, if a response is owed, answered.
ServeAnswer ==
    /\ server = "answer"
    /\ drained # <<>>
    /\ LET d == Head(drained) IN
        IF d.kind \in {"work", "reject"}
        THEN /\ Retire(d.ticket, d.id)
             /\ IF d.kind = "work" /\ d.id = NoId
                THEN UNCHANGED <<firstError, output>>
                ELSE WriteTerminal(d.ticket, d.id,
                                   IF d.kind = "work" THEN "cancelled" ELSE d.error)
        ELSE UNCHANGED <<controlVars, firstError, output>>
    /\ drained' = Tail(drained)
    /\ UNCHANGED <<server, item, response, stopped, failed, reaped, result>>
    /\ UNCHANGED <<readerVars, wakes>>

\* Fault: the reader's exit is not looked at again.
ServeRecheck_Once ==
    /\ server = "answer"
    /\ drained = <<>>
    /\ reaped' = reaped
    /\ server' = "join"
    /\ UNCHANGED <<item, response, stopped, firstError, failed, drained, output, result>>
    /\ UNCHANGED <<controlVars, readerVars, wakes>>

\* The second look at `reader_exit`, once the drain is written.
ServeRecheck ==
    /\ server = "answer"
    /\ drained = <<>>
    /\ reaped' = (reaped \/ (Reapable /\ readerExit # "none"))
    /\ server' = "join"
    /\ UNCHANGED <<item, response, stopped, firstError, failed, drained, output, result>>
    /\ UNCHANGED <<controlVars, readerVars, wakes>>

\* A reaped reader is joined and its error reported; another is abandoned.
ServeJoin ==
    /\ server = "join"
    /\ reaped => reader = "gone"
    /\ result' = IF \/ firstError
                    \/ failed
                    \/ reaped /\ exit \in {"failed", "panicked"}
                 THEN "error" ELSE "ok"
    /\ server' = "done"
    /\ UNCHANGED <<item, response, stopped, firstError, failed, drained, reaped, output>>
    /\ UNCHANGED <<controlVars, readerVars, wakes>>

-----------------------------------------------------------------------------
\* What the peer and the operating system decide.
Environment ==
    /\ \/ \E r \in Requests : ReadRequest(r)
       \/ ReadInvalid \/ ReadOversize \/ SkipDone \/ ReadMalformed \/ ReadEof \/ ReadFails
    /\ UNCHANGED input

\* What the reader does by itself.
ReaderStep ==
    /\ \/ ReaderOffer \/ ReaderReject \/ ReaderMalformed \/ ReaderExit \/ Woken
    /\ UNCHANGED input

ServerStep ==
    /\ \/ ServeInbound \/ ServeNextFatal \/ ServeFatal \/ ServeReaderExited \/ ServeWait
       \/ ServeBegin \/ ServePlan \/ ServeApply \/ ServeRetire \/ ServeWrite
       \/ ServeStop \/ ServeWake \/ ServeReap \/ ServeDrain \/ ServeAnswer
       \/ ServeRecheck \/ ServeJoin
    /\ UNCHANGED input

\* The session is over.
Finished == server = "done" /\ reader = "gone" /\ UNCHANGED vars

Next == Environment \/ ReaderStep \/ ServerStep \/ Finished

Spec == Init /\ [][Next]_vars

\* Both threads are scheduled; nothing is asked of the peer.
LiveSpec == Spec /\ WF_vars(ReaderStep) /\ WF_vars(ServerStep)

-----------------------------------------------------------------------------
(***************************************************************************)
(* Properties.                                                             *)
(***************************************************************************)

ItemType == [kind : {"work", "reject", "shutdown", "exit"}, ticket : Nat,
             id : Ids \union {NoId}, method : {"work", "shutdown", "none"},
             bytes : Nat, error : {"none", "invalid", "full", "bad"}]

Codes == {"completed", "cancelled", "invalid", "full", "bad", "flooded", "parse"}

\* Types.
TypeOK ==
    /\ input \in Inputs
    /\ queue \in Seq(ItemType) /\ drained \in Seq(ItemType) /\ item \in ItemType
    /\ queuedWork \in Nat /\ queuedBytes \in Nat /\ queuedRejects \in Nat
    /\ outstanding \in [Ids -> Nat] /\ precancelled \subseteq Nat \ {0}
    /\ executing \in Nat /\ nextTicket \in Nat \ {0} /\ owed \subseteq Nat \ {0}
    /\ cancelled \in BOOLEAN /\ stop \in BOOLEAN /\ waiting \in BOOLEAN
    /\ carried \in BOOLEAN /\ abandoned \in BOOLEAN /\ stopped \in BOOLEAN
    /\ firstError \in BOOLEAN /\ failed \in BOOLEAN /\ reaped \in BOOLEAN
    /\ readerExit \in {"none", "eof", "woken", "failed", "panicked"}
    /\ exit \in {"none", "eof", "woken", "failed", "panicked"}
    /\ fatal \in {"none", "flooded", "parse"}
    /\ reader \in {"read", "skip", "offer", "reject", "malformed", "exit", "gone"}
    /\ held \in Requests \union {NoRequest}
    /\ frames \in 0..MaxFrames /\ wakes \in 0..2
    /\ server \in {"next", "begin", "plan", "apply", "retire", "write", "fatal",
                   "stopInLoop", "wakeInLoop", "stop", "wake", "reap", "drain",
                   "answer", "join", "done"}
    /\ response \in Codes \union {"none"}
    /\ output \in Seq([ticket : Nat, id : Ids \union {NoId}, code : Codes])
    /\ result \in {"none", "ok", "error"}

\* A response is owed for this item.
Owes(d) == d.kind = "reject" \/ (d.kind = "work" /\ d.id # NoId)

\* The items that are admitted and not yet answered, wherever they are.
InHand == server \in {"begin", "plan", "apply", "retire", "write"}
Unanswered ==
    Items(queue) \union Items(drained) \union (IF InHand THEN {item} ELSE {})

Answered == {output[k].ticket : k \in 1..Len(output)} \ {0}

\* Every admitted request is either still inside the session or answered, and
\* the session ends with none inside: neither the drain nor a path of the
\* serving loop loses one.  (An output that failed can answer nothing more.)
ObligationsConserved ==
    /\ ~firstError => owed = Answered \union {d.ticket : d \in {u \in Unanswered : Owes(u)}}
    /\ (server = "done" /\ ~firstError) => owed = Answered

\* Responses leave in the order their requests were admitted, so none is
\* answered twice; the one response of a fatal error carries no ticket.
ResponsesInOrder ==
    \A j, k \in 1..Len(output) :
        (j < k /\ output[j].ticket # 0 /\ output[k].ticket # 0)
            => output[j].ticket < output[k].ticket

\* An identifier in use belongs to an admitted request that will free it, so
\* no identifier is ever reserved for good.
IdentifierHasOwner ==
    /\ \A i \in Ids : outstanding[i] # 0 =>
            \E u \in Unanswered : u.id = i /\ u.ticket = outstanding[i]
    /\ server = "done" => \A i \in Ids : outstanding[i] = 0

\* What admission decides by is what the session holds: the counters are those
\* of the queue, and the identifiers in use those of requests inside.  A share
\* that one path of `offer`, `next`, `retire` or `drain` forgets would refuse
\* requests for good.
Accounting == QueueCounts /\ IdentifierHasOwner

\* A request cancelled while it waits, or in the window between `next` and
\* `begin`, is never started.
CancelledNeverRuns == [][executing' \notin precancelled]_vars

\* A session whose reader has gone, or that was told to stop, ends, whatever
\* the peer sends or leaves unsent.  Writes are taken to return: a peer that
\* never reads the output is left out.
SessionEnds == (readerExit # "none" \/ stop) ~> server = "done"

\* Every admitted request is answered while the output works.
ObligationsMet == []<>(firstError \/ owed \subseteq Answered)

\* An error of the reader that is known before the last look is returned.
ReaderErrorReported ==
    (/\ Reapable /\ readerExit \in {"failed", "panicked"}
     /\ server \notin {"join", "done"}) ~> result = "error"

\* "Whether `wake` guarantees that an idle read returns promptly": a session
\* over a reapable input leaves no reader behind.
WakeEndsReader == (Reapable /\ server = "reap") ~> reader = "gone"

\* "Reaping the reader first is what makes that set well defined": when the
\* drain begins behind a reaped reader, the request that was being parsed when
\* the loop broke is not one that leaves unanswered.
CarriedIsAnswered ==
    (server = "drain" /\ reaped /\ ~firstError)
        => ~(carried /\ abandoned /\ held.id # NoId)
=============================================================================
