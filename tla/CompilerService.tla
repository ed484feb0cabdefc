--------------------------- MODULE CompilerService ---------------------------
(* The language service of the compiler (crates/bamts-compiler/src/service):  *)
(* requests on several threads go through the limiter of AsyncService and the *)
(* write lock of SyncService to one ServiceState, which caches documents of a *)
(* file system that other programs change at any moment.  A request may be    *)
(* cancelled at any moment, and a panic of the compiler poisons the lock.     *)
(*                                                                            *)
(* A text is a number: write number n to the disk leaves text n with metadata *)
(* n behind (two writes never leave the same length and time), and Typed is   *)
(* what clients type.  Paths are normalized and inside the root.              *)
EXTENDS Naturals, FiniteSets

CONSTANTS
    Paths,
    Threads,      \* of the clients; each makes one request at a time
    MaxInFlight,  \* RequestLimiter::maximum
    Versions,     \* the document versions clients use
    Menu,         \* the requests clients make: operation, path, version, facade
    Shared,       \* the paths other programs write and delete
    MaxCalls,     \* bound on the requests
    MaxCancels,   \* bound on the tokens set
    MaxWrites     \* bound on the writes to the disk

ASSUME ServiceAssumption ==
    /\ MaxCalls \in Nat /\ MaxCancels \in Nat /\ MaxWrites \in Nat \ {0}
    /\ MaxInFlight \in Nat \ {0}
    /\ IsFiniteSet(Threads)
    /\ Versions \subseteq Nat \ {0}
    /\ Paths # {} /\ Shared \subseteq Paths
    /\ Menu \subseteq
           ({"open", "update"} \X Paths \X Versions \X {"async", "sync"})
           \cup ({"close", "query", "snapshot"} \X Paths \X {0} \X {"async", "sync"})

VARIABLES
    disk,       \* text of every file, Absent if there is none
    writes,     \* writes so far
    docs,       \* ServiceState::documents
    nextId,     \* ServiceState::next_source_id
    lock,       \* the threads that hold the RwLock for writing
    poisoned,   \* the RwLock is poisoned
    active,     \* RequestLimiter::active
    calls,      \* requests so far
    cancels,    \* tokens set so far
    req,        \* what the request of every thread does and knows
    cancelled,  \* the threads whose request has its token set
    torn        \* history: files close cached under the metadata of a later text

fileVars == <<disk, writes>>
stateVars == <<docs, nextId, torn>>
lockVars == <<lock, poisoned>>
vars == <<fileVars, stateVars, lockVars, active, calls, cancels, req, cancelled>>

Absent == 0
Typed == MaxWrites + 1

(* DocumentSnapshot; metadata None is Absent.                                 *)
NoDocument == [id |-> 0, version |-> 0, open |-> FALSE, text |-> Absent, meta |-> Absent,
               known |-> FALSE]

Document(i, v, o, t, m) ==
    [id |-> i, version |-> v, open |-> o, text |-> t, meta |-> m, known |-> TRUE]

Documents ==
    [id : Nat, version : Versions \cup {0}, open : BOOLEAN, text : 0..Typed,
     meta : 0..MaxWrites, known : BOOLEAN]

(* The operations: snapshot only reads; "query" is any of completions,        *)
(* definition, quick_info, references, rename and diagnostics.                *)
Operations == {"open", "update", "close", "query", "snapshot"}

Points == {"idle", "begin", "acquire", "recheck", "lock", "readText", "readMeta", "ensure",
           "loadText", "build", "commit", "drop"}

Results == {"none", "ok", "cancelled", "backpressure", "poisoned", "outOfOrder", "notOpen",
            "notFound", "failed", "panicked"}

Idle == [pc |-> "idle", op |-> "snapshot", path |-> CHOOSE p \in Paths : TRUE, version |-> 0,
         round |-> 1, seen |-> 0, permit |-> FALSE, staged |-> NoDocument, result |-> "none",
         since |-> Absent]

Init ==
    /\ disk = [p \in Paths |-> 1]
    /\ writes = 1
    /\ docs = [p \in Paths |-> NoDocument]
    /\ nextId = 0
    /\ lock = {}
    /\ poisoned = FALSE
    /\ active = 0
    /\ calls = 0
    /\ cancels = 0
    /\ req = [r \in Threads |-> Idle]
    /\ cancelled = {}
    /\ torn = {}

-----------------------------------------------------------------------------
(* The environment.                                                           *)

(* A request through AsyncService, or through SyncService, which has no       *)
(* limiter; only a query is compared with what the disk held at its call.     *)
Call(r, o, p, v, facade) ==
    /\ calls < MaxCalls
    /\ req[r].pc = "idle"
    /\ calls' = calls + 1
    /\ req' = [req EXCEPT ![r] =
                  [Idle EXCEPT !.pc = IF facade = "async" THEN "begin" ELSE "lock",
                               !.op = o, !.path = p, !.version = v,
                               !.since = IF o = "query" THEN disk[p] ELSE Absent]]
    /\ UNCHANGED <<fileVars, stateVars, lockVars, active, cancels, cancelled>>

(* CancellationToken::cancel.                                                 *)
Cancel(r) ==
    /\ cancels < MaxCancels
    /\ req[r].pc \notin {"idle", "drop"}
    /\ r \notin cancelled
    /\ cancels' = cancels + 1
    /\ cancelled' = cancelled \cup {r}
    /\ UNCHANGED <<fileVars, stateVars, lockVars, active, calls, req>>

(* Another program writes or deletes a file.                                  *)
WriteFile(p) ==
    /\ writes < MaxWrites
    /\ writes' = writes + 1
    /\ disk' = [disk EXCEPT ![p] = writes + 1]
    /\ UNCHANGED <<stateVars, lockVars, active, calls, cancels, req, cancelled>>

DeleteFile(p) ==
    /\ disk[p] # Absent
    /\ disk' = [disk EXCEPT ![p] = Absent]
    /\ UNCHANGED <<writes, stateVars, lockVars, active, calls, cancels, req, cancelled>>

-----------------------------------------------------------------------------
(* The call returns x, for a query with what it knows of the document: the    *)
(* guard of the lock is dropped, then the permit.                             *)
Answer(r, x, d) ==
    /\ req' = [req EXCEPT ![r].pc = "drop", ![r].result = x, ![r].staged = d, ![r].seen = 0]
    /\ lock' = lock \ {r}

Finish(r, x) == Answer(r, x, NoDocument)

Goto(r, pc) == req' = [req EXCEPT ![r].pc = pc] /\ UNCHANGED lock

(* AsyncService::begin, its first check and the load of try_acquire.          *)
Begin(r) ==
    /\ req[r].pc = "begin"
    /\ IF r \in cancelled THEN Finish(r, "cancelled")
       ELSE /\ req' = [req EXCEPT ![r].pc = "acquire", ![r].seen = active]
            /\ UNCHANGED lock
    /\ UNCHANGED <<fileVars, stateVars, poisoned, active, calls, cancels, cancelled>>

(* Fault: the counter is stored, not compared and exchanged.                  *)
Acquire_Store(r) ==
    /\ req[r].pc = "acquire"
    /\ \/ /\ req[r].seen >= MaxInFlight
          /\ Finish(r, "backpressure")
          /\ UNCHANGED active
       \/ /\ req[r].seen < MaxInFlight
          /\ active' = req[r].seen + 1
          /\ req' = [req EXCEPT ![r].pc = "recheck", ![r].permit = TRUE, ![r].seen = 0]
          /\ UNCHANGED lock
    /\ UNCHANGED <<fileVars, stateVars, poisoned, calls, cancels, cancelled>>

(* One turn of the loop of RequestLimiter::try_acquire.                       *)
Acquire(r) ==
    /\ req[r].pc = "acquire"
    /\ \/ /\ req[r].seen >= MaxInFlight
          /\ Finish(r, "backpressure")
          /\ UNCHANGED active
       \/ /\ req[r].seen < MaxInFlight
          /\ active = req[r].seen
          /\ active' = active + 1
          /\ req' = [req EXCEPT ![r].pc = "recheck", ![r].permit = TRUE, ![r].seen = 0]
          /\ UNCHANGED lock
       \/ /\ req[r].seen < MaxInFlight
          /\ active # req[r].seen
          /\ req' = [req EXCEPT ![r].seen = active]
          /\ UNCHANGED <<active, lock>>
    /\ UNCHANGED <<fileVars, stateVars, poisoned, calls, cancels, cancelled>>

(* The second check of begin.                                                 *)
Recheck(r) ==
    /\ req[r].pc = "recheck"
    /\ IF r \in cancelled THEN Finish(r, "cancelled") ELSE Goto(r, "lock")
    /\ UNCHANGED <<fileVars, stateVars, poisoned, active, calls, cancels, cancelled>>

(* RequestPermit::drop, for a request that has one, and the return.           *)
Drop(r) ==
    /\ req[r].pc = "drop"
    /\ active' = IF req[r].permit THEN active - 1 ELSE active
    /\ req' = [req EXCEPT ![r] = Idle]
    /\ cancelled' = cancelled \ {r}
    /\ UNCHANGED <<fileVars, stateVars, lockVars, calls, cancels>>

-----------------------------------------------------------------------------
(* ServiceState.                                                              *)

Stage(r, d) ==
    req' = [req EXCEPT ![r].pc = "build", ![r].version = 0, ![r].seen = 0, ![r].staged = d]

SourceIdFor(p) == IF docs[p].known THEN docs[p].id ELSE nextId

(* open_with_cancel, update_with_cancel and close_with_cancel up to what they *)
(* read or build, and the way of a query to its first step.                   *)
Enter(r) ==
    LET q == req[r]
        current == docs[q.path]
        stale == current.open /\ q.version <= current.version
        refusal == IF q.op # "query" /\ r \in cancelled THEN "cancelled"
                   ELSE IF q.op \in {"update", "close"} /\ ~current.open THEN "notOpen"
                   ELSE IF q.op \in {"open", "update"} /\ stale THEN "outOfOrder"
                   ELSE "none"
    IN  \/ refusal # "none" /\ Finish(r, refusal)
        \/ /\ refusal = "none"
           /\ lock' = lock \cup {r}
           /\ CASE q.op = "query" -> req' = [req EXCEPT ![r].pc = "ensure"]
                [] q.op = "close" -> req' = [req EXCEPT ![r].pc = "readText"]
                [] OTHER -> Stage(r, Document(SourceIdFor(q.path), q.version, TRUE, Typed, Absent))

(* Fault: the lock is taken for reading.                                      *)
Lock_Shared(r) ==
    /\ req[r].pc = "lock"
    /\ \/ poisoned /\ Finish(r, "poisoned")
       \/ ~poisoned /\ req[r].op = "snapshot" /\ Finish(r, "ok")
       \/ ~poisoned /\ req[r].op # "snapshot" /\ Enter(r)
    /\ UNCHANGED <<fileVars, stateVars, poisoned, active, calls, cancels, cancelled>>

(* SyncService: the lock is taken, and the state entered.                     *)
Lock(r) ==
    /\ req[r].pc = "lock"
    /\ lock = {}
    /\ \/ poisoned /\ Finish(r, "poisoned")
       \/ ~poisoned /\ req[r].op = "snapshot" /\ Finish(r, "ok")
       \/ ~poisoned /\ req[r].op # "snapshot" /\ Enter(r)
    /\ UNCHANGED <<fileVars, stateVars, poisoned, active, calls, cancels, cancelled>>

(* close_with_cancel: the file is read, then its metadata; a file that is     *)
(* gone takes the document with it, and one that cannot be read leaves it     *)
(* open.                                                                      *)
CloseReadsText(r) ==
    LET q == req[r]
    IN  /\ q.pc = "readText"
        /\ \/ /\ disk[q.path] # Absent
              /\ req' = [req EXCEPT ![r].pc = "readMeta",
                                    ![r].staged = Document(docs[q.path].id, 0, FALSE,
                                                           disk[q.path], Absent)]
              /\ UNCHANGED <<docs, torn, lock>>
           \/ /\ disk[q.path] = Absent /\ r \in cancelled
              /\ Finish(r, "cancelled")
              /\ UNCHANGED <<docs, torn>>
           \/ /\ disk[q.path] = Absent /\ r \notin cancelled
              /\ docs' = [docs EXCEPT ![q.path] = NoDocument]
              /\ torn' = torn \ {q.path}
              /\ Finish(r, "ok")
           \/ Finish(r, "failed") /\ UNCHANGED <<docs, torn>>
        /\ UNCHANGED <<fileVars, nextId, poisoned, active, calls, cancels, cancelled>>

CloseReadsMetadata(r) ==
    /\ req[r].pc = "readMeta"
    /\ Stage(r, [req[r].staged EXCEPT !.meta = disk[req[r].path]])
    /\ UNCHANGED <<fileVars, stateVars, lockVars, active, calls, cancels, cancelled>>

(* Whether the token stops the step: the second round of a query has its own. *)
Stopped(r) == r \in cancelled /\ req[r].round = 1

(* ensure_document_with_cancel returned d.  A query calls it, checks the      *)
(* token and calls its function of language_service.rs, which calls           *)
(* ensure_document again.                                                     *)
Ensured(r, d) ==
    \/ Stopped(r) /\ Finish(r, "cancelled")
    \/ /\ ~Stopped(r) /\ req[r].round = 1
       /\ req' = [req EXCEPT ![r].pc = "ensure", ![r].round = 2, ![r].staged = NoDocument]
       /\ UNCHANGED lock
    \/ req[r].round = 2 /\ Answer(r, "ok", d)

(* Fault: a cached document is used whatever its metadata.                    *)
Ensure_AnyCached(r) ==
    LET q == req[r]
        d == docs[q.path]
        stat == disk[q.path]
        usable == d.open \/ d.known
    IN  /\ q.pc = "ensure"
        /\ \/ Stopped(r) /\ Finish(r, "cancelled")
           \/ ~Stopped(r) /\ usable /\ Ensured(r, d)
           \/ ~Stopped(r) /\ ~usable /\ stat = Absent /\ Finish(r, "notFound")
           \/ /\ ~Stopped(r) /\ ~usable /\ stat # Absent
              /\ req' = [req EXCEPT ![r].pc = "loadText", ![r].seen = stat]
              /\ UNCHANGED lock
        /\ UNCHANGED <<fileVars, stateVars, poisoned, active, calls, cancels, cancelled>>

(* ensure_document_with_cancel up to the read: an open document is used as it *)
(* is, a cached one if its metadata are those of the file.                    *)
Ensure(r) ==
    LET q == req[r]
        d == docs[q.path]
        stat == disk[q.path]
        usable == d.open \/ (d.known /\ stat # Absent /\ d.meta = stat)
    IN  /\ q.pc = "ensure"
        /\ \/ Stopped(r) /\ Finish(r, "cancelled")
           \/ ~Stopped(r) /\ usable /\ Ensured(r, d)
           \/ ~Stopped(r) /\ ~usable /\ stat = Absent /\ Finish(r, "notFound")
           \/ /\ ~Stopped(r) /\ ~usable /\ stat # Absent
              /\ req' = [req EXCEPT ![r].pc = "loadText", ![r].seen = stat]
              /\ UNCHANGED lock
        /\ UNCHANGED <<fileVars, stateVars, poisoned, active, calls, cancels, cancelled>>

LoadText(r) ==
    LET q == req[r]
    IN  /\ q.pc = "loadText"
        /\ \/ /\ disk[q.path] # Absent
              /\ Stage(r, Document(SourceIdFor(q.path), 0, FALSE, disk[q.path], q.seen))
              /\ UNCHANGED lock
           \/ Finish(r, "failed")
        /\ UNCHANGED <<fileVars, stateVars, poisoned, active, calls, cancels, cancelled>>

(* Fault: a panic keeps the guard of the lock.                                *)
Build_KeepsLock(r) ==
    /\ req[r].pc = "build"
    /\ \/ Stopped(r) /\ Finish(r, "cancelled") /\ UNCHANGED poisoned
       \/ ~Stopped(r) /\ Goto(r, "commit") /\ UNCHANGED poisoned
       \/ ~Stopped(r) /\ Finish(r, "failed") /\ UNCHANGED poisoned
       \/ ~Stopped(r) /\ Goto(r, "drop") /\ poisoned' = TRUE
    /\ UNCHANGED <<fileVars, stateVars, active, calls, cancels, cancelled>>

(* build_snapshot_with_cancel: a text that is no source fails, and a panic of *)
(* the compiler unwinds through the guard of the lock and the permit.         *)
Build(r) ==
    /\ req[r].pc = "build"
    /\ \/ Stopped(r) /\ Finish(r, "cancelled") /\ UNCHANGED poisoned
       \/ ~Stopped(r) /\ Goto(r, "commit") /\ UNCHANGED poisoned
       \/ ~Stopped(r) /\ Finish(r, "failed") /\ UNCHANGED poisoned
       \/ ~Stopped(r) /\ Finish(r, "panicked") /\ poisoned' = TRUE
    /\ UNCHANGED <<fileVars, stateVars, active, calls, cancels, cancelled>>

(* Fault: the source id is not used up.                                       *)
CommitDocument_SameId(p, d) == docs' = [docs EXCEPT ![p] = d] /\ UNCHANGED nextId

(* commit_new_document and commit_replacement_document: the source id is      *)
(* used up by a document that was not known.                                  *)
CommitDocument(p, d) ==
    /\ docs' = [docs EXCEPT ![p] = d]
    /\ nextId' = IF docs[p].known THEN nextId ELSE nextId + 1

(* Fault: the token is checked after the document is inserted.                *)
Commit_Unchecked(r) ==
    LET q == req[r]
    IN  /\ q.pc = "commit"
        /\ CommitDocument(q.path, q.staged)
        /\ torn' = torn \ {q.path}
        /\ IF Stopped(r) THEN Finish(r, "cancelled")
           ELSE IF q.op = "query" THEN Ensured(r, q.staged) ELSE Finish(r, "ok")
        /\ UNCHANGED <<fileVars, poisoned, active, calls, cancels, cancelled>>

Commit(r) ==
    LET q == req[r]
        late == q.op = "close" /\ q.staged.meta \notin {q.staged.text, Absent}
    IN  /\ q.pc = "commit"
        /\ \/ Stopped(r) /\ Finish(r, "cancelled") /\ UNCHANGED stateVars
           \/ /\ ~Stopped(r)
              /\ CommitDocument(q.path, q.staged)
              /\ torn' = IF late THEN torn \cup {q.path} ELSE torn \ {q.path}
              /\ IF q.op = "query" THEN Ensured(r, q.staged) ELSE Finish(r, "ok")
        /\ UNCHANGED <<fileVars, poisoned, active, calls, cancels, cancelled>>

Step(r) ==
    \/ Begin(r) \/ Acquire(r) \/ Recheck(r) \/ Lock(r)
    \/ CloseReadsText(r) \/ CloseReadsMetadata(r) \/ Ensure(r) \/ LoadText(r)
    \/ Build(r) \/ Commit(r) \/ Drop(r)

Environment ==
    \/ \E r \in Threads, m \in Menu : Call(r, m[1], m[2], m[3], m[4])
    \/ \E r \in Threads : Cancel(r)
    \/ \E p \in Shared : WriteFile(p) \/ DeleteFile(p)

Next == Environment \/ \E r \in Threads : Step(r)

Spec == Init /\ [][Next]_vars

(* The threads of the requests are scheduled.                                 *)
LiveSpec == Spec /\ \A r \in Threads : WF_vars(Step(r))
-----------------------------------------------------------------------------
RequestType ==
    [pc : Points, op : Operations, path : Paths, version : Versions \cup {0}, round : 1..2,
     seen : Nat, permit : BOOLEAN, staged : Documents, result : Results,
     since : 0..MaxWrites]

TypeOK ==
    /\ disk \in [Paths -> 0..MaxWrites]
    /\ writes \in 0..MaxWrites
    /\ docs \in [Paths -> Documents]
    /\ nextId \in Nat
    /\ lock \subseteq Threads
    /\ poisoned \in BOOLEAN
    /\ active \in 0..MaxInFlight
    /\ calls \in 0..MaxCalls /\ cancels \in 0..MaxCancels
    /\ req \in [Threads -> RequestType]
    /\ cancelled \subseteq Threads
    /\ torn \subseteq Paths

(* The limiter counts the permits that are held, on every path through begin, *)
(* an error, a panic: no permit leaks, and none is granted beyond the maximum *)
(* by requests that race for the last one (try_acquire, RequestPermit::drop). *)
PermitsAreCounted ==
    /\ active = Cardinality({r \in Threads : req[r].permit})
    /\ active <= MaxInFlight

(* A source id never stands for two documents, although it is chosen before   *)
(* the document is built and used up after, requests fail in between, and     *)
(* close forgets documents: ids in use differ, and the next one is new        *)
(* (source_id_for, commit_source_id).                                         *)
SourceIdNamesOnePath ==
    \A p \in Paths : docs[p].known =>
        /\ docs[p].id < nextId
        /\ \A q \in Paths \ {p} : docs[q].known => docs[q].id # docs[p].id

(* A mutation that reports an error, by cancellation or otherwise, has        *)
(* changed nothing: a document changes only in the step in which the request  *)
(* that holds the lock succeeds, or in which a query fills the cache          *)
(* (commit_new_document, commit_replacement_document).                        *)
ErrorsChangeNothing ==
    [][\A p \in Paths : docs'[p] # docs[p] =>
          \E r \in lock : /\ req[r].path = p
                          /\ req[r].op # "query" => req'[r].result = "ok"]_vars

(* "open snapshot precedes disk until close": while a document is open, a     *)
(* query, a cancelled request or a change of the file never touches it, and   *)
(* its version only increases until a close.                                  *)
OpenPrecedesDisk ==
    [][\A p \in Paths : docs[p].open /\ docs'[p] # docs[p] =>
          \/ docs'[p].open /\ docs'[p].version > docs[p].version
          \/ ~docs'[p].open /\ \A r \in lock : req[r].op = "close"]_vars

(* A query answers from the client's text of an open document, or from a text *)
(* that was on the disk no earlier than the request, whenever the file was    *)
(* written between the steps that cached it: the cache never shows an older   *)
(* text.  Not so for a document that close cached, which reads the metadata   *)
(* last (ensure_document_with_cancel, completions .. diagnostics).            *)
AnswerIsCurrent ==
    [][\A r \in Threads :
          /\ req[r].op = "query" /\ req[r].result = "none" /\ req'[r].result = "ok"
          /\ req[r].path \notin torn'
          => req'[r].staged.open \/ req'[r].staged.text >= req[r].since]_vars

(* Every request is answered, whatever the others do: no permit, no lock and  *)
(* no poisoned lock holds it for good.                                        *)
RequestsComplete ==
    \A r \in Threads : req[r].pc \in {"begin", "lock"} ~> req[r].pc = "idle"
=============================================================================
