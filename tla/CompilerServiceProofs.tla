------------------------ MODULE CompilerServiceProofs ------------------------
(* Proofs about CompilerService, for every set of paths, every finite set of  *)
(* threads, any limit of the limiter and any number of requests,              *)
(* cancellations and writes.                                                  *)
EXTENDS CompilerService, FiniteSetTheorems, TLAPS

(* The program points between Lock and the return, where the state is entered. *)
Inside == {"readText", "readMeta", "ensure", "loadText", "build", "commit"}

(* The write lock has one owner, and whoever is inside is the owner.          *)
LockShape ==
    /\ \A r, s \in lock : r = s
    /\ \A r \in Threads : r \in lock <=> req[r].pc \in Inside

(* What a request inside knows stays true until it commits: nobody else may   *)
(* change the document it was entered for, nor use up its source id.          *)
Purpose(q) ==
    /\ q.pc \in {"idle", "begin", "acquire"} => ~q.permit
    /\ q.pc \in {"ensure", "loadText"} => q.op = "query"
    /\ q.pc \in {"readText", "readMeta"} => q.op = "close" /\ docs[q.path].known
    /\ q.pc = "readMeta" => ~q.staged.open
    /\ q.pc \in {"readMeta", "build", "commit"} =>
           /\ q.op # "snapshot"
           /\ q.staged.known /\ q.staged.id = SourceIdFor(q.path)
    /\ q.pc = "loadText" => ~docs[q.path].open
    /\ q.pc \in {"build", "commit"} =>
           /\ q.op \in {"open", "update"} =>
                 /\ q.staged.open
                 /\ docs[q.path].open => q.staged.version > docs[q.path].version
           /\ q.op = "close" => docs[q.path].known /\ ~q.staged.open
           /\ q.op = "query" => ~docs[q.path].open /\ ~q.staged.open

(* Text t of file p was written, and not after what is on the disk now.       *)
NotNewer(p, t) == t <= writes /\ (disk[p] # Absent => t <= disk[p])

(* What a request read is not newer than the disk; a query reads the metadata *)
(* first, so the text it goes with is not older than they are.                *)
Reading(q) ==
    /\ q.pc = "loadText" => q.seen # Absent /\ NotNewer(q.path, q.seen)
    /\ q.pc = "readMeta" => NotNewer(q.path, q.staged.text)
    /\ q.pc \in {"build", "commit"} =>
           /\ q.op \in {"close", "query"} => NotNewer(q.path, q.staged.text)
           /\ q.op = "query" => q.staged.meta <= q.staged.text /\ q.since <= q.staged.text
    /\ q.op = "query" =>
           q.since <= writes /\ (disk[q.path] # Absent => q.since <= disk[q.path])

DocumentShape ==
    \A p \in Paths :
        /\ docs[p].open => docs[p].known
        /\ docs[p].known /\ ~docs[p].open /\ docs[p].meta # Absent /\ p \notin torn =>
              docs[p].meta <= docs[p].text /\ NotNewer(p, docs[p].text)

DiskShape == \A p \in Paths : disk[p] <= writes

Requests == \A r \in Threads : Purpose(req[r]) /\ Reading(req[r])

IInv ==
    /\ TypeOK
    /\ LockShape
    /\ DiskShape
    /\ DocumentShape
    /\ SourceIdNamesOnePath
    /\ Requests
    /\ PermitsAreCounted

-----------------------------------------------------------------------------
LEMMA IdleTypes == Idle \in RequestType
<1>1. (CHOOSE p \in Paths : TRUE) \in Paths
  BY ServiceAssumption
<1>2. NoDocument \in Documents
  BY ServiceAssumption DEF NoDocument, Documents, Absent, Typed
<1>3. Absent \in 0..MaxWrites
  BY ServiceAssumption DEF Absent
<1> QED
  BY <1>1, <1>2, <1>3 DEF Idle, RequestType, Points, Operations, Results

(* The absent document is a document.                                         *)
LEMMA NoDocumentTypes == NoDocument \in Documents
BY ServiceAssumption DEF NoDocument, Documents, Absent, Typed

(* ServiceState::new establishes the invariant.                               *)
THEOREM ServiceInit == Init => IInv
<1> SUFFICES ASSUME Init PROVE IInv
  OBVIOUS
<1>1. TypeOK
  <2>1. poisoned \in BOOLEAN
    BY Zenon DEF Init
  <2>2. /\ disk \in [Paths -> 0..MaxWrites] /\ writes \in 0..MaxWrites
        /\ active \in 0..MaxInFlight
        /\ calls \in 0..MaxCalls /\ cancels \in 0..MaxCancels
    BY ServiceAssumption DEF Init
  <2>3. docs \in [Paths -> Documents] /\ req \in [Threads -> RequestType]
    BY IdleTypes, NoDocumentTypes DEF Init
  <2> QED
    BY <2>1, <2>2, <2>3 DEF Init, TypeOK
<1>2. LockShape
  BY DEF Init, LockShape, Idle, Inside
<1>3. DiskShape
  BY DEF Init, DiskShape
<1>4. DocumentShape /\ SourceIdNamesOnePath
  BY DEF Init, DocumentShape, SourceIdNamesOnePath, NoDocument
<1>5. Requests
  BY DEF Init, Requests, Purpose, Reading, Idle
<1>6. PermitsAreCounted
  <2>1. {r \in Threads : req[r].permit} = {}
    BY DEF Init, Idle
  <2> QED
    BY <2>1, FS_EmptySet, ServiceAssumption DEF Init, PermitsAreCounted
<1> QED
  BY <1>1, <1>2, <1>3, <1>4, <1>5, <1>6 DEF IInv

-----------------------------------------------------------------------------
(* Only request r changes.                                                    *)
Only(r) == /\ req' \in [Threads -> RequestType]
           /\ \A s \in Threads \ {r} : req'[s] = req[s]

(* A step that gives request r a permit, takes it, or leaves it alone, counts. *)
LEMMA PermitStep ==
    ASSUME IInv, NEW r \in Threads, Only(r),
           \/ req'[r].permit = req[r].permit /\ active' = active
           \/ /\ ~req[r].permit /\ req'[r].permit
              /\ active < MaxInFlight /\ active' = active + 1
           \/ req[r].permit /\ ~req'[r].permit /\ active' = active - 1
    PROVE  PermitsAreCounted' /\ active' \in 0..MaxInFlight
<1> DEFINE P == {s \in Threads : req[s].permit}
           Q == {s \in Threads : req'[s].permit}
<1>1. /\ active = Cardinality(P) /\ active \in 0..MaxInFlight /\ MaxInFlight \in Nat
      /\ IsFiniteSet(P)
  BY FS_Subset, ServiceAssumption DEF IInv, TypeOK, PermitsAreCounted
<1>2. CASE req'[r].permit = req[r].permit /\ active' = active
  <2>1. Q = P
    BY <1>2 DEF Only
  <2>2. Cardinality(Q) = active
    BY <1>1, <2>1
  <2> QED
    BY <1>1, <1>2, <2>2 DEF PermitsAreCounted
<1>3. CASE /\ ~req[r].permit /\ req'[r].permit
           /\ active < MaxInFlight /\ active' = active + 1
  <2>1. Q = P \cup {r} /\ r \notin P
    BY <1>3 DEF Only
  <2>2. Cardinality(Q) = active + 1
    BY <1>1, <2>1, FS_AddElement
  <2> QED
    BY <1>1, <1>3, <2>2 DEF PermitsAreCounted
<1>4. CASE req[r].permit /\ ~req'[r].permit /\ active' = active - 1
  <2>1. Q = P \ {r} /\ r \in P
    BY <1>4 DEF Only
  <2>2. Cardinality(Q) = active - 1
    BY <1>1, <2>1, FS_RemoveElement
  <2>3. active # 0
    BY <1>1, <2>1, FS_EmptySet
  <2> QED
    BY <1>1, <1>4, <2>2, <2>3 DEF PermitsAreCounted
<1> QED
  BY <1>2, <1>3, <1>4

(* How a step of r may change the owner of the lock.                          *)
LockMove(r) ==
    \/ lock' = lock /\ (req'[r].pc \in Inside <=> req[r].pc \in Inside)
    \/ lock = {} /\ lock' = lock \cup {r} /\ req'[r].pc \in Inside
    \/ lock' = lock \ {r} /\ req'[r].pc \notin Inside

(* A step of one thread that takes, keeps or leaves the lock keeps its shape. *)
LEMMA LockStep ==
    ASSUME IInv, NEW r \in Threads, Only(r), LockMove(r)
    PROVE  LockShape' /\ lock' \subseteq Threads
<1>1. LockShape /\ lock \subseteq Threads
  BY DEF IInv, TypeOK
<1>2. lock' \subseteq Threads
  BY <1>1 DEF LockMove
<1>3. (\A s, t \in lock : s = t)'
  BY <1>1 DEF LockMove, LockShape
<1>4. \A s \in Threads : s \in lock' <=> req'[s].pc \in Inside
  BY <1>1 DEF LockMove, LockShape, Only
<1> QED
  BY <1>2, <1>3, <1>4 DEF LockShape

(* A step of r that changes neither files nor documents keeps the invariant   *)
(* if what it knows is right.                                                 *)
LEMMA LocalStep ==
    ASSUME IInv, NEW r \in Threads, Only(r), LockMove(r),
           UNCHANGED <<fileVars, stateVars>>,
           PermitsAreCounted' /\ active' \in 0..MaxInFlight,
           poisoned' \in BOOLEAN, calls' \in 0..MaxCalls, cancels' = cancels,
           cancelled' \subseteq Threads,
           Purpose(req'[r]), Reading(req'[r])
    PROVE  IInv'
<1>1. TypeOK'
  BY LockStep DEF IInv, TypeOK, Only, fileVars, stateVars
<1>2. LockShape'
  BY LockStep
<1>3. DiskShape' /\ DocumentShape' /\ SourceIdNamesOnePath'
  BY DEF IInv, DiskShape, DocumentShape, SourceIdNamesOnePath, NotNewer, fileVars, stateVars
<1>4. Requests'
  BY DEF IInv, Requests, Only, Purpose, Reading, NotNewer, SourceIdFor, fileVars, stateVars
<1> QED
  BY <1>1, <1>2, <1>3, <1>4 DEF IInv

(* The answer of a call.                                                      *)
LEMMA AnswerShape ==
    ASSUME IInv, NEW r \in Threads, NEW x \in Results, NEW d \in Documents, Answer(r, x, d)
    PROVE  /\ Only(r) /\ LockMove(r)
           /\ req'[r].permit = req[r].permit
           /\ req'[r].pc = "drop" /\ req'[r].op = req[r].op
           /\ req'[r].result = x /\ req'[r].staged = d
           /\ Purpose(req'[r]) /\ Reading(req'[r])
<1>1. TypeOK /\ Requests
  BY DEF IInv
<1>2. req[r] \in RequestType
  BY <1>1 DEF TypeOK
<1>3. Only(r)
  BY <1>1, <1>2 DEF Answer, Only, TypeOK, RequestType, Points
<1>4. /\ req'[r].permit = req[r].permit /\ req'[r].pc = "drop"
      /\ req'[r].result = x /\ req'[r].staged = d
      /\ req'[r].op = req[r].op /\ req'[r].path = req[r].path
      /\ req'[r].since = req[r].since
  BY <1>1, <1>2 DEF Answer, TypeOK, RequestType
<1>5. LockMove(r)
  BY <1>4 DEF Answer, LockMove, Inside
<1>6. Purpose(req'[r]) /\ Reading(req'[r])
  BY <1>1, <1>4 DEF Requests, Purpose, Reading
<1> QED
  BY <1>3, <1>4, <1>5, <1>6

(* A step that answers and leaves files and documents alone.                  *)
LEMMA AnswerStep ==
    ASSUME IInv, NEW r \in Threads, NEW x \in Results, NEW d \in Documents, Answer(r, x, d),
           UNCHANGED <<fileVars, stateVars, active, calls, cancels, cancelled>>,
           poisoned' \in BOOLEAN
    PROVE  IInv'
<1>1. TypeOK
  BY DEF IInv
<1>2. PermitsAreCounted' /\ active' \in 0..MaxInFlight
  BY AnswerShape, PermitStep
<1> QED
  BY <1>1, <1>2, AnswerShape, LocalStep DEF TypeOK

-----------------------------------------------------------------------------
(* The environment.                                                           *)

(* A call starts a request with nothing read and no permit.                   *)
LEMMA CallKeeps ==
    ASSUME IInv, NEW r \in Threads, NEW m \in Menu, Call(r, m[1], m[2], m[3], m[4])
    PROVE  IInv'
<1> DEFINE pc == IF m[4] = "async" THEN "begin" ELSE "lock"
           since == IF m[1] = "query" THEN disk[m[2]] ELSE Absent
<1>1. /\ TypeOK /\ DiskShape /\ Requests /\ req[r].pc = "idle"
      /\ calls < MaxCalls /\ calls' = calls + 1
      /\ req' = [req EXCEPT ![r] = [Idle EXCEPT !.pc = pc, !.op = m[1], !.path = m[2],
                                                !.version = m[3], !.since = since]]
      /\ UNCHANGED <<fileVars, stateVars, lockVars, active, cancels, cancelled>>
  BY DEF IInv, Call
<1>2. m[1] \in Operations /\ m[2] \in Paths /\ m[3] \in Versions \cup {0}
  BY ServiceAssumption DEF Operations
<1>3. since \in 0..MaxWrites /\ pc \in {"begin", "lock"}
  BY <1>1, <1>2, ServiceAssumption DEF TypeOK, Absent
<1>4. Only(r)
  <2>1. [Idle EXCEPT !.pc = pc, !.op = m[1], !.path = m[2], !.version = m[3], !.since = since]
           \in RequestType
    BY <1>2, <1>3, IdleTypes DEF RequestType, Points
  <2> QED
    BY <1>1, <2>1 DEF Only, TypeOK
<1>5. /\ req'[r].pc = pc /\ req'[r].op = m[1] /\ req'[r].path = m[2]
      /\ req'[r].since = since /\ req'[r].permit = FALSE
  BY <1>1 DEF TypeOK, Idle
<1>6. req[r].permit = FALSE
  BY <1>1 DEF Requests, Purpose, TypeOK, RequestType
<1>7. PermitsAreCounted' /\ active' \in 0..MaxInFlight
  BY <1>1, <1>4, <1>5, <1>6, PermitStep
<1>8. LockMove(r)
  BY <1>1, <1>3, <1>5 DEF LockMove, lockVars, Inside
<1>9. Purpose(req'[r])
  BY <1>3, <1>5 DEF Purpose
<1>10. Reading(req'[r])
  BY <1>1, <1>2, <1>3, <1>5 DEF Reading, DiskShape, TypeOK
<1>11. calls' \in 0..MaxCalls /\ poisoned' \in BOOLEAN /\ cancelled' \subseteq Threads
  BY <1>1, ServiceAssumption DEF TypeOK, lockVars
<1> QED
  BY <1>1, <1>4, <1>7, <1>8, <1>9, <1>10, <1>11, LocalStep

(* A cancellation touches only the token.                                     *)
LEMMA CancelKeeps == ASSUME NEW r \in Threads PROVE IInv /\ Cancel(r) => IInv'
<1> SUFFICES ASSUME IInv, Cancel(r) PROVE IInv'
  OBVIOUS
<1>1. /\ UNCHANGED <<fileVars, stateVars, lockVars, active, calls, req>>
      /\ cancels < MaxCancels /\ cancels' = cancels + 1 /\ cancelled' = cancelled \cup {r}
  BY DEF Cancel
<1>2. TypeOK'
  BY <1>1, ServiceAssumption DEF IInv, TypeOK, fileVars, stateVars, lockVars
<1>3. LockShape' /\ DiskShape' /\ SourceIdNamesOnePath' /\ PermitsAreCounted'
  BY <1>1
  DEF IInv, LockShape, DiskShape, SourceIdNamesOnePath, PermitsAreCounted, fileVars,
      stateVars, lockVars
<1>4. DocumentShape' /\ Requests'
  BY <1>1
  DEF IInv, DocumentShape, Requests, Purpose, Reading, NotNewer, SourceIdFor, fileVars,
      stateVars
<1> QED
  BY <1>2, <1>3, <1>4 DEF IInv

(* Whatever was not newer than the file is not newer than what is written     *)
(* now, and a file that is gone is compared with nothing.                     *)
LEMMA FilesKeep ==
    ASSUME IInv, NEW p \in Paths, WriteFile(p) \/ DeleteFile(p)
    PROVE  IInv'
<1>1. /\ TypeOK /\ DiskShape /\ DocumentShape /\ Requests
      /\ UNCHANGED <<stateVars, lockVars, active, calls, cancels, req, cancelled>>
  BY DEF IInv, WriteFile, DeleteFile
<1>2. /\ writes' \in 0..MaxWrites /\ writes <= writes'
      /\ disk' \in [Paths -> 0..MaxWrites]
      /\ \A q \in Paths :
            \/ disk'[q] = disk[q] \/ disk'[q] = Absent
            \/ disk'[q] = writes' /\ writes' = writes + 1
  <2>1. CASE WriteFile(p)
    <3>1. writes < MaxWrites /\ writes' = writes + 1 /\ disk' = [disk EXCEPT ![p] = writes + 1]
      BY <2>1 DEF WriteFile
    <3> QED
      BY <1>1, <3>1, ServiceAssumption DEF TypeOK
  <2>2. CASE DeleteFile(p)
    <3>1. writes' = writes /\ disk' = [disk EXCEPT ![p] = Absent]
      BY <2>2 DEF DeleteFile
    <3>2. Absent \in 0..MaxWrites /\ writes \in 0..MaxWrites /\ disk \in [Paths -> 0..MaxWrites]
      BY <1>1, ServiceAssumption DEF TypeOK, Absent
    <3>3. writes' \in 0..MaxWrites /\ writes <= writes' /\ disk' \in [Paths -> 0..MaxWrites]
      BY <3>1, <3>2, ServiceAssumption
    <3>4. \A q \in Paths : disk'[q] = disk[q] \/ disk'[q] = Absent
      BY <3>1, <3>2
    <3> QED
      BY <3>3, <3>4
  <2> QED
    BY <2>1, <2>2
<1>3. TypeOK'
  BY <1>1, <1>2 DEF TypeOK, stateVars, lockVars
<1>4. LockShape' /\ SourceIdNamesOnePath' /\ PermitsAreCounted'
  BY <1>1 DEF IInv, LockShape, SourceIdNamesOnePath, PermitsAreCounted, stateVars, lockVars
<1>5. DiskShape'
  BY <1>1, <1>2 DEF DiskShape, Absent, TypeOK
<1>6. \A q \in Paths, t \in Nat : NotNewer(q, t) => NotNewer(q, t)'
  BY <1>1, <1>2 DEF NotNewer, TypeOK, Absent
<1>7. DocumentShape'
  BY <1>1, <1>6 DEF DocumentShape, TypeOK, Documents, stateVars, Typed
<1>8. Requests'
  <2> SUFFICES ASSUME NEW s \in Threads PROVE Purpose(req[s])' /\ Reading(req[s])'
    BY DEF Requests
  <2>1. /\ req'[s] = req[s] /\ Purpose(req[s]) /\ Reading(req[s])
        /\ req[s] \in RequestType
    BY <1>1 DEF Requests, TypeOK
  <2>2. Purpose(req[s])'
    BY <1>1, <2>1 DEF Purpose, SourceIdFor, stateVars
  <2>3. /\ req[s].path \in Paths /\ req[s].staged.text \in Nat /\ req[s].seen \in Nat
        /\ req[s].since \in Nat
    BY <2>1, ServiceAssumption DEF RequestType, Documents, Typed
  <2>4. Reading(req[s])'
    <3>1. req[s].op = "query" =>
             /\ req[s].since <= writes'
             /\ disk'[req[s].path] # Absent => req[s].since <= disk'[req[s].path]
      BY <1>1, <1>2, <2>1, <2>3 DEF Reading, TypeOK
    <3> QED
      BY <1>6, <2>1, <2>3, <3>1 DEF Reading
  <2> QED
    BY <2>2, <2>4
<1> QED
  BY <1>3, <1>4, <1>5, <1>7, <1>8 DEF IInv

-----------------------------------------------------------------------------
(* The limiter.                                                               *)

(* begin asks the limiter or answers a cancelled request.                     *)
LEMMA BeginKeeps == ASSUME IInv, NEW r \in Threads, Begin(r) PROVE IInv'
<1>1. /\ TypeOK /\ Requests /\ req[r] \in RequestType /\ req[r].pc = "begin"
      /\ UNCHANGED <<fileVars, stateVars, poisoned, active, calls, cancels, cancelled>>
  BY DEF IInv, Begin, TypeOK
<1>2. CASE Finish(r, "cancelled")
  BY <1>1, <1>2, AnswerStep, NoDocumentTypes DEF Finish, Results, TypeOK
<1>3. CASE req' = [req EXCEPT ![r].pc = "acquire", ![r].seen = active] /\ UNCHANGED lock
  <2>1. Only(r)
    <3>1. active \in Nat
      BY <1>1, ServiceAssumption DEF TypeOK
    <3> QED
      BY <1>1, <1>3, <3>1 DEF Only, TypeOK, RequestType, Points
  <2>2. /\ req'[r].pc = "acquire" /\ req'[r].op = req[r].op /\ req'[r].path = req[r].path
        /\ req'[r].since = req[r].since /\ req'[r].permit = req[r].permit
    BY <1>1, <1>3 DEF TypeOK, RequestType
  <2>3. PermitsAreCounted' /\ active' \in 0..MaxInFlight
    BY <1>1, <2>1, <2>2, PermitStep
  <2>4. LockMove(r)
    BY <1>1, <1>3, <2>2 DEF LockMove, Inside
  <2>5. Purpose(req'[r]) /\ Reading(req'[r])
    BY <1>1, <2>2 DEF Purpose, Reading, Requests
  <2> QED
    BY <1>1, <2>1, <2>3, <2>4, <2>5, LocalStep DEF TypeOK
<1> QED
  BY <1>2, <1>3 DEF Begin

(* try_acquire takes a permit below the maximum, or refuses.                  *)
LEMMA AcquireKeeps == ASSUME IInv, NEW r \in Threads, Acquire(r) PROVE IInv'
<1>1. /\ TypeOK /\ Requests /\ req[r] \in RequestType /\ req[r].pc = "acquire"
      /\ UNCHANGED <<fileVars, stateVars, poisoned, calls, cancels, cancelled>>
  BY DEF IInv, Acquire, TypeOK
<1>2. CASE Finish(r, "backpressure") /\ UNCHANGED active
  BY <1>1, <1>2, AnswerStep, NoDocumentTypes DEF Finish, Results, TypeOK
<1>3. CASE /\ req[r].seen < MaxInFlight /\ active = req[r].seen /\ active' = active + 1
           /\ req' = [req EXCEPT ![r].pc = "recheck", ![r].permit = TRUE, ![r].seen = 0]
           /\ UNCHANGED lock
  <2>1. Only(r)
    <3>1. req' = [req EXCEPT ![r] = [req[r] EXCEPT !.pc = "recheck", !.permit = TRUE, !.seen = 0]]
      BY <1>1, <1>3 DEF TypeOK
    <3>2. [req[r] EXCEPT !.pc = "recheck", !.permit = TRUE, !.seen = 0] \in RequestType
      BY <1>1 DEF RequestType, Points
    <3> QED
      BY <1>1, <3>1, <3>2 DEF Only, TypeOK
  <2>2. /\ req'[r].pc = "recheck" /\ req'[r].op = req[r].op /\ req'[r].path = req[r].path
        /\ req'[r].since = req[r].since /\ req'[r].permit
    BY <1>1, <1>3 DEF TypeOK, RequestType
  <2>3. ~req[r].permit
    BY <1>1 DEF Requests, Purpose
  <2>4. PermitsAreCounted' /\ active' \in 0..MaxInFlight
    BY <1>3, <2>1, <2>2, <2>3, PermitStep
  <2>5. LockMove(r)
    BY <1>1, <1>3, <2>2 DEF LockMove, Inside
  <2>6. Purpose(req'[r]) /\ Reading(req'[r])
    BY <1>1, <2>2 DEF Purpose, Reading, Requests
  <2> QED
    BY <1>1, <2>1, <2>4, <2>5, <2>6, LocalStep DEF TypeOK
<1>4. CASE req' = [req EXCEPT ![r].seen = active] /\ UNCHANGED <<active, lock>>
  <2>1. Only(r)
    <3>1. active \in Nat
      BY <1>1, ServiceAssumption DEF TypeOK
    <3> QED
      BY <1>1, <1>4, <3>1 DEF Only, TypeOK, RequestType, Points
  <2>2. /\ req'[r].pc = "acquire" /\ req'[r].op = req[r].op /\ req'[r].path = req[r].path
        /\ req'[r].since = req[r].since /\ req'[r].permit = req[r].permit
    BY <1>1, <1>4 DEF TypeOK, RequestType
  <2>3. PermitsAreCounted' /\ active' \in 0..MaxInFlight
    BY <1>4, <2>1, <2>2, PermitStep
  <2>4. LockMove(r)
    BY <1>1, <1>4, <2>2 DEF LockMove, Inside
  <2>5. Purpose(req'[r]) /\ Reading(req'[r])
    BY <1>1, <2>2 DEF Purpose, Reading, Requests
  <2> QED
    BY <1>1, <2>1, <2>3, <2>4, <2>5, LocalStep DEF TypeOK
<1> QED
  BY <1>2, <1>3, <1>4 DEF Acquire

(* A step to program point pc that changes nothing else.                      *)
LEMMA GotoShape ==
    ASSUME IInv, NEW r \in Threads, NEW pc \in Points, Goto(r, pc)
    PROVE  /\ Only(r) /\ lock' = lock
           /\ req'[r] = [req[r] EXCEPT !.pc = pc]
           /\ req'[r].pc = pc /\ req'[r].permit = req[r].permit
           /\ req'[r].op = req[r].op /\ req'[r].path = req[r].path
           /\ req'[r].since = req[r].since /\ req'[r].staged = req[r].staged
<1>1. TypeOK /\ req[r] \in RequestType
  BY DEF IInv, TypeOK
<1>2. req' = [req EXCEPT ![r].pc = pc] /\ lock' = lock
  BY DEF Goto
<1>3. Only(r)
  BY <1>1, <1>2 DEF Only, TypeOK, RequestType
<1> QED
  BY <1>1, <1>2, <1>3 DEF TypeOK, RequestType

(* The second look at the token gives the permit back or goes on.             *)
LEMMA RecheckKeeps == ASSUME IInv, NEW r \in Threads, Recheck(r) PROVE IInv'
<1>1. /\ TypeOK /\ Requests /\ req[r].pc = "recheck"
      /\ UNCHANGED <<fileVars, stateVars, poisoned, active, calls, cancels, cancelled>>
  BY DEF IInv, Recheck
<1>2. CASE Finish(r, "cancelled")
  BY <1>1, <1>2, AnswerStep, NoDocumentTypes DEF Finish, Results, TypeOK
<1>3. CASE Goto(r, "lock")
  <2>1. /\ Only(r) /\ lock' = lock /\ req'[r].pc = "lock" /\ req'[r].permit = req[r].permit
        /\ req'[r].op = req[r].op /\ req'[r].path = req[r].path
        /\ req'[r].since = req[r].since
    BY <1>3, GotoShape DEF Points
  <2>2. PermitsAreCounted' /\ active' \in 0..MaxInFlight
    BY <1>1, <2>1, PermitStep
  <2>3. LockMove(r)
    BY <1>1, <2>1 DEF LockMove, Inside
  <2>4. Purpose(req'[r]) /\ Reading(req'[r])
    BY <1>1, <2>1 DEF Purpose, Reading, Requests
  <2> QED
    BY <1>1, <2>1, <2>2, <2>3, <2>4, LocalStep DEF TypeOK
<1> QED
  BY <1>2, <1>3 DEF Recheck

(* The end of a request gives its permit back.                                *)
LEMMA DropKeeps == ASSUME IInv, NEW r \in Threads, Drop(r) PROVE IInv'
<1>1. /\ TypeOK /\ req[r] \in RequestType /\ req[r].pc = "drop"
      /\ active' = IF req[r].permit THEN active - 1 ELSE active
      /\ req' = [req EXCEPT ![r] = Idle] /\ cancelled' = cancelled \ {r}
      /\ UNCHANGED <<fileVars, stateVars, lockVars, calls, cancels>>
  BY DEF IInv, Drop, TypeOK
<1>2. Only(r)
  BY <1>1, IdleTypes DEF Only, TypeOK
<1>3. req'[r].pc = "idle" /\ req'[r].op = "snapshot" /\ req'[r].permit = FALSE
  BY <1>1 DEF TypeOK, Idle
<1>4. PermitsAreCounted' /\ active' \in 0..MaxInFlight
  <2>1. req[r].permit \in BOOLEAN
    BY <1>1 DEF RequestType
  <2>2. CASE req[r].permit = TRUE
    BY <1>1, <1>2, <1>3, <2>2, PermitStep
  <2>3. CASE req[r].permit = FALSE
    BY <1>1, <1>2, <1>3, <2>3, PermitStep
  <2> QED
    BY <2>1, <2>2, <2>3
<1>5. LockMove(r)
  BY <1>1, <1>3 DEF LockMove, Inside, lockVars
<1>6. Purpose(req'[r]) /\ Reading(req'[r])
  BY <1>3 DEF Purpose, Reading
<1>7. poisoned' \in BOOLEAN /\ calls' \in 0..MaxCalls /\ cancelled' \subseteq Threads
  BY <1>1 DEF TypeOK, lockVars
<1> QED
  BY <1>1, <1>2, <1>4, <1>5, <1>6, <1>7, LocalStep

-----------------------------------------------------------------------------
(* ServiceState.                                                              *)

(* Stage, up to the lock: request r builds document d.                        *)
LEMMA StageShape ==
    ASSUME IInv, NEW r \in Threads, NEW d \in Documents, Stage(r, d)
    PROVE  /\ Only(r)
           /\ req'[r].pc = "build" /\ req'[r].permit = req[r].permit
           /\ req'[r].op = req[r].op /\ req'[r].path = req[r].path
           /\ req'[r].since = req[r].since /\ req'[r].staged = d
<1>1. TypeOK /\ req[r] \in RequestType
  BY DEF IInv, TypeOK
<1>2. req' = [req EXCEPT ![r].pc = "build", ![r].version = 0, ![r].seen = 0, ![r].staged = d]
  BY DEF Stage
<1>3. Only(r)
  BY <1>1, <1>2 DEF Only, TypeOK, RequestType, Points
<1> QED
  BY <1>1, <1>2, <1>3 DEF TypeOK, RequestType

(* Versions are natural numbers.                                              *)
LEMMA VersionTypes == \A v \in Versions \cup {0} : v \in Nat
BY ServiceAssumption

(* The identifier a document would get is a number.                           *)
LEMMA SourceIdType == ASSUME IInv, NEW p \in Paths PROVE SourceIdFor(p) \in Nat
BY DEF IInv, TypeOK, SourceIdFor, Documents

(* The entry into the lock, with the checks of open, update and close.        *)
LEMMA LockKeeps == ASSUME IInv, NEW r \in Threads, Lock(r) PROVE IInv'
<1> DEFINE q == req[r]
<1>1. /\ TypeOK /\ Requests /\ LockShape /\ q \in RequestType /\ q.pc = "lock" /\ lock = {}
      /\ UNCHANGED <<fileVars, stateVars, poisoned, active, calls, cancels, cancelled>>
  BY DEF IInv, Lock, TypeOK
<1>2. ASSUME NEW x \in Results, Finish(r, x) PROVE IInv'
  BY <1>1, <1>2, AnswerStep, NoDocumentTypes DEF Finish, TypeOK
<1>3. CASE (poisoned /\ Finish(r, "poisoned")) \/ Finish(r, "ok")
  BY <1>2, <1>3 DEF Results
<1>4. CASE q.op # "snapshot" /\ Enter(r)
  <2> DEFINE current == docs[q.path]
             stale == current.open /\ q.version <= current.version
  <2>1. q.path \in Paths /\ current \in Documents
    BY <1>1 DEF TypeOK, RequestType
  <2>2. CASE \E x \in Results : Finish(r, x)
    BY <1>2, <2>2
  <2>3. CASE /\ lock' = lock \cup {r} /\ q.op \in {"query", "close"}
             /\ q.op = "close" => current.open
             /\ req' = [req EXCEPT ![r].pc = IF q.op = "query" THEN "ensure" ELSE "readText"]
    <3> DEFINE pc == IF q.op = "query" THEN "ensure" ELSE "readText"
    <3>1. pc \in Points /\ pc \in Inside
      BY DEF Points, Inside
    <3>2. Only(r)
      BY <1>1, <2>3, <3>1 DEF Only, TypeOK, RequestType
    <3>3. /\ req'[r].pc = pc /\ req'[r].permit = q.permit /\ req'[r].op = q.op
          /\ req'[r].path = q.path /\ req'[r].since = q.since
      BY <1>1, <2>3 DEF TypeOK, RequestType
    <3>4. PermitsAreCounted' /\ active' \in 0..MaxInFlight
      BY <1>1, <3>2, <3>3, PermitStep
    <3>5. LockMove(r)
      BY <1>1, <2>3, <3>1, <3>3 DEF LockMove
    <3>6. current.open => current.known
      BY <2>1 DEF IInv, DocumentShape
    <3>7. Purpose(req'[r]) /\ Reading(req'[r])
      BY <1>1, <2>3, <3>3, <3>6 DEF Purpose, Reading, Requests
    <3> QED
      BY <1>1, <3>2, <3>4, <3>5, <3>7, LocalStep DEF TypeOK
  <2>4. CASE /\ lock' = lock \cup {r} /\ q.op \in {"open", "update"} /\ ~stale
             /\ Stage(r, Document(SourceIdFor(q.path), q.version, TRUE, Typed, Absent))
    <3> DEFINE d == Document(SourceIdFor(q.path), q.version, TRUE, Typed, Absent)
    <3>1. /\ d \in Documents /\ d.known /\ d.open /\ d.id = SourceIdFor(q.path)
          /\ d.version = q.version
      <4>1. /\ SourceIdFor(q.path) \in Nat /\ q.version \in Versions \cup {0}
            /\ Typed \in 0..Typed /\ Absent \in 0..MaxWrites
        BY <1>1, <2>1, SourceIdType, ServiceAssumption DEF RequestType, Typed, Absent
      <4> HIDE DEF q
      <4> QED
        BY <4>1 DEF Document, Documents
    <3> HIDE DEF d
    <3>2. Stage(r, d)
      BY <2>4 DEF d
    <3>3. /\ Only(r)
          /\ req'[r].pc = "build" /\ req'[r].permit = q.permit
          /\ req'[r].op = q.op /\ req'[r].path = q.path
          /\ req'[r].since = q.since /\ req'[r].staged = d
      BY <3>1, <3>2, StageShape
    <3>4. PermitsAreCounted' /\ active' \in 0..MaxInFlight
      BY <1>1, <3>3, PermitStep
    <3>5. LockMove(r)
      BY <1>1, <2>4, <3>3 DEF LockMove, Inside
    <3>6. current.open => q.version > current.version
      <4>1. q.version \in Nat /\ current.version \in Nat
        BY <1>1, <2>1, VersionTypes DEF RequestType, Documents
      <4> QED
        BY <2>4, <4>1
    <3>7. Purpose(req'[r]) /\ Reading(req'[r])
      BY <2>4, <3>1, <3>3, <3>6 DEF Purpose, Reading
    <3> QED
      BY <1>1, <3>3, <3>4, <3>5, <3>7, LocalStep DEF TypeOK
  <2>5. q.op \in {"open", "update", "close", "query"}
    BY <1>1, <1>4 DEF RequestType, Operations
  <2> QED
    BY <1>4, <2>2, <2>3, <2>4, <2>5 DEF Enter, Results
<1> QED
  BY <1>3, <1>4 DEF Lock

(* close has read the text and now reads the metadata.                        *)
LEMMA CloseReadsMetadataKeeps ==
    ASSUME IInv, NEW r \in Threads, CloseReadsMetadata(r) PROVE IInv'
<1> DEFINE q == req[r]
           d == [q.staged EXCEPT !.meta = disk[q.path]]
<1>1. /\ TypeOK /\ Requests /\ q \in RequestType /\ q.pc = "readMeta" /\ Stage(r, d)
      /\ UNCHANGED <<fileVars, stateVars, lockVars, active, calls, cancels, cancelled>>
  BY DEF IInv, CloseReadsMetadata, TypeOK
<1>2. q.path \in Paths /\ q.staged \in Documents /\ disk[q.path] \in 0..MaxWrites
  BY <1>1 DEF TypeOK, RequestType
<1>3. /\ d \in Documents /\ d.known = q.staged.known /\ d.open = q.staged.open
      /\ d.id = q.staged.id /\ d.text = q.staged.text
  BY <1>2 DEF Documents
<1>4. q.op = "close" /\ docs[q.path].known /\ q.staged.known
      /\ q.staged.id = SourceIdFor(q.path) /\ ~q.staged.open
      /\ NotNewer(q.path, q.staged.text)
  BY <1>1 DEF Requests, Purpose, Reading
<1> HIDE DEF d
<1>5. /\ Only(r)
      /\ req'[r].pc = "build" /\ req'[r].permit = q.permit
      /\ req'[r].op = q.op /\ req'[r].path = q.path
      /\ req'[r].since = q.since /\ req'[r].staged = d
  BY <1>1, <1>3, StageShape
<1>6. PermitsAreCounted' /\ active' \in 0..MaxInFlight
  BY <1>1, <1>5, PermitStep
<1>7. LockMove(r)
  BY <1>1, <1>5 DEF LockMove, Inside, lockVars
<1>8. Purpose(req'[r]) /\ Reading(req'[r])
  BY <1>3, <1>4, <1>5 DEF Purpose, Reading
<1> QED
  BY <1>1, <1>5, <1>6, <1>7, <1>8, LocalStep DEF TypeOK, lockVars

(* The request of a query that ensures its document again.                    *)
LEMMA RoundTypes ==
    ASSUME NEW q \in RequestType
    PROVE  [q EXCEPT !.pc = "ensure", !.round = 2, !.staged = NoDocument] \in RequestType
<1>1. "ensure" \in Points /\ 2 \in 1..2
  BY DEF Points
<1> QED
  BY <1>1, NoDocumentTypes DEF RequestType

(* The second round of a query begins.                                        *)
LEMMA SecondRound ==
    ASSUME IInv, NEW r \in Threads, req[r].op = "query", req[r].pc \in Inside,
           req' = [req EXCEPT ![r].pc = "ensure", ![r].round = 2, ![r].staged = NoDocument],
           UNCHANGED lock
    PROVE  /\ Only(r) /\ LockMove(r) /\ req'[r].permit = req[r].permit
           /\ req'[r].pc = "ensure" /\ req'[r].op = "query" /\ req'[r].result = req[r].result
           /\ Purpose(req'[r]) /\ Reading(req'[r])
<1>1. TypeOK /\ Requests /\ req[r] \in RequestType
  BY DEF IInv, TypeOK
<1>2. Only(r)
  <2>1. req' = [req EXCEPT ![r] =
                   [req[r] EXCEPT !.pc = "ensure", !.round = 2, !.staged = NoDocument]]
    BY <1>1 DEF TypeOK
  <2>2. [req[r] EXCEPT !.pc = "ensure", !.round = 2, !.staged = NoDocument] \in RequestType
    BY <1>1, RoundTypes
  <2> QED
    BY <1>1, <2>1, <2>2 DEF Only, TypeOK
<1>3. /\ req'[r].pc = "ensure" /\ req'[r].permit = req[r].permit /\ req'[r].op = req[r].op
      /\ req'[r].path = req[r].path /\ req'[r].since = req[r].since
      /\ req'[r].result = req[r].result
  BY <1>1 DEF TypeOK, RequestType
<1>4. LockMove(r)
  BY <1>3 DEF LockMove, Inside
<1>5. Purpose(req'[r]) /\ Reading(req'[r])
  BY <1>1, <1>3 DEF Purpose, Reading, Requests
<1> QED
  BY <1>2, <1>3, <1>4, <1>5

(* Whatever ensure_document_with_cancel returns, the query answers or goes on. *)
LEMMA EnsuredShape ==
    ASSUME IInv, NEW r \in Threads, NEW d \in Documents, req[r].op = "query",
           req[r].pc \in Inside, Ensured(r, d)
    PROVE  /\ Only(r) /\ LockMove(r) /\ req'[r].permit = req[r].permit
           /\ req'[r].pc \in {"drop", "ensure"} /\ req'[r].op = "query"
           /\ req'[r].result = "ok" =>
                 req[r].result = "ok" \/ req'[r].staged = d
           /\ Purpose(req'[r]) /\ Reading(req'[r])
<1>1. CASE Stopped(r) /\ Finish(r, "cancelled")
  BY <1>1, AnswerShape, NoDocumentTypes DEF Finish, Results
<1>2. CASE /\ req' = [req EXCEPT ![r].pc = "ensure", ![r].round = 2, ![r].staged = NoDocument]
           /\ UNCHANGED lock
  BY <1>2, SecondRound
<1>3. CASE Answer(r, "ok", d)
  BY <1>3, AnswerShape DEF Results
<1> QED
  BY <1>1, <1>2, <1>3 DEF Ensured

(* A query finds a document it may use, or reads the metadata.                *)
LEMMA EnsureKeeps == ASSUME IInv, NEW r \in Threads, Ensure(r) PROVE IInv'
<1> DEFINE q == req[r]
           d == docs[q.path]
           stat == disk[q.path]
<1>1. /\ TypeOK /\ Requests /\ DiskShape /\ q \in RequestType /\ q.pc = "ensure"
      /\ UNCHANGED <<fileVars, stateVars, poisoned, active, calls, cancels, cancelled>>
  BY DEF IInv, Ensure, TypeOK
<1>2. /\ q.path \in Paths /\ d \in Documents /\ stat \in 0..MaxWrites /\ stat <= writes
      /\ q.op = "query" /\ q.pc \in Inside
  BY <1>1 DEF TypeOK, RequestType, DiskShape, Requests, Purpose, Inside
<1>3. CASE Finish(r, "cancelled") \/ Finish(r, "notFound")
  BY <1>1, <1>3, AnswerStep, NoDocumentTypes DEF Finish, Results, TypeOK
<1>4. CASE Ensured(r, d)
  <2>1. /\ Only(r) /\ LockMove(r) /\ req'[r].permit = q.permit
        /\ Purpose(req'[r]) /\ Reading(req'[r])
    BY <1>2, <1>4, EnsuredShape
  <2>2. PermitsAreCounted' /\ active' \in 0..MaxInFlight
    BY <1>1, <2>1, PermitStep
  <2> QED
    BY <1>1, <2>1, <2>2, LocalStep DEF TypeOK
<1>5. CASE /\ ~d.open /\ stat # Absent
           /\ req' = [req EXCEPT ![r].pc = "loadText", ![r].seen = stat]
           /\ UNCHANGED lock
  <2>1. Only(r)
    <3>1. stat \in Nat
      BY <1>2, ServiceAssumption
    <3> HIDE DEF stat
    <3> QED
      BY <1>1, <1>5, <3>1 DEF Only, TypeOK, RequestType, Points
  <2>2. /\ req'[r].pc = "loadText" /\ req'[r].permit = q.permit /\ req'[r].op = q.op
        /\ req'[r].path = q.path /\ req'[r].since = q.since /\ req'[r].seen = stat
    BY <1>1, <1>5 DEF TypeOK, RequestType
  <2>3. PermitsAreCounted' /\ active' \in 0..MaxInFlight
    BY <1>1, <2>1, <2>2, PermitStep
  <2>4. LockMove(r)
    BY <1>1, <1>5, <2>2 DEF LockMove, Inside
  <2>5. Purpose(req'[r])
    BY <1>2, <1>5, <2>2 DEF Purpose
  <2>6. Reading(req'[r])
    <3>1. NotNewer(q.path, stat)
      BY <1>1, <1>2, ServiceAssumption DEF NotNewer, TypeOK
    <3> QED
      BY <1>1, <1>2, <1>5, <2>2, <3>1 DEF Reading, Requests
  <2> QED
    BY <1>1, <2>1, <2>3, <2>4, <2>5, <2>6, LocalStep DEF TypeOK
<1> QED
  BY <1>3, <1>4, <1>5 DEF Ensure

(* A query reads the text after the metadata.                                 *)
LEMMA LoadTextKeeps == ASSUME IInv, NEW r \in Threads, LoadText(r) PROVE IInv'
<1> DEFINE q == req[r]
           t == disk[q.path]
           d == Document(SourceIdFor(q.path), 0, FALSE, t, q.seen)
<1>1. /\ TypeOK /\ Requests /\ DiskShape /\ q \in RequestType /\ q.pc = "loadText"
      /\ UNCHANGED <<fileVars, stateVars, poisoned, active, calls, cancels, cancelled>>
  BY DEF IInv, LoadText, TypeOK
<1>2. /\ q.path \in Paths /\ t \in 0..MaxWrites /\ t <= writes /\ q.op = "query"
      /\ ~docs[q.path].open /\ q.seen \in Nat /\ NotNewer(q.path, q.seen)
      /\ t # Absent => q.since <= t
  BY <1>1 DEF TypeOK, RequestType, DiskShape, Requests, Purpose, Reading
<1>3. CASE Finish(r, "failed")
  BY <1>1, <1>3, AnswerStep, NoDocumentTypes DEF Finish, Results, TypeOK
<1>4. CASE t # Absent /\ Stage(r, d) /\ UNCHANGED lock
  <2>1. q.seen <= t /\ q.seen \in 0..MaxWrites /\ t \in 0..Typed
    BY <1>1, <1>2, <1>4, ServiceAssumption DEF NotNewer, TypeOK, Typed
  <2>2. /\ d \in Documents /\ d.known /\ ~d.open /\ d.id = SourceIdFor(q.path)
        /\ d.text = t /\ d.meta = q.seen
    <3>1. SourceIdFor(q.path) \in Nat
      BY <1>2, SourceIdType
    <3> HIDE DEF q, t
    <3> QED
      BY <2>1, <3>1 DEF Document, Documents
  <2> HIDE DEF d
  <2>3. /\ Only(r)
        /\ req'[r].pc = "build" /\ req'[r].permit = q.permit
        /\ req'[r].op = q.op /\ req'[r].path = q.path
        /\ req'[r].since = q.since /\ req'[r].staged = d
    BY <1>4, <2>2, StageShape
  <2>4. PermitsAreCounted' /\ active' \in 0..MaxInFlight
    BY <1>1, <2>3, PermitStep
  <2>5. LockMove(r)
    BY <1>1, <1>4, <2>3 DEF LockMove, Inside
  <2>6. Purpose(req'[r])
    BY <1>2, <2>2, <2>3 DEF Purpose
  <2>7. NotNewer(q.path, t)
    BY <1>1, <1>2, ServiceAssumption DEF NotNewer, TypeOK
  <2>8. Reading(req'[r])
    BY <1>1, <1>2, <1>4, <2>1, <2>2, <2>3, <2>7 DEF Reading, Requests
  <2> QED
    BY <1>1, <2>3, <2>4, <2>5, <2>6, <2>8, LocalStep DEF TypeOK
<1> QED
  BY <1>3, <1>4 DEF LoadText

(* The build stages a document, fails, is cancelled or panics.                *)
LEMMA BuildKeeps == ASSUME IInv, NEW r \in Threads, Build(r) PROVE IInv'
<1> DEFINE q == req[r]
<1>1. /\ TypeOK /\ Requests /\ q.pc = "build" /\ poisoned' \in BOOLEAN
      /\ UNCHANGED <<fileVars, stateVars, active, calls, cancels, cancelled>>
  BY DEF IInv, Build, TypeOK
<1>2. CASE Finish(r, "cancelled") \/ Finish(r, "failed") \/ Finish(r, "panicked")
  BY <1>1, <1>2, AnswerStep, NoDocumentTypes DEF Finish, Results
<1>3. CASE Goto(r, "commit")
  <2>1. /\ Only(r) /\ lock' = lock /\ req'[r].pc = "commit" /\ req'[r].permit = q.permit
        /\ req'[r].op = q.op /\ req'[r].path = q.path
        /\ req'[r].since = q.since /\ req'[r].staged = q.staged
    BY <1>3, GotoShape DEF Points
  <2>2. PermitsAreCounted' /\ active' \in 0..MaxInFlight
    BY <1>1, <2>1, PermitStep
  <2>3. LockMove(r)
    BY <1>1, <2>1 DEF LockMove, Inside
  <2>4. Purpose(req'[r]) /\ Reading(req'[r])
    BY <1>1, <2>1 DEF Purpose, Reading, Requests
  <2> QED
    BY <1>1, <2>1, <2>2, <2>3, <2>4, LocalStep DEF TypeOK
<1> QED
  BY <1>2, <1>3 DEF Build

(* The owner of the lock replaces its document: nobody else is inside, so     *)
(* what the others know is not about documents.                               *)
LEMMA DocumentStep ==
    ASSUME IInv, NEW r \in Threads, r \in lock, Only(r), LockMove(r),
           req'[r].permit = req[r].permit, req'[r].pc \in {"drop", "ensure"},
           req'[r].pc = "ensure" => req'[r].op = "query", Reading(req'[r]),
           UNCHANGED <<fileVars, poisoned, active, calls, cancels, cancelled>>,
           NEW d \in Documents, docs' = [docs EXCEPT ![req[r].path] = d],
           torn' \subseteq Paths,
           \A p \in Paths \ {req[r].path} : p \in torn <=> p \in torn',
           d.open => d.known,
           d.known /\ ~d.open /\ d.meta # Absent /\ req[r].path \notin torn' =>
               d.meta <= d.text /\ NotNewer(req[r].path, d.text),
           \/ ~d.known /\ nextId' = nextId
           \/ /\ d.known /\ d.id = SourceIdFor(req[r].path)
              /\ nextId' = IF docs[req[r].path].known THEN nextId ELSE nextId + 1
    PROVE  IInv'
<1> DEFINE path == req[r].path
<1>1. TypeOK /\ LockShape /\ DocumentShape /\ SourceIdNamesOnePath /\ Requests
  BY DEF IInv
<1>2. path \in Paths /\ docs \in [Paths -> Documents] /\ nextId \in Nat
  BY <1>1 DEF TypeOK, RequestType
<1>3. PermitsAreCounted' /\ active' \in 0..MaxInFlight
  BY PermitStep
<1>4. LockShape' /\ lock' \subseteq Threads
  BY LockStep
<1>5. TypeOK'
  <2>1. docs' \in [Paths -> Documents] /\ nextId' \in Nat
    BY <1>2
  <2> QED
    BY <1>1, <1>3, <1>4, <2>1 DEF TypeOK, Only, fileVars
<1>6. DiskShape'
  BY DEF IInv, DiskShape, fileVars
<1>7. DocumentShape'
  <2> SUFFICES ASSUME NEW p \in Paths
               PROVE  /\ docs'[p].open => docs'[p].known
                      /\ /\ docs'[p].known /\ ~docs'[p].open /\ docs'[p].meta # Absent
                         /\ p \notin torn'
                         => docs'[p].meta <= docs'[p].text /\ NotNewer(p, docs'[p].text)
    BY DEF DocumentShape, NotNewer, fileVars
  <2>1. CASE p = path
    BY <1>2, <2>1
  <2>2. CASE p # path
    BY <1>1, <1>2, <2>2 DEF DocumentShape
  <2> QED
    BY <2>1, <2>2
<1>8. SourceIdNamesOnePath'
  <2>1. \A p \in Paths \ {path} : docs'[p] = docs[p]
    BY <1>2
  <2>2. docs'[path] = d /\ nextId' >= nextId
    BY <1>2
  <2>3. \A p \in Paths : docs[p].id \in Nat
    BY <1>2 DEF Documents
  <2>4. d.known => /\ d.id < nextId'
                   /\ \A p \in Paths \ {path} : docs[p].known => docs[p].id # d.id
    BY <1>1, <1>2, <2>3 DEF SourceIdNamesOnePath, SourceIdFor
  <2> HIDE DEF path
  <2> QED
    BY <1>1, <1>2, <2>1, <2>2, <2>3, <2>4 DEF SourceIdNamesOnePath
<1>9. Requests'
  <2> SUFFICES ASSUME NEW s \in Threads PROVE Purpose(req[s])' /\ Reading(req[s])'
    BY DEF Requests
  <2>1. CASE s = r
    BY <2>1 DEF Purpose, Reading, NotNewer, fileVars
  <2>2. CASE s # r
    <3>1. req'[s] = req[s] /\ req[s].pc \notin Inside
      BY <1>1, <2>2 DEF Only, LockShape
    <3>2. Purpose(req[s])'
      BY <1>1, <3>1 DEF Requests, Purpose, Inside
    <3>3. Reading(req[s])'
      BY <1>1, <3>1 DEF Requests, Reading, NotNewer, fileVars
    <3> QED
      BY <3>2, <3>3
  <2> QED
    BY <2>1, <2>2
<1> QED
  BY <1>3, <1>4, <1>5, <1>6, <1>7, <1>8, <1>9 DEF IInv

(* close reads the text, or forgets the document of a file that is gone.      *)
LEMMA CloseReadsTextKeeps == ASSUME IInv, NEW r \in Threads, CloseReadsText(r) PROVE IInv'
<1> DEFINE q == req[r]
           t == disk[q.path]
           d == Document(docs[q.path].id, 0, FALSE, t, Absent)
<1>1. /\ TypeOK /\ Requests /\ DiskShape /\ LockShape /\ q \in RequestType /\ q.pc = "readText"
      /\ UNCHANGED <<fileVars, nextId, poisoned, active, calls, cancels, cancelled>>
  BY DEF IInv, CloseReadsText, TypeOK
<1>2. /\ q.path \in Paths /\ docs[q.path] \in Documents /\ t \in 0..MaxWrites /\ t <= writes
      /\ q.op = "close" /\ docs[q.path].known /\ r \in lock
  BY <1>1 DEF TypeOK, RequestType, DiskShape, Requests, Purpose, LockShape, Inside
<1>3. CASE /\ Finish(r, "cancelled") \/ Finish(r, "failed")
           /\ UNCHANGED <<docs, torn>>
  BY <1>1, <1>3, AnswerStep, NoDocumentTypes DEF Finish, Results, TypeOK, stateVars
<1>4. CASE /\ docs' = [docs EXCEPT ![q.path] = NoDocument]
           /\ torn' = torn \ {q.path}
           /\ Finish(r, "ok")
  <2>1. /\ Only(r) /\ LockMove(r) /\ req'[r].permit = q.permit
        /\ req'[r].pc = "drop" /\ Reading(req'[r])
    BY <1>4, AnswerShape, NoDocumentTypes DEF Finish, Results
  <2>2. ~NoDocument.known /\ ~NoDocument.open
    BY DEF NoDocument
  <2>3. /\ torn' \subseteq Paths
        /\ \A p \in Paths \ {q.path} : p \in torn <=> p \in torn'
    BY <1>1, <1>4 DEF TypeOK
  <2> QED
    BY <1>1, <1>2, <1>4, <2>1, <2>2, <2>3, NoDocumentTypes, DocumentStep
<1>5. CASE /\ t # Absent
           /\ req' = [req EXCEPT ![r].pc = "readMeta", ![r].staged = d]
           /\ UNCHANGED <<docs, torn, lock>>
  <2>1. /\ d \in Documents /\ d.known /\ ~d.open /\ d.text = t
        /\ d.id = docs[q.path].id
    <3>1. docs[q.path].id \in Nat /\ t \in 0..Typed /\ Absent \in 0..MaxWrites
      BY <1>2, ServiceAssumption DEF Documents, Typed, Absent
    <3> HIDE DEF q, t
    <3> QED
      BY <3>1 DEF Document, Documents
  <2> HIDE DEF d
  <2>2. Only(r)
    <3>1. req' = [req EXCEPT ![r] = [q EXCEPT !.pc = "readMeta", !.staged = d]]
      BY <1>1, <1>5 DEF TypeOK
    <3>2. [q EXCEPT !.pc = "readMeta", !.staged = d] \in RequestType
      BY <1>1, <2>1 DEF RequestType, Points
    <3> QED
      BY <1>1, <3>1, <3>2 DEF Only, TypeOK
  <2>3. /\ req'[r].pc = "readMeta" /\ req'[r].permit = q.permit /\ req'[r].op = q.op
        /\ req'[r].path = q.path /\ req'[r].since = q.since /\ req'[r].staged = d
    BY <1>1, <1>5 DEF TypeOK, RequestType
  <2>4. PermitsAreCounted' /\ active' \in 0..MaxInFlight
    BY <1>1, <2>2, <2>3, PermitStep
  <2>5. LockMove(r)
    BY <1>1, <1>5, <2>3 DEF LockMove, Inside
  <2>6. Purpose(req'[r])
    BY <1>2, <2>1, <2>3 DEF Purpose, SourceIdFor
  <2>7. NotNewer(q.path, t)
    BY <1>1, <1>2, ServiceAssumption DEF NotNewer, TypeOK
  <2>8. Reading(req'[r])
    BY <1>2, <2>1, <2>3, <2>7 DEF Reading
  <2> QED
    BY <1>1, <1>5, <2>2, <2>4, <2>5, <2>6, <2>8, LocalStep DEF TypeOK, stateVars
<1> QED
  BY <1>3, <1>4, <1>5 DEF CloseReadsText

(* The commit stores the staged document.                                     *)
LEMMA CommitKeeps == ASSUME IInv, NEW r \in Threads, Commit(r) PROVE IInv'
<1> DEFINE q == req[r]
           d == q.staged
           late == q.op = "close" /\ d.meta \notin {d.text, Absent}
<1>1. /\ TypeOK /\ Requests /\ LockShape /\ q \in RequestType /\ q.pc = "commit"
      /\ UNCHANGED <<fileVars, poisoned, active, calls, cancels, cancelled>>
  BY DEF IInv, Commit, TypeOK
<1>2. CASE Finish(r, "cancelled") /\ UNCHANGED stateVars
  BY <1>1, <1>2, AnswerStep, NoDocumentTypes DEF Finish, Results, TypeOK
<1>3. CASE /\ CommitDocument(q.path, d)
           /\ torn' = IF late THEN torn \cup {q.path} ELSE torn \ {q.path}
           /\ IF q.op = "query" THEN Ensured(r, d) ELSE Finish(r, "ok")
  <2>1. /\ r \in lock /\ q.path \in Paths /\ d \in Documents
        /\ q.op \in {"open", "update", "close", "query"} /\ q.pc \in Inside
    BY <1>1 DEF LockShape, Inside, RequestType, Requests, Purpose, Operations
  <2>2. /\ Only(r) /\ LockMove(r) /\ req'[r].permit = q.permit
        /\ req'[r].pc \in {"drop", "ensure"}
        /\ req'[r].pc = "ensure" => req'[r].op = "query"
        /\ Reading(req'[r])
    <3>1. CASE q.op = "query"
      BY <1>3, <2>1, <3>1, EnsuredShape
    <3>2. CASE q.op # "query"
      BY <1>3, <3>2, AnswerShape, NoDocumentTypes DEF Finish, Results
    <3> QED
      BY <3>1, <3>2
  <2>3. /\ torn' \subseteq Paths
        /\ \A p \in Paths \ {q.path} : p \in torn <=> p \in torn'
        /\ q.path \notin torn' => ~late
    BY <1>1, <1>3, <2>1 DEF TypeOK
  <2>4. d.known /\ d.id = SourceIdFor(q.path)
    BY <1>1 DEF Requests, Purpose
  <2>5. ~d.open /\ d.meta # Absent /\ q.path \notin torn' =>
           d.meta <= d.text /\ NotNewer(q.path, d.text)
    <3> SUFFICES ASSUME ~d.open, d.meta # Absent, q.path \notin torn'
                 PROVE  d.meta <= d.text /\ NotNewer(q.path, d.text)
      OBVIOUS
    <3>1. q.op \in {"close", "query"}
      BY <1>1, <2>1 DEF Requests, Purpose
    <3>2. NotNewer(q.path, d.text)
      BY <1>1, <3>1 DEF Requests, Reading
    <3>3. q.op = "query" => d.meta <= d.text
      BY <1>1 DEF Requests, Reading
    <3>4. q.op = "close" => d.meta = d.text
      BY <2>3
    <3>5. d.text \in Nat
      BY <2>1, ServiceAssumption DEF Documents, Typed
    <3> QED
      BY <3>1, <3>2, <3>3, <3>4, <3>5
  <2>6. /\ docs' = [docs EXCEPT ![q.path] = d]
        /\ nextId' = IF docs[q.path].known THEN nextId ELSE nextId + 1
    BY <1>3 DEF CommitDocument
  <2> HIDE DEF late
  <2> QED
    BY <1>1, <2>1, <2>2, <2>3, <2>4, <2>5, <2>6, DocumentStep
<1> QED
  BY <1>2, <1>3 DEF Commit

-----------------------------------------------------------------------------
(* Every step of a request, and every step of the environment, keeps the      *)
(* invariant.                                                                 *)
THEOREM ServiceStep == IInv /\ [Next]_vars => IInv'
<1> SUFFICES ASSUME IInv, [Next]_vars PROVE IInv'
  OBVIOUS
<1>1. CASE \E r \in Threads, m \in Menu : Call(r, m[1], m[2], m[3], m[4])
  BY <1>1, CallKeeps
<1>2. CASE \E r \in Threads : Cancel(r)
  BY <1>2, CancelKeeps
<1>3. CASE \E p \in Shared : WriteFile(p) \/ DeleteFile(p)
  BY <1>3, FilesKeep, ServiceAssumption
<1>4. CASE \E r \in Threads : Step(r)
  BY <1>4, BeginKeeps, AcquireKeeps, RecheckKeeps, LockKeeps, CloseReadsTextKeeps,
     CloseReadsMetadataKeeps, EnsureKeeps, LoadTextKeeps, BuildKeeps, CommitKeeps, DropKeeps
  DEF Step
<1>5. CASE UNCHANGED vars
  <2>1. UNCHANGED <<fileVars, stateVars, lockVars, active, calls, cancels, req, cancelled>>
    BY <1>5 DEF vars
  <2>2. TypeOK' /\ LockShape'
    BY <2>1 DEF IInv, TypeOK, LockShape, fileVars, stateVars, lockVars
  <2>3. DiskShape' /\ SourceIdNamesOnePath' /\ PermitsAreCounted'
    BY <2>1 DEF IInv, DiskShape, SourceIdNamesOnePath, PermitsAreCounted, fileVars, stateVars
  <2>4. DocumentShape' /\ Requests'
    BY <2>1
    DEF IInv, DocumentShape, Requests, Purpose, Reading, NotNewer, SourceIdFor, fileVars,
        stateVars
  <2> QED
    BY <2>2, <2>3, <2>4 DEF IInv
<1> QED
  BY <1>1, <1>2, <1>3, <1>4, <1>5 DEF Next, Environment

(* The inductive invariant holds in every reachable state.                    *)
THEOREM ServiceInvariance == Spec => []IInv
BY ServiceInit, ServiceStep, PTL DEF Spec

-----------------------------------------------------------------------------
(* The types of the service.                                                  *)
THEOREM ServiceTypes == Spec => []TypeOK
<1>1. IInv => TypeOK
  BY DEF IInv
<1> QED
  BY <1>1, ServiceInvariance, PTL

(* The limiter counts exactly the permits that are held, and never more than  *)
(* its maximum.                                                               *)
THEOREM LimiterCounts == Spec => []PermitsAreCounted
<1>1. IInv => PermitsAreCounted
  BY DEF IInv
<1> QED
  BY <1>1, ServiceInvariance, PTL

(* A source id never stands for two documents.                                *)
THEOREM SourceIdsAreUnique == Spec => []SourceIdNamesOnePath
<1>1. IInv => SourceIdNamesOnePath
  BY DEF IInv
<1> QED
  BY <1>1, ServiceInvariance, PTL

(* Only CloseReadsText and Commit change documents.                           *)
LEMMA DocumentWriters ==
    ASSUME Next, docs' # docs
    PROVE  \E r \in Threads : CloseReadsText(r) \/ Commit(r)
BY DEF Next, Environment, Step, Call, Cancel, WriteFile, DeleteFile, Begin, Acquire, Recheck,
       Lock, CloseReadsMetadata, Ensure, LoadText, Build, Drop, stateVars

(* What the step that changes a document is.                                  *)
LEMMA DocumentWrite ==
    ASSUME IInv, NEW r \in Threads, CloseReadsText(r) \/ Commit(r), docs' # docs
    PROVE  /\ r \in lock /\ \A s \in lock : s = r
           /\ req[r].path \in Paths
           /\ \A p \in Paths \ {req[r].path} : docs'[p] = docs[p]
           /\ \/ /\ CloseReadsText(r) /\ docs'[req[r].path] = NoDocument
                 /\ Finish(r, "ok")
              \/ /\ Commit(r) /\ docs'[req[r].path] = req[r].staged
                 /\ req[r].op # "query" => Finish(r, "ok")
<1> DEFINE q == req[r]
<1>1. /\ docs \in [Paths -> Documents] /\ q.path \in Paths /\ LockShape
      /\ q.pc \in {"readText", "commit"}
  BY DEF IInv, TypeOK, RequestType, CloseReadsText, Commit
<1>2. r \in lock /\ \A s \in lock : s = r
  BY <1>1 DEF LockShape, Inside
<1>3. CASE CloseReadsText(r)
  <2>1. docs' = [docs EXCEPT ![q.path] = NoDocument] /\ Finish(r, "ok")
    BY <1>3 DEF CloseReadsText
  <2> QED
    BY <1>1, <1>2, <1>3, <2>1
<1>4. CASE Commit(r)
  <2>1. /\ docs' = [docs EXCEPT ![q.path] = q.staged]
        /\ q.op # "query" => Finish(r, "ok")
    BY <1>4 DEF Commit, CommitDocument, stateVars
  <2> QED
    BY <1>1, <1>2, <1>4, <2>1
<1> QED
  BY <1>3, <1>4

(* A mutation that reports an error has changed nothing.                      *)
THEOREM FailuresChangeNothing == Spec => ErrorsChangeNothing
<1> DEFINE Blamed ==
      \A p \in Paths : docs'[p] # docs[p] =>
         \E r \in lock : /\ req[r].path = p
                         /\ req[r].op # "query" => req'[r].result = "ok"
<1>1. IInv /\ [Next]_vars => [Blamed]_vars
  <2> SUFFICES ASSUME IInv, Next, NEW p \in Paths, docs'[p] # docs[p]
               PROVE  \E r \in lock :
                         /\ req[r].path = p
                         /\ req[r].op # "query" => req'[r].result = "ok"
    OBVIOUS
  <2>1. PICK r \in Threads : CloseReadsText(r) \/ Commit(r)
    BY DocumentWriters
  <2>2. /\ r \in lock /\ req[r].path = p
        /\ \/ CloseReadsText(r) /\ Finish(r, "ok")
           \/ req[r].op # "query" => Finish(r, "ok")
    BY <2>1, DocumentWrite
  <2>3. Finish(r, "ok") => req'[r].result = "ok"
    BY AnswerShape, NoDocumentTypes DEF Finish, Results
  <2> QED
    BY <2>2, <2>3
<1> QED
  BY <1>1, ServiceInvariance, PTL DEF Spec, ErrorsChangeNothing

(* An open document is replaced only by a newer version, and closed only by   *)
(* a close.                                                                   *)
THEOREM OpenDocumentsPrecede == Spec => OpenPrecedesDisk
<1> DEFINE Kept ==
      \A p \in Paths : docs[p].open /\ docs'[p] # docs[p] =>
         \/ docs'[p].open /\ docs'[p].version > docs[p].version
         \/ ~docs'[p].open /\ \A r \in lock : req[r].op = "close"
<1>1. IInv /\ [Next]_vars => [Kept]_vars
  <2> SUFFICES ASSUME IInv, Next, NEW p \in Paths, docs[p].open, docs'[p] # docs[p]
               PROVE  \/ docs'[p].open /\ docs'[p].version > docs[p].version
                      \/ ~docs'[p].open /\ \A r \in lock : req[r].op = "close"
    OBVIOUS
  <2>1. PICK r \in Threads : CloseReadsText(r) \/ Commit(r)
    BY DocumentWriters
  <2>2. /\ r \in lock /\ (\A s \in lock : s = r) /\ req[r].path = p
        /\ \/ CloseReadsText(r) /\ docs'[p] = NoDocument
           \/ Commit(r) /\ docs'[p] = req[r].staged
    BY <2>1, DocumentWrite
  <2>3. CASE CloseReadsText(r) /\ docs'[p] = NoDocument
    <3>1. req[r].pc = "readText" /\ req[r].op = "close"
      BY <2>3 DEF CloseReadsText, IInv, Requests, Purpose
    <3>2. ~docs'[p].open
      BY <2>3 DEF NoDocument
    <3> QED
      BY <2>2, <3>1, <3>2
  <2>4. CASE Commit(r) /\ docs'[p] = req[r].staged
    <3>1. req[r].pc = "commit" /\ Purpose(req[r]) /\ req[r].op \in Operations
      BY <2>4 DEF Commit, IInv, Requests, TypeOK, RequestType
    <3>2. req[r].op \in {"open", "update", "close"}
      BY <2>2, <3>1 DEF Purpose, Operations
    <3>3. CASE req[r].op = "close"
      BY <2>2, <2>4, <3>1, <3>3 DEF Purpose
    <3>4. CASE req[r].op \in {"open", "update"}
      BY <2>2, <2>4, <3>1, <3>4 DEF Purpose
    <3> QED
      BY <3>2, <3>3, <3>4
  <2> QED
    BY <2>2, <2>3, <2>4
<1> QED
  BY <1>1, ServiceInvariance, PTL DEF Spec, OpenPrecedesDisk

(* A query never answers from a text older than the request.                  *)
THEOREM AnswersAreCurrent == Spec => AnswerIsCurrent
<1> DEFINE Current ==
      \A r \in Threads :
         /\ req[r].op = "query" /\ req[r].result = "none" /\ req'[r].result = "ok"
         /\ req[r].path \notin torn'
         => req'[r].staged.open \/ req'[r].staged.text >= req[r].since
<1>1. IInv /\ [Next]_vars => [Current]_vars
  <2> SUFFICES ASSUME IInv, Next, NEW r \in Threads, req[r].op = "query",
                      req[r].result = "none", req'[r].result = "ok",
                      req[r].path \notin torn'
               PROVE  req'[r].staged.open \/ req'[r].staged.text >= req[r].since
    OBVIOUS
  <2> DEFINE q == req[r]
  <2>1. /\ TypeOK /\ q \in RequestType /\ q.path \in Paths /\ docs[q.path] \in Documents
        /\ DocumentShape /\ Purpose(q) /\ Reading(q)
    BY DEF IInv, TypeOK, RequestType, Requests
  <2>2. Ensure(r) \/ Commit(r)
    <3>1. req' # req
      OBVIOUS
    <3>2. ASSUME NEW s \in Threads, s # r, Step(s) PROVE FALSE
      <4>1. req'[r] = req[r]
        BY <2>1, <3>2
        DEF TypeOK, Step, Begin, Acquire, Recheck, Lock, Enter, CloseReadsText,
            CloseReadsMetadata, Ensure, Ensured, LoadText, Build, Commit, Drop, Finish,
            Answer, Goto, Stage
      <4> QED
        BY <4>1
    <3>3. ASSUME NEW s \in Threads, NEW m \in Menu, Call(s, m[1], m[2], m[3], m[4])
          PROVE  FALSE
      <4>1. req'[r] = req[r] \/ req'[r].result = "none"
        BY <2>1, <3>3 DEF TypeOK, Call, Idle
      <4> QED
        BY <4>1
    <3>4. Step(r)
      BY <3>1, <3>2, <3>3 DEF Next, Environment, Cancel, WriteFile, DeleteFile
    <3>5. ASSUME NEW x \in Results \ {"ok"}, Finish(r, x) PROVE FALSE
      BY <3>5, AnswerShape, NoDocumentTypes DEF Finish
    <3>6. ASSUME NEW pc \in Points, Goto(r, pc) PROVE FALSE
      <4>1. req'[r].result = q.result
        BY <2>1, <3>6 DEF Goto, TypeOK, RequestType
      <4> QED
        BY <4>1
    <3>7. ASSUME NEW d, Stage(r, d) PROVE FALSE
      <4>1. req'[r].result = q.result
        BY <2>1, <3>7 DEF Stage, TypeOK, RequestType
      <4> QED
        BY <4>1
    <3>8. ~Begin(r)
      BY <2>1, <3>5 DEF Begin, Results, TypeOK, RequestType
    <3>9. ~Acquire(r)
      BY <2>1, <3>5 DEF Acquire, Results, TypeOK, RequestType
    <3>10. ~Recheck(r) /\ ~Build(r)
      BY <3>5, <3>6 DEF Recheck, Build, Results, Points
    <3>11. ~Lock(r)
      <4>1. ~Enter(r)
        BY <2>1, <3>5, <3>7 DEF Enter, Results, TypeOK, RequestType
      <4> QED
        BY <3>5, <4>1 DEF Lock, Results
    <3>12. ~CloseReadsText(r)
      BY <2>1 DEF CloseReadsText, Purpose
    <3>13. ~CloseReadsMetadata(r) /\ ~LoadText(r)
      BY <3>5, <3>7 DEF CloseReadsMetadata, LoadText, Results
    <3>14. ~Drop(r)
      BY <2>1 DEF Drop, Idle, TypeOK
    <3> QED
      BY <3>4, <3>8, <3>9, <3>10, <3>11, <3>12, <3>13, <3>14 DEF Step
  <2>3. CASE Ensure(r)
    <3> DEFINE d == docs[q.path]
               stat == disk[q.path]
    <3>1. /\ torn' = torn /\ q.pc = "ensure"
          /\ Finish(r, "cancelled") \/ Finish(r, "notFound")
             \/ (Ensured(r, d) /\ (d.open \/ (d.known /\ stat # Absent /\ d.meta = stat)))
             \/ req' = [req EXCEPT ![r].pc = "loadText", ![r].seen = stat]
      BY <2>3 DEF Ensure, stateVars
    <3>2. Ensured(r, d) /\ (d.open \/ (d.known /\ stat # Absent /\ d.meta = stat))
      <4>1. ~Finish(r, "cancelled") /\ ~Finish(r, "notFound")
        BY AnswerShape, NoDocumentTypes DEF Finish, Results
      <4>2. ~(req' = [req EXCEPT ![r].pc = "loadText", ![r].seen = stat])
        BY <2>1 DEF TypeOK, RequestType
      <4> QED
        BY <3>1, <4>1, <4>2
    <3>3. req'[r].staged = d
      BY <2>1, <3>1, <3>2, EnsuredShape DEF Inside
    <3>4. CASE d.open
      BY <3>3, <3>4
    <3>5. CASE ~d.open
      <4>1. d.meta <= d.text /\ NotNewer(q.path, d.text)
        BY <2>1, <3>1, <3>2, <3>5 DEF DocumentShape
      <4>2. q.since <= stat
        BY <2>1, <3>2, <3>5 DEF Reading
      <4>3. d.text \in Nat /\ d.meta \in Nat /\ q.since \in Nat
        BY <2>1, ServiceAssumption DEF Documents, Typed, RequestType
      <4> QED
        BY <3>2, <3>3, <3>5, <4>1, <4>2, <4>3
    <3> QED
      BY <3>4, <3>5
  <2>4. CASE Commit(r)
    <3>1. q.pc = "commit" /\ (Finish(r, "cancelled") \/ Ensured(r, q.staged))
      BY <2>4 DEF Commit
    <3>2. Ensured(r, q.staged) /\ q.staged \in Documents
      BY <2>1, <3>1, AnswerShape, NoDocumentTypes DEF Finish, Results, RequestType
    <3>3. req'[r].staged = q.staged
      BY <3>1, <3>2, EnsuredShape DEF Inside
    <3>4. q.since <= q.staged.text /\ q.since \in Nat /\ q.staged.text \in Nat
      BY <2>1, <3>1, <3>2, ServiceAssumption DEF Reading, RequestType, Documents, Typed
    <3> QED
      BY <3>3, <3>4
  <2> QED
    BY <2>2, <2>3, <2>4
<1> QED
  BY <1>1, ServiceInvariance, PTL DEF Spec, AnswerIsCurrent
=============================================================================
