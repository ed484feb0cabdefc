--------------------------- MODULE LspServerProofs ---------------------------
(* Proofs about LspServer, for every set of paths, texts and versions and any *)
(* number of requests.                                                        *)
EXTENDS LspServer, TLAPS

(* Before the session runs, neither side has a document: initialize, which    *)
(* makes the state anew, loses nothing.                                       *)
QuietStart ==
    lifecycle \in {"AwaitingInitialize", "AwaitingInitialized"} =>
        /\ \A p \in Paths : docs[p] = NoDocument
        /\ \A p \in Paths : editor[p] = NoDocument

(* The cancellations of requests that are still to come are exactly the ones  *)
(* the history knows of; a late one concerns a request that was answered.     *)
CancelShape ==
    /\ \A id \in Ids : id > lastId => (id \in cancelled <=> id \in withdrawn)
    /\ reply.id <= lastId

IInv ==
    /\ TypeOK
    /\ QuietStart
    /\ CancelShape
    /\ MirrorsService
    /\ PublishedIsCurrent
    /\ NoSilentDivergence
    /\ CancelledNeverSucceeds

-----------------------------------------------------------------------------
(* NoDocument is recognizable: its text is none the editor types, and the     *)
(* diagnostics it stands for are none.                                        *)
LEMMA NoDocumentText ==
    /\ NoDocument.text = None
    /\ \A d \in Documents : d.text \in Texts /\ d.text # None
    /\ NoDocument \notin Documents
BY LspAssumption DEF NoDocument, Documents, None

(* Session::new establishes the invariant.                                    *)
THEOREM LspInit == Init => IInv
<1> SUFFICES ASSUME Init PROVE IInv
  OBVIOUS
<1>1. TypeOK
  BY LspAssumption DEF Init, TypeOK, Lifecycles, Reply, None
<1>2. QuietStart
  BY DEF Init, QuietStart
<1>3. CancelShape
  BY DEF Init, CancelShape, Reply
<1>4. MirrorsService
  BY DEF Init, MirrorsService
<1>5. PublishedIsCurrent
  BY DEF Init, PublishedIsCurrent, NoDocument, None
<1>6. NoSilentDivergence
  BY DEF Init, NoSilentDivergence
<1>7. CancelledNeverSucceeds
  BY DEF Init, CancelledNeverSucceeds, Reply
<1> QED
  BY <1>1, <1>2, <1>3, <1>4, <1>5, <1>6, <1>7 DEF IInv

-----------------------------------------------------------------------------
(* What the steps that leave the requests alone keep.                         *)
LEMMA RequestsUntouched ==
    IInv /\ UNCHANGED requestVars => CancelShape' /\ CancelledNeverSucceeds'
BY DEF IInv, requestVars, CancelShape, CancelledNeverSucceeds

(* What the steps that leave the documents alone keep.                        *)
LEMMA DocumentsUntouched ==
    IInv /\ UNCHANGED documentVars =>
        MirrorsService' /\ PublishedIsCurrent' /\ NoSilentDivergence'
BY DEF IInv, documentVars, MirrorsService, PublishedIsCurrent, NoSilentDivergence

(* A document is stored on both sides, published, and agreed upon: did_open,  *)
(* did_change and did_close when they are accepted.                           *)
LEMMA StoreAgrees ==
    ASSUME NEW p \in Paths, NEW d \in Documents \cup {NoDocument}, IInv,
           Store(p, d), editor' = [editor EXCEPT ![p] = d],
           shown' = [shown EXCEPT ![p] = d.text]
    PROVE  /\ docs' \in [Paths -> Documents \cup {NoDocument}]
           /\ snapshots' \in [Paths -> Documents \cup {NoDocument}]
           /\ editor' \in [Paths -> Documents \cup {NoDocument}]
           /\ shown' \in [Paths -> Texts \cup {None}]
           /\ told' \subseteq Paths
           /\ MirrorsService' /\ PublishedIsCurrent' /\ NoSilentDivergence'
<1>1. d.text \in Texts \cup {None}
  BY NoDocumentText
<1>2. TypeOK /\ MirrorsService /\ PublishedIsCurrent /\ NoSilentDivergence
  BY DEF IInv
<1>3. /\ docs' \in [Paths -> Documents \cup {NoDocument}]
      /\ snapshots' \in [Paths -> Documents \cup {NoDocument}]
      /\ editor' \in [Paths -> Documents \cup {NoDocument}]
      /\ shown' \in [Paths -> Texts \cup {None}]
      /\ told' \subseteq Paths
  BY <1>1, <1>2 DEF TypeOK, Store
<1>4. MirrorsService'
  BY <1>2 DEF MirrorsService, Store
<1>5. PublishedIsCurrent'
  BY <1>2 DEF PublishedIsCurrent, Store, TypeOK
<1>6. NoSilentDivergence'
  BY <1>2 DEF NoSilentDivergence, Store, TypeOK
<1> QED
  BY <1>3, <1>4, <1>5, <1>6

(* A notification is refused: the editor has changed its document and was     *)
(* told, the server and what it published stay as they are.                   *)
LEMMA RefusalIsTold ==
    ASSUME NEW p \in Paths, NEW d \in Documents \cup {NoDocument}, IInv,
           Refuse(p), editor' = [editor EXCEPT ![p] = d], shown' = shown
    PROVE  /\ docs' \in [Paths -> Documents \cup {NoDocument}]
           /\ snapshots' \in [Paths -> Documents \cup {NoDocument}]
           /\ editor' \in [Paths -> Documents \cup {NoDocument}]
           /\ shown' \in [Paths -> Texts \cup {None}]
           /\ told' \subseteq Paths
           /\ MirrorsService' /\ PublishedIsCurrent' /\ NoSilentDivergence'
<1>1. TypeOK /\ MirrorsService /\ PublishedIsCurrent /\ NoSilentDivergence
  BY DEF IInv
<1>2. /\ docs' \in [Paths -> Documents \cup {NoDocument}]
      /\ snapshots' \in [Paths -> Documents \cup {NoDocument}]
      /\ editor' \in [Paths -> Documents \cup {NoDocument}]
      /\ shown' \in [Paths -> Texts \cup {None}]
      /\ told' \subseteq Paths
  BY <1>1 DEF TypeOK, Refuse
<1>3. MirrorsService' /\ PublishedIsCurrent'
  BY <1>1 DEF MirrorsService, PublishedIsCurrent, Refuse
<1>4. NoSilentDivergence'
  BY <1>1 DEF NoSilentDivergence, Refuse, TypeOK
<1> QED
  BY <1>2, <1>3, <1>4

(* Every notification about a document is one or the other.  Publishing the   *)
(* last good diagnostics again (did_change) changes nothing: they are shown.  *)
LEMMA NotificationOutcome ==
    ASSUME IInv, NEW p \in Paths, NEW e \in Documents \cup {NoDocument},
           \/ e \in Documents /\ (DidOpen(p, e) \/ DidChange(p, e))
           \/ e = NoDocument /\ DidClose(p)
    PROVE  /\ editor' = [editor EXCEPT ![p] = e]
           /\ \/ Store(p, e) /\ shown' = [shown EXCEPT ![p] = e.text]
              \/ Refuse(p) /\ shown' = shown
           /\ lifecycle' = lifecycle /\ lifecycle = "Running"
           /\ UNCHANGED <<requestVars, exists>>
<1> DEFINE Accepted == Store(p, e) /\ shown' = [shown EXCEPT ![p] = e.text]
           Refused == Refuse(p) /\ shown' = shown
<1>1. TypeOK /\ PublishedIsCurrent
  BY DEF IInv
<1>2. Store(p, e) /\ Publish(p) => Accepted
  BY <1>1 DEF Store, Publish, TypeOK
<1>3. Refuse(p) /\ Publish(p) => Refused
  BY <1>1 DEF Refuse, Publish, TypeOK, PublishedIsCurrent
<1>4. CASE e \in Documents /\ DidOpen(p, e)
  BY <1>2, <1>4 DEF DidOpen
<1>5. CASE e \in Documents /\ DidChange(p, e)
  BY <1>2, <1>3, <1>5 DEF DidChange
<1>6. CASE e = NoDocument /\ DidClose(p)
  BY <1>6, NoDocumentText DEF DidClose
<1> QED
  BY <1>4, <1>5, <1>6

(* A document notification is applied as a whole or refused with a message.   *)
LEMMA NotificationKeeps ==
    ASSUME IInv, NEW p \in Paths, NEW e \in Documents \cup {NoDocument},
           \/ e \in Documents /\ (DidOpen(p, e) \/ DidChange(p, e))
           \/ e = NoDocument /\ DidClose(p)
    PROVE  IInv'
<1>1. /\ editor' = [editor EXCEPT ![p] = e]
      /\ \/ Store(p, e) /\ shown' = [shown EXCEPT ![p] = e.text]
         \/ Refuse(p) /\ shown' = shown
      /\ lifecycle' = lifecycle /\ lifecycle = "Running"
      /\ UNCHANGED <<requestVars, exists>>
  BY NotificationOutcome
<1>2. /\ docs' \in [Paths -> Documents \cup {NoDocument}]
      /\ snapshots' \in [Paths -> Documents \cup {NoDocument}]
      /\ editor' \in [Paths -> Documents \cup {NoDocument}]
      /\ shown' \in [Paths -> Texts \cup {None}]
      /\ told' \subseteq Paths
      /\ MirrorsService' /\ PublishedIsCurrent' /\ NoSilentDivergence'
  BY <1>1, StoreAgrees, RefusalIsTold
<1>3. TypeOK'
  BY <1>1, <1>2 DEF IInv, TypeOK, requestVars
<1>4. QuietStart'
  BY <1>1 DEF QuietStart
<1>5. CancelShape' /\ CancelledNeverSucceeds'
  BY <1>1, RequestsUntouched
<1> QED
  BY <1>2, <1>3, <1>4, <1>5 DEF IInv

-----------------------------------------------------------------------------
(* What a request does to the documents, by its disjuncts.                    *)
LEMMA HandledKeeps ==
    ASSUME IInv, NEW id \in Ids, Handled(id)
    PROVE  /\ reply'.id = id /\ reply'.code # "cancelled"
           /\ reply' \in [id : 0..MaxId,
                          code : {"none", "done", "result", "error", "cancelled"},
                          path : Paths \cup {None}, text : Texts \cup {None}]
           /\ lifecycle' \in Lifecycles
           /\ UNCHANGED documentVars
           /\ lifecycle' \in {"AwaitingInitialize", "AwaitingInitialized"} =>
                 lifecycle \in {"AwaitingInitialize", "AwaitingInitialized"}
<1> DEFINE Replies == [id : 0..MaxId,
                       code : {"none", "done", "result", "error", "cancelled"},
                       path : Paths \cup {None}, text : Texts \cup {None}]
<1>1. TypeOK /\ QuietStart /\ MirrorsService
  BY DEF IInv
<1>2. id \in 0..MaxId
  BY LspAssumption DEF Ids
<1>3. CASE (Initialize \/ Shutdown) /\ reply' = Reply(id, "done")
  <2>1. reply'.id = id /\ reply'.code # "cancelled" /\ reply' \in Replies
    BY <1>2, <1>3 DEF Reply
  <2>2. CASE Initialize
    <3>1. docs' = docs
      BY <1>1, <2>2 DEF Initialize, QuietStart, TypeOK
    <3> QED
      BY <1>1, <2>1, <2>2, <3>1
      DEF Initialize, MirrorsService, documentVars, Lifecycles
  <2>3. CASE Shutdown
    BY <2>1, <2>3 DEF Shutdown, Lifecycles
  <2> QED
    BY <1>3, <2>2, <2>3
<1>4. CASE /\ \E p \in Queryable :
                reply' = [id |-> id, code |-> "result", path |-> p, text |-> docs[p].text]
           /\ UNCHANGED <<lifecycle, documentVars>>
  <2>1. PICK p \in Queryable :
           reply' = [id |-> id, code |-> "result", path |-> p, text |-> docs[p].text]
    BY <1>4
  <2>2. p \in Paths /\ docs[p] \in Documents \cup {NoDocument}
    BY <1>1, <2>1 DEF Queryable, TypeOK
  <2>3. docs[p].text \in Texts \cup {None}
    BY <2>2, NoDocumentText
  <2>4. reply'.id = id /\ reply'.code # "cancelled" /\ reply' \in Replies
    BY <1>2, <2>1, <2>2, <2>3
  <2> QED
    BY <1>1, <1>4, <2>4 DEF TypeOK
<1>5. CASE /\ reply' = Reply(id, "error")
           /\ UNCHANGED <<lifecycle, documentVars>>
  BY <1>1, <1>2, <1>5 DEF Reply, TypeOK
<1> QED
  BY <1>3, <1>4, <1>5 DEF Handled

(* A request is answered once, as cancelled if its cancellation came first.   *)
LEMMA RequestKeeps == IInv /\ Request => IInv'
<1> SUFFICES ASSUME IInv, Request PROVE IInv'
  OBVIOUS
<1> DEFINE id == lastId + 1
<1>1. /\ TypeOK /\ QuietStart /\ CancelShape
      /\ id \in Ids /\ lastId' = id
      /\ cancelled' = cancelled \ {id} /\ UNCHANGED <<exists, withdrawn>>
  BY DEF IInv, Request
<1>2. /\ reply'.id = id /\ (reply'.code = "cancelled" <=> id \in cancelled)
      /\ reply' \in [id : 0..MaxId,
                     code : {"none", "done", "result", "error", "cancelled"},
                     path : Paths \cup {None}, text : Texts \cup {None}]
      /\ lifecycle' \in Lifecycles
      /\ UNCHANGED documentVars
      /\ lifecycle' \in {"AwaitingInitialize", "AwaitingInitialized"} =>
            lifecycle \in {"AwaitingInitialize", "AwaitingInitialized"}
  <2>1. CASE id \in cancelled /\ reply' = Reply(id, "cancelled")
                /\ UNCHANGED <<lifecycle, documentVars>>
    BY <1>1, <2>1, LspAssumption DEF Reply, TypeOK, Ids
  <2>2. CASE id \notin cancelled /\ Handled(id)
    BY <1>1, <2>2, HandledKeeps
  <2> QED
    BY <2>1, <2>2 DEF Request
<1>3. TypeOK'
  BY <1>1, <1>2, LspAssumption DEF TypeOK, documentVars, Ids
<1>4. QuietStart'
  BY <1>1, <1>2 DEF QuietStart, documentVars
<1>5. CancelShape'
  BY <1>1, <1>2 DEF CancelShape, TypeOK, Ids
<1>6. CancelledNeverSucceeds'
  <2>1. id \in cancelled <=> id \in withdrawn
    BY <1>1 DEF CancelShape, TypeOK
  <2> QED
    BY <1>1, <1>2, <2>1 DEF CancelledNeverSucceeds
<1>7. MirrorsService' /\ PublishedIsCurrent' /\ NoSilentDivergence'
  BY <1>2, DocumentsUntouched
<1> QED
  BY <1>3, <1>4, <1>5, <1>6, <1>7 DEF IInv

(* A cancellation of a request to come enters both the set and the history.   *)
LEMMA CancelKeeps == ASSUME NEW id \in Ids PROVE IInv /\ Cancel(id) => IInv'
<1> SUFFICES ASSUME IInv, Cancel(id) PROVE IInv'
  OBVIOUS
<1>1. /\ TypeOK /\ QuietStart /\ CancelShape /\ CancelledNeverSucceeds
      /\ cancelled' = cancelled \cup {id}
      /\ withdrawn' = IF id > lastId THEN withdrawn \cup {id} ELSE withdrawn
      /\ UNCHANGED <<lifecycle, documentVars, lastId, reply, exists>>
  BY DEF IInv, Cancel
<1>2. TypeOK'
  BY <1>1 DEF TypeOK, documentVars
<1>3. QuietStart'
  BY <1>1 DEF QuietStart, documentVars
<1>4. CancelShape'
  BY <1>1 DEF CancelShape, TypeOK
<1>5. CancelledNeverSucceeds'
  BY <1>1, LspAssumption DEF CancelledNeverSucceeds, CancelShape, TypeOK, Ids
<1>6. MirrorsService' /\ PublishedIsCurrent' /\ NoSilentDivergence'
  BY <1>1, DocumentsUntouched
<1> QED
  BY <1>2, <1>3, <1>4, <1>5, <1>6 DEF IInv

(* The steps that touch neither documents nor requests.                       *)
LEMMA OtherStepsKeep ==
    ASSUME IInv, UNCHANGED <<documentVars, requestVars>>,
           lifecycle' \in Lifecycles, exists' \subseteq Paths,
           lifecycle' \in {"AwaitingInitialize", "AwaitingInitialized"} =>
               lifecycle \in {"AwaitingInitialize", "AwaitingInitialized"}
    PROVE  IInv'
<1>1. TypeOK'
  BY DEF IInv, TypeOK, documentVars, requestVars
<1>2. QuietStart'
  BY DEF IInv, QuietStart, documentVars
<1>3. CancelShape' /\ CancelledNeverSucceeds'
  BY RequestsUntouched
<1>4. MirrorsService' /\ PublishedIsCurrent' /\ NoSilentDivergence'
  BY DocumentsUntouched
<1> QED
  BY <1>1, <1>2, <1>3, <1>4 DEF IInv

(* Every message, and every change of the files, keeps the invariant.         *)
THEOREM LspStep == IInv /\ [Next]_vars => IInv'
<1> SUFFICES ASSUME IInv, [Next]_vars PROVE IInv'
  OBVIOUS
<1>1. lifecycle \in Lifecycles /\ exists \subseteq Paths
  BY DEF IInv, TypeOK
<1>2. CASE \E p \in Paths : Delete(p) \/ Create(p)
  <2>1. /\ UNCHANGED <<documentVars, requestVars>> /\ lifecycle' = lifecycle
        /\ exists' \subseteq Paths
    BY <1>1, <1>2 DEF Delete, Create
  <2> QED
    BY <1>1, <2>1, OtherStepsKeep
<1>3. CASE \E p \in Paths : DidClose(p)
  BY <1>3, NotificationKeeps
<1>4. CASE \E p \in Paths, d \in Documents : DidOpen(p, d) \/ DidChange(p, d)
  BY <1>4, NotificationKeeps
<1>5. CASE \E id \in Ids : Cancel(id)
  BY <1>5, CancelKeeps
<1>6. CASE Request
  BY <1>6, RequestKeeps
<1>7. CASE Initialized \/ Exit
  <2>1. /\ UNCHANGED <<documentVars, requestVars>> /\ exists' = exists
        /\ lifecycle' \in Lifecycles \ {"AwaitingInitialize", "AwaitingInitialized"}
    BY <1>7 DEF Initialized, Exit, Lifecycles
  <2> QED
    BY <1>1, <2>1, OtherStepsKeep
<1>8. CASE UNCHANGED vars
  <2>1. UNCHANGED <<documentVars, requestVars>> /\ lifecycle' = lifecycle /\ exists' = exists
    BY <1>8 DEF vars
  <2> QED
    BY <1>1, <2>1, OtherStepsKeep
<1> QED
  BY <1>2, <1>3, <1>4, <1>5, <1>6, <1>7, <1>8 DEF Next, Ended

(* The inductive invariant holds in every reachable state.                    *)
THEOREM LspInvariance == Spec => []IInv
BY LspInit, LspStep, PTL DEF Spec

-----------------------------------------------------------------------------
(* The types of the session.                                                  *)
THEOREM LspTypes == Spec => []TypeOK
<1>1. IInv => TypeOK
  BY DEF IInv
<1> QED
  BY <1>1, LspInvariance, PTL

(* Session::snapshots and the documents of the service never differ.          *)
THEOREM SnapshotsMirror == Spec => []MirrorsService
<1>1. IInv => MirrorsService
  BY DEF IInv
<1> QED
  BY <1>1, LspInvariance, PTL

(* What the editor shows are the diagnostics of the server's document, after  *)
(* refused changes and closes too.                                            *)
THEOREM DiagnosticsAreCurrent == Spec => []PublishedIsCurrent
<1>1. IInv => PublishedIsCurrent
  BY DEF IInv
<1> QED
  BY <1>1, LspInvariance, PTL

(* Where the editor and the server differ, the editor was told.               *)
THEOREM DivergenceIsTold == Spec => []NoSilentDivergence
<1>1. IInv => NoSilentDivergence
  BY DEF IInv
<1> QED
  BY <1>1, LspInvariance, PTL

(* A cancellation hits the request it names, and only if it comes before it.  *)
THEOREM CancellationHitsItsRequest == Spec => []CancelledNeverSucceeds
<1>1. IInv => CancelledNeverSucceeds
  BY DEF IInv
<1> QED
  BY <1>1, LspInvariance, PTL

(* Answers to queries are about the text the editor has (doc_position).       *)
THEOREM QueriesAnswerEditor == Spec => QueryAnswersEditor
<1> DEFINE Answered ==
      \A p \in Paths \ told :
         reply' # reply /\ reply'.code = "result" /\ reply'.path = p =>
             editor[p] # NoDocument /\ reply'.text = editor[p].text
<1>1. IInv /\ [Next]_vars => [Answered]_vars
  <2> SUFFICES ASSUME IInv, Next, NEW p \in Paths \ told,
                      reply' # reply, reply'.code = "result", reply'.path = p
               PROVE  editor[p] # NoDocument /\ reply'.text = editor[p].text
    OBVIOUS
  <2>1. Request
    BY DEF Next, Delete, Create, DidClose, DidOpen, DidChange, Cancel, Initialized, Exit,
           Ended, vars, requestVars
  <2>2. PICK q \in Queryable :
           reply' = [id |-> lastId + 1, code |-> "result", path |-> q, text |-> docs[q].text]
    BY <2>1 DEF Request, Handled, Reply
  <2>3. snapshots[p] # NoDocument /\ reply'.text = docs[p].text
    BY <2>2 DEF Queryable
  <2> QED
    BY <2>3 DEF IInv, MirrorsService, NoSilentDivergence
<1> QED
  BY <1>1, LspInvariance, PTL DEF Spec, QueryAnswersEditor
=============================================================================
