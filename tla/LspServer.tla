------------------------------ MODULE LspServer ------------------------------
(* The language server (crates/bamts-cli/src/lsp.rs): Session reads messages  *)
(* of the editor one after the other, keeps the lifecycle, the cancelled      *)
(* requests and the snapshots of open documents beside the documents of its   *)
(* ServiceState, and publishes diagnostics.  Other programs delete and create *)
(* files, which decides whether the path of a message can be resolved.        *)
(*                                                                            *)
(* A document is a version and a text; the diagnostics of a text are the      *)
(* text.  Envelopes that are not valid change nothing and are left out.  The  *)
(* editor follows the protocol: it numbers requests, and changes and closes   *)
(* only what it has open.                                                     *)
EXTENDS Naturals

CONSTANTS
    Paths,     \* canonical paths inside the workspace root
    Texts,     \* what the editor types
    Versions,  \* of documents
    MaxId      \* bound on the requests

ASSUME LspAssumption ==
    Versions \subseteq Nat /\ MaxId \in Nat /\ 0 \notin Texts

VARIABLES
    lifecycle,  \* Session::lifecycle
    docs,       \* the open documents of Session::state
    snapshots,  \* Session::snapshots
    cancelled,  \* Session::cancelled
    exists,     \* the files that can be canonicalized
    editor,     \* the documents as the editor has them
    shown,      \* the diagnostics the editor shows
    told,       \* the documents whose last notification was refused with a message
    lastId,     \* id of the editor's last request
    withdrawn,  \* history: requests cancelled before they arrived
    reply       \* the last response

documentVars == <<docs, snapshots, editor, shown, told>>
requestVars == <<cancelled, lastId, withdrawn, reply>>
vars == <<lifecycle, documentVars, requestVars, exists>>

Ids == 1..MaxId
None == 0
Documents == [version : Versions, text : Texts]
NoDocument == [version |-> 0, text |-> None]
Reply(id, code) == [id |-> id, code |-> code, path |-> None, text |-> None]

Lifecycles == {"AwaitingInitialize", "AwaitingInitialized", "Running", "ShutdownRequested",
               "Shutdown", "Unrequested"}
Exits == {"Shutdown", "Unrequested"}

(* Session::new.                                                              *)
Init ==
    /\ lifecycle = "AwaitingInitialize"
    /\ docs = [p \in Paths |-> NoDocument] /\ snapshots = docs
    /\ cancelled = {}
    /\ exists \in SUBSET Paths
    /\ editor = docs /\ shown = [p \in Paths |-> None] /\ told = {}
    /\ lastId = 0 /\ withdrawn = {} /\ reply = Reply(0, "none")

Serving == lifecycle \notin Exits

-----------------------------------------------------------------------------
(* Another program deletes or creates a file.                                 *)
Delete(p) ==
    /\ Serving /\ p \in exists
    /\ exists' = exists \ {p}
    /\ UNCHANGED <<lifecycle, documentVars, requestVars>>

Create(p) ==
    /\ Serving /\ p \notin exists
    /\ exists' = exists \cup {p}
    /\ UNCHANGED <<lifecycle, documentVars, requestVars>>

-----------------------------------------------------------------------------
(* Requests.                                                                  *)

(* initialize: the root may be refused; otherwise the state is made anew.     *)
Initialize ==
    /\ lifecycle = "AwaitingInitialize"
    /\ lifecycle' = "AwaitingInitialized"
    /\ docs' = [p \in Paths |-> NoDocument] /\ snapshots' = docs'
    /\ UNCHANGED <<editor, shown, told>>

Shutdown ==
    /\ lifecycle = "Running"
    /\ lifecycle' = "ShutdownRequested"
    /\ UNCHANGED documentVars

(* doc_position: the file exists and is open.                                 *)
Queryable == {p \in exists : snapshots[p] # NoDocument}

(* What dispatch_request does, by method, and its reply: an error whenever    *)
(* the lifecycle, the method or the parameters are not right.                 *)
Handled(id) ==
    \/ /\ Initialize \/ Shutdown
       /\ reply' = Reply(id, "done")
    \/ /\ lifecycle = "Running"
       /\ \E p \in Queryable :
             reply' = [id |-> id, code |-> "result", path |-> p, text |-> docs[p].text]
       /\ UNCHANGED <<lifecycle, documentVars>>
    \/ /\ reply' = Reply(id, "error")
       /\ UNCHANGED <<lifecycle, documentVars>>

(* dispatch_request: the token of a request is looked for first.              *)
Request ==
    LET id == lastId + 1
    IN  /\ Serving /\ id \in Ids
        /\ lastId' = id
        /\ \/ /\ id \in cancelled
              /\ reply' = Reply(id, "cancelled")
              /\ UNCHANGED <<lifecycle, documentVars>>
           \/ id \notin cancelled /\ Handled(id)
        /\ cancelled' = cancelled \ {id}
        /\ UNCHANGED <<exists, withdrawn>>

(* cancel: no request is current while the next message is read, so the id is *)
(* remembered, even that of a request already answered.                       *)
Cancel(id) ==
    /\ Serving
    /\ cancelled' = cancelled \cup {id}
    /\ withdrawn' = IF id > lastId THEN withdrawn \cup {id} ELSE withdrawn
    /\ UNCHANGED <<lifecycle, documentVars, lastId, reply, exists>>

-----------------------------------------------------------------------------
(* Notifications.                                                             *)

Initialized ==
    /\ lifecycle = "AwaitingInitialized"
    /\ lifecycle' = "Running"
    /\ UNCHANGED <<documentVars, requestVars, exists>>

(* exit, or the end of the input.                                             *)
Exit ==
    /\ Serving
    /\ lifecycle' = IF lifecycle = "ShutdownRequested" THEN "Shutdown" ELSE "Unrequested"
    /\ UNCHANGED <<documentVars, requestVars, exists>>

(* The message window/showMessage: the editor knows it was refused.           *)
Refuse(p) == told' = told \cup {p} /\ UNCHANGED <<docs, snapshots>>

(* publish_diagnostics of a document after the step.                          *)
Publish(p) == shown' = [shown EXCEPT ![p] = docs'[p].text]

Store(p, d) ==
    /\ docs' = [docs EXCEPT ![p] = d]
    /\ snapshots' = [snapshots EXCEPT ![p] = d]
    /\ told' = told \ {p}

(* did_open: refused if the path cannot be resolved, the version is not       *)
(* newer than that of the open document, or the text is no source.            *)
DidOpen(p, d) ==
    /\ lifecycle = "Running" /\ editor[p] = NoDocument
    /\ editor' = [editor EXCEPT ![p] = d]
    /\ \/ /\ p \in exists
          /\ docs[p] # NoDocument => d.version > docs[p].version
          /\ Store(p, d)
          /\ Publish(p)
       \/ Refuse(p) /\ UNCHANGED shown
    /\ UNCHANGED <<lifecycle, requestVars, exists>>

(* Fault: a change that fails is not reported.                                *)
DidChange_Quiet(p, d) ==
    /\ lifecycle = "Running" /\ editor[p] # NoDocument
    /\ editor' = [editor EXCEPT ![p] = d]
    /\ \/ /\ p \in exists /\ docs[p] # NoDocument
          /\ d.version > docs[p].version
          /\ Store(p, d)
          /\ Publish(p)
       \/ UNCHANGED <<docs, snapshots, told, shown>>
    /\ UNCHANGED <<lifecycle, requestVars, exists>>

(* did_change: as did_open, but the document must be open; a refusal of the   *)
(* service publishes the last good diagnostics again.                         *)
DidChange(p, d) ==
    /\ lifecycle = "Running" /\ editor[p] # NoDocument
    /\ editor' = [editor EXCEPT ![p] = d]
    /\ \/ /\ p \in exists /\ docs[p] # NoDocument
          /\ d.version > docs[p].version
          /\ Store(p, d)
          /\ Publish(p)
       \/ p \notin exists /\ Refuse(p) /\ UNCHANGED shown
       \/ /\ p \in exists
          /\ Refuse(p)
          /\ IF snapshots[p] # NoDocument THEN Publish(p) ELSE UNCHANGED shown
    /\ UNCHANGED <<lifecycle, requestVars, exists>>

(* Fault: the diagnostics are cleared although the document stays open.       *)
DidClose_Clears(p) ==
    /\ lifecycle = "Running" /\ editor[p] # NoDocument
    /\ editor' = [editor EXCEPT ![p] = NoDocument]
    /\ shown' = [shown EXCEPT ![p] = None]
    /\ \/ p \in exists /\ docs[p] # NoDocument /\ Store(p, NoDocument)
       \/ Refuse(p)
    /\ UNCHANGED <<lifecycle, requestVars, exists>>

(* did_close: refused if the path cannot be resolved, the document is not     *)
(* open, or the file cannot be read or is no source; the document stays open  *)
(* then.                                                                      *)
DidClose(p) ==
    /\ lifecycle = "Running" /\ editor[p] # NoDocument
    /\ editor' = [editor EXCEPT ![p] = NoDocument]
    /\ \/ /\ p \in exists /\ docs[p] # NoDocument
          /\ Store(p, NoDocument)
          /\ shown' = [shown EXCEPT ![p] = None]
       \/ Refuse(p) /\ UNCHANGED shown
    /\ UNCHANGED <<lifecycle, requestVars, exists>>

(* The session is over.                                                       *)
Ended == ~Serving /\ UNCHANGED vars

Next ==
    \/ \E p \in Paths : Delete(p) \/ Create(p) \/ DidClose(p)
    \/ \E p \in Paths, d \in Documents : DidOpen(p, d) \/ DidChange(p, d)
    \/ \E id \in Ids : Cancel(id)
    \/ Request \/ Initialized \/ Exit \/ Ended

Spec == Init /\ [][Next]_vars
-----------------------------------------------------------------------------
TypeOK ==
    /\ lifecycle \in Lifecycles
    /\ docs \in [Paths -> Documents \cup {NoDocument}]
    /\ snapshots \in [Paths -> Documents \cup {NoDocument}]
    /\ editor \in [Paths -> Documents \cup {NoDocument}]
    /\ shown \in [Paths -> Texts \cup {None}]
    /\ told \subseteq Paths /\ exists \subseteq Paths
    /\ cancelled \subseteq Ids /\ withdrawn \subseteq Ids
    /\ lastId \in 0..MaxId
    /\ reply \in [id : 0..MaxId, code : {"none", "done", "result", "error", "cancelled"},
                  path : Paths \cup {None}, text : Texts \cup {None}]

(* The snapshots, from which ranges are converted, are those of the service,  *)
(* from which answers are computed, whatever failed: neither is ever ahead of *)
(* the other (did_open, did_change, did_close, initialize).                   *)
MirrorsService == snapshots = docs

(* The diagnostics the editor shows are those of the document the server has: *)
(* a refused change or close neither clears nor replaces them                 *)
(* (publish_diagnostics, did_change, did_close).                              *)
PublishedIsCurrent == \A p \in Paths : shown[p] = docs[p].text

(* The server never diverges silently from the editor: where their documents  *)
(* differ, the last notification about it was refused with a message.  After  *)
(* a refused close the next open may be refused as well, and a later accepted *)
(* one brings them together again (did_open, did_change, did_close).          *)
NoSilentDivergence == \A p \in Paths \ told : docs[p] = editor[p]

(* A request is answered as cancelled exactly if its cancellation arrived     *)
(* before it; one that comes late, and stays in the set, cancels no other     *)
(* request (cancel, dispatch_request).                                        *)
CancelledNeverSucceeds ==
    reply.id # 0 => (reply.code = "cancelled" <=> reply.id \in withdrawn)

(* A query is answered from the text the editor has, unless the editor was    *)
(* told of a refusal; never from the disk (doc_position).                     *)
QueryAnswersEditor ==
    [][\A p \in Paths \ told :
          reply' # reply /\ reply'.code = "result" /\ reply'.path = p =>
              editor[p] # NoDocument /\ reply'.text = editor[p].text]_vars
=============================================================================
