------------------------------- MODULE Sharing -------------------------------
(***************************************************************************)
(* Sharing documents: the dashboard of the client (Dashboard.jsx,          *)
(* FileUpload.jsx, FileList.jsx) over the sessions of Session, and the     *)
(* document handlers of server/controllers/filecontroller.js.              *)
(*                                                                         *)
(* The cryptography is abstracted to what it decides: a document opens     *)
(* with the key of the identity it was encrypted for, and its signature is *)
(* valid for the identity whose key signed it.  Identities are compared as *)
(* strings, so an address typed in capitals is another identity.           *)
(***************************************************************************)
EXTENDS Session

CONSTANTS
    Typed,      \* addresses a sender may type that pass the domain check
    Job,        \* slots for concurrent uploads and decryptions
    MaxDocs     \* bound on documents uploaded

ASSUME MaxDocsNat == MaxDocs \in Nat

VARIABLES
    docs,   \* collection documents
    page,   \* the Dashboard of each tab, with its FileUpload
    view,   \* the FileList of each tab
    job     \* handlers of FileUpload and FileList suspended at an await

shareVars == <<docs, page, view, job>>
allVars   == <<sessionVars, shareVars>>

Document == [id : 0 .. MaxDocs, senderId : Member, recipientId : Typed,
             signedBy : Member]

\* A Dashboard: the tokens whose GET /files/received it awaits, what it shows
\* in the place of the list, the documents received, FileUpload's busy flag.
Page == [shown : BOOLEAN, asked : SUBSET Member,
         list : {"loading", "files", "error"}, files : SUBSET Document,
         uploading : BOOLEAN]

\* Not mounted, and mounted in the session of `m'.
NoPage == [shown |-> FALSE, asked |-> {}, list |-> "loading", files |-> {},
           uploading |-> FALSE]
NewPage(m) == [shown |-> TRUE, asked |-> {m}, list |-> "loading",
               files |-> {}, uploading |-> FALSE]

\* The Dashboard p, with another list.
Listing(p, asked, list, files) ==
    [shown |-> p.shown, asked |-> asked, list |-> list, files |-> files,
     uploading |-> p.uploading]

View == [decrypting : BOOLEAN,
         selected : Document \cup {Null}, buffer : Document \cup {Null},
         filename : Document \cup {Null},
         result : {Null, "VALID", "INVALID", "ERROR"}]

\* A FileList that is not mounted, or was just mounted.
NoView == [decrypting |-> FALSE, selected |-> Null, buffer |-> Null,
           filename |-> Null, result |-> Null]

\* Suspended handlers: reading the file to upload, awaiting a download.
\* A handler is live while the component that started it is mounted; `by' is
\* the user who pressed the button.
Uploading == [kind : {"upload"}, in : Tab, key : Member, by : Member \cup {Null},
              to : Typed, live : BOOLEAN]
Viewing   == [kind : {"view"}, in : Tab, key : Member, doc : Document,
              token : Member \cup {Null}, live : BOOLEAN]

ASSUME ShareNullAssumption ==
    /\ Null \notin Typed \cup Document \cup Uploading \cup Viewing
    /\ Null # "VALID"

ShareTypeOK ==
    /\ TypeOK
    /\ docs \subseteq Document
    /\ page \in [Tab -> Page]
    /\ view \in [Tab -> View]
    /\ job \in [Job -> Uploading \cup Viewing \cup {Null}]

ShareInit ==
    /\ Init
    /\ docs = {}
    /\ page = [t \in Tab |-> NoPage]
    /\ view = [t \in Tab |-> NoView]
    /\ job = [j \in Job |-> Null]

session(t) == ctx[Inner(t)]

\* The handlers of the given kinds when the components of tab t that started
\* them are unmounted: they run on, but no longer change what is shown.
Orphaned(t, kinds) ==
    [j \in Job |-> IF job[j] # Null /\ job[j].in = t /\ job[j].kind \in kinds
                   THEN [job[j] EXCEPT !.live = FALSE] ELSE job[j]]

-----------------------------------------------------------------------------
(* The session under the dashboard.                                        *)

\* ProtectedRoute unmounts the Dashboard in the render in which the session
\* ends; a closed tab takes its handlers with it.
Keeps(t) == tab'[t] = "ready" /\ ctx'[Inner(t)].token # Null

\* Mutant: FileList stays when the session ends.
ViewAfterKept(t) == view[t]

ViewAfter(t) == IF Keeps(t) THEN view[t] ELSE NoView

SessionStep ==
    /\ \/ \E t \in Tab : Open(t) \/ Load(t) \/ Close(t) \/ Logout(t)
       \/ \E c \in Call : Answer(c)
    /\ page' = [t \in Tab |-> IF Keeps(t) THEN page[t] ELSE NoPage]
    /\ view' = [t \in Tab |-> ViewAfter(t)]
    /\ job' = [j \in Job |->
                 IF job[j] = Null THEN Null
                 ELSE IF tab'[job[j].in] = "closed" THEN Null
                 ELSE [job[j] EXCEPT !.live = @ /\ Keeps(job[j].in)]]
    /\ UNCHANGED docs

\* A login is answered.  The user may have gone on to the Dashboard of an
\* older session: it asks for the list again, and takes FileList down.
LoginStep(t, m) ==
    /\ Login(t, m)
    /\ IF page[t].shown
       THEN /\ page' = [page EXCEPT ![t] =
                           Listing(@, @.asked \cup {m}, "loading", @.files)]
            /\ view' = [view EXCEPT ![t] = NoView]
            /\ job' = Orphaned(t, {"view"})
       ELSE UNCHANGED <<page, view, job>>
    /\ UNCHANGED docs

EnterDashboard(t) ==
    /\ tab[t] = "ready"
    /\ session(t).token # Null
    /\ ~page[t].shown
    /\ page' = [page EXCEPT ![t] = NewPage(session(t).token)]
    /\ UNCHANGED <<sessionVars, docs, view, job>>

LeaveDashboard(t) ==
    /\ page[t].shown
    /\ page' = [page EXCEPT ![t] = NoPage]
    /\ view' = [view EXCEPT ![t] = NoView]
    /\ job' = Orphaned(t, {"upload", "view"})
    /\ UNCHANGED <<sessionVars, docs>>

getReceivedFiles(user) == {d \in docs : d.recipientId = user}

\* GET /files/received was answered, in whatever order the calls were made.
\* An earlier error goes on hiding the list.
FetchReceived(t, m) ==
    /\ m \in page[t].asked
    /\ page' = [page EXCEPT ![t] =
                  Listing(@, @.asked \ {m},
                          IF @.list = "error" THEN "error" ELSE "files",
                          getReceivedFiles(m))]
    /\ UNCHANGED <<sessionVars, docs, view, job>>

\* It was refused or lost: the error takes the place of FileList.
FetchReceivedFails(t, m) ==
    /\ m \in page[t].asked
    /\ page' = [page EXCEPT ![t] = Listing(@, @.asked \ {m}, "error", {})]
    /\ view' = [view EXCEPT ![t] = NoView]
    /\ job' = Orphaned(t, {"view"})
    /\ UNCHANGED <<sessionVars, docs>>

-----------------------------------------------------------------------------
(* FileUpload.                                                             *)

\* The buttons are enabled when the key is there: null and '' both count as
\* none.
KeyReady(t) ==
    page[t].shown /\ ~session(t).loading /\ ~session(t).error
                  /\ session(t).key \in Member

\* handleUploadAndEncrypt, to the await of the file's bytes.
StartUpload(t, to) ==
    /\ KeyReady(t)
    /\ ~page[t].uploading
    /\ page' = [page EXCEPT ![t].uploading = TRUE]
    /\ \E j \in Job :
        /\ job[j] = Null
        /\ job' = [job EXCEPT ![j] =
                     [kind |-> "upload", in |-> t, key |-> session(t).key,
                      by |-> session(t).user, to |-> to, live |-> TRUE]]
    /\ UNCHANGED <<sessionVars, docs, view>>

\* Whatever happened, the handler ends in its finally block.
EndUpload(j) ==
    /\ page' = IF job[j].live
               THEN [page EXCEPT ![job[j].in].uploading = FALSE] ELSE page
    /\ job' = [job EXCEPT ![j] = Null]
    /\ UNCHANGED <<sessionVars, view>>

\* Mutant: the route is mounted without authMiddleware.
UploadNoToken(j) ==
    /\ job[j] # Null
    /\ job[j].kind = "upload"
    /\ Cardinality(docs) < MaxDocs
    /\ docs' = docs \cup
         {[id |-> Cardinality(docs), senderId |-> stored,
           recipientId |-> job[j].to, signedBy |-> job[j].key]}
    /\ EndUpload(j)

\* The bytes are signed with the captured key, encrypted for the recipient
\* as typed and posted with the token then stored; uploadEncryptedFile saves
\* the document under the email of that token.
Upload(j) ==
    /\ job[j] # Null
    /\ job[j].kind = "upload"
    /\ stored # Null
    /\ Cardinality(docs) < MaxDocs
    /\ docs' = docs \cup
         {[id |-> Cardinality(docs), senderId |-> stored,
           recipientId |-> job[j].to, signedBy |-> job[j].key]}
    /\ EndUpload(j)

\* Mutant: no finally block.
UploadFailsNoFinally(j) ==
    /\ job[j] # Null
    /\ job[j].kind = "upload"
    /\ job' = [job EXCEPT ![j] = Null]
    /\ UNCHANGED <<sessionVars, docs, page, view>>

UploadFails(j) ==
    /\ job[j] # Null
    /\ job[j].kind = "upload"
    /\ UNCHANGED docs
    /\ EndUpload(j)

-----------------------------------------------------------------------------
(* FileList.                                                               *)

\* handleDecryptAndVerify, to the await of the download.  The button of the
\* selected document is disabled while decrypting, the others are not.
StartView(t, d) ==
    /\ KeyReady(t)
    /\ page[t].list = "files"
    /\ d \in page[t].files
    /\ ~(view[t].decrypting /\ view[t].selected = d)
    /\ view' = [view EXCEPT ![t] = [NoView EXCEPT !.selected = d,
                                                 !.decrypting = TRUE]]
    /\ \E j \in Job :
        /\ job[j] = Null
        /\ job' = [job EXCEPT ![j] =
                     [kind |-> "view", in |-> t, key |-> session(t).key,
                      doc |-> d, token |-> stored, live |-> TRUE]]
    /\ UNCHANGED <<sessionVars, docs, page>>

\* downloadEncryptedFile serves the recipient only.
Serves(token, d) == token = d.recipientId

\* Mutant: the result of wasm_verify_buffer is not looked at.
VerifiesUnread(id, d) == TRUE

\* wasm_decrypt_buffer and wasm_verify_buffer.
Opens(key, d)    == key = d.recipientId
Verifies(id, d)  == id = d.signedBy

\* The handler's last assignments, if its component is still mounted.
EndView(j, result, buffer, filename) ==
    /\ view' = IF job[j].live
               THEN [view EXCEPT ![job[j].in] =
                       [decrypting |-> FALSE, selected |-> @.selected,
                        buffer |-> buffer, filename |-> filename,
                        result |-> result]]
               ELSE view
    /\ job' = [job EXCEPT ![j] = Null]
    /\ UNCHANGED <<sessionVars, docs, page>>

IsView(j) == job[j] # Null /\ job[j].kind = "view"

\* The document opens and its signature is that of the listed sender.
ViewValid(j) ==
    /\ IsView(j)
    /\ Serves(job[j].token, job[j].doc)
    /\ Opens(job[j].key, job[j].doc)
    /\ Verifies(job[j].doc.senderId, job[j].doc)
    /\ EndView(j, "VALID", job[j].doc, job[j].doc)

\* Mutant: the INVALID branch leaves what is shown.
ViewInvalidKeepsBuffer(j) ==
    /\ IsView(j)
    /\ Serves(job[j].token, job[j].doc)
    /\ ~(Opens(job[j].key, job[j].doc)
           /\ Verifies(job[j].doc.senderId, job[j].doc))
    /\ EndView(j, "INVALID", view[job[j].in].buffer, view[job[j].in].filename)

\* The signature is not the sender's; what a wrong key gives has none.
ViewInvalid(j) ==
    /\ IsView(j)
    /\ Serves(job[j].token, job[j].doc)
    /\ ~(Opens(job[j].key, job[j].doc)
           /\ Verifies(job[j].doc.senderId, job[j].doc))
    /\ EndView(j, "INVALID", Null, Null)

\* The download is refused or lost, or the bytes cannot be processed.
ViewFails(j) ==
    /\ IsView(j)
    /\ EndView(j, "ERROR", Null, Null)

-----------------------------------------------------------------------------
Handler(j) ==
    \/ Upload(j) \/ UploadFails(j)
    \/ ViewValid(j) \/ ViewInvalid(j) \/ ViewFails(j)

ShareNext ==
    \/ SessionStep
    \/ \E t \in Tab :
        \/ EnterDashboard(t) \/ LeaveDashboard(t)
        \/ \E m \in Member :
            LoginStep(t, m) \/ FetchReceived(t, m) \/ FetchReceivedFails(t, m)
        \/ \E to \in Typed : StartUpload(t, to)
        \/ \E d \in docs : StartView(t, d)
    \/ \E j \in Job : Handler(j)

ShareSpec == ShareInit /\ [][ShareNext]_allVars

-----------------------------------------------------------------------------
(* Properties.                                                             *)

\* Of one tab: however late lists, keys and downloads are answered, a document
\* is shown only in a session of the member it is addressed to, and only if
\* the key of the sender that is listed signed it (FileList.jsx:98-243,
\* filecontroller.js:108).
ShownIsAuthentic ==
    \A t \in Tab : view[t].buffer # Null =>
        /\ view[t].buffer.recipientId = session(t).token
        /\ view[t].buffer.signedBy = view[t].buffer.senderId

\* The file offered for download is offered under its own name, and only
\* while the page says VALID (FileList.jsx:201-214, 247).
DownloadIsVerified ==
    \A t \in Tab :
        /\ view[t].result = "VALID" <=> view[t].buffer # Null
        /\ view[t].filename = view[t].buffer

\* A button that shows "Processing" has a handler that will enable it again
\* (FileUpload.jsx:90, 216, FileList.jsx:99, 242).
BusyHasHandler ==
    \A t \in Tab :
        LET Live(kind) == \E j \in Job :
                job[j] # Null /\ job[j].kind = kind /\ job[j].in = t
                              /\ job[j].live
        IN  /\ page[t].uploading => Live("upload")
            /\ view[t].decrypting => Live("view")

\* Of one tab: the whole of it implements Mailbox.  In particular nothing shown
\* in one session is still there in the next, a document that is stored is not
\* replaced, and none is shown that was not stored (FileList.jsx:98-243,
\* ProtectedRoute.jsx:13, Dashboard.jsx:144, filecontroller.js:25-45).
Mail == INSTANCE Mailbox WITH
    posted <- docs,
    reader <- [t \in Tab |-> session(t).token],
    shown  <- [t \in Tab |-> view[t].buffer]

ImplementsMailbox == Mail!MailSpec

\* "Clear previous buffer" (FileList.jsx:104): what is shown is the document
\* that was selected last.
ShownIsSelected ==
    \A t \in Tab :
        view[t].buffer # Null => view[t].buffer = view[t].selected

\* "Store the ID of the user who uploaded (sender)" (Document.js:15).
SenderIsUploader ==
    [][\A d \in docs' \ docs :
         \E j \in Job :
            job[j] # Null /\ job'[j] = Null /\ job[j].kind = "upload"
                          /\ d.senderId = job[j].by]_allVars
=============================================================================
