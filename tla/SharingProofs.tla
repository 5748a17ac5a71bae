---------------------------- MODULE SharingProofs ----------------------------
(***************************************************************************)
(* What holds of Sharing for every number of tabs, members, addresses,     *)
(* documents, calls and handlers, and of a browser with one tab.           *)
(***************************************************************************)
EXTENDS Sharing, SessionProofs, FiniteSetTheorems

\* A mounted Dashboard belongs to a session; an unmounted one shows nothing.
PagesOK ==
    \A t \in Tab :
        /\ page[t].shown => tab[t] = "ready" /\ session(t).token # Null
        /\ ~page[t].shown => page[t] = NoPage /\ view[t] = NoView

\* A live handler works for a page that is mounted.
JobsOK == \A j \in Job : job[j] # Null /\ job[j].live => page[job[j].in].shown

DocsOK == IsFiniteSet(docs)

ShareInv ==
    /\ ShareTypeOK
    /\ DocsOK
    /\ PagesOK
    /\ JobsOK
    /\ DownloadIsVerified
    /\ BusyHasHandler

LEMMA Pages ==
  /\ NoPage \in Page /\ ~NoPage.shown /\ ~NoPage.uploading
  /\ \A m \in Member : /\ NewPage(m) \in Page
                       /\ NewPage(m).shown /\ ~NewPage(m).uploading
  /\ NoView \in View /\ ~NoView.decrypting
  /\ NoView.result = Null /\ NoView.buffer = Null /\ NoView.filename = Null
<1>1. NoPage \in Page /\ ~NoPage.shown /\ ~NoPage.uploading
  <2>1. {} \in SUBSET Member /\ {} \in SUBSET Document
    OBVIOUS
  <2> QED
    BY <2>1 DEF NoPage, Page
<1>2. ASSUME NEW m \in Member
      PROVE  /\ NewPage(m) \in Page
             /\ NewPage(m).shown /\ ~NewPage(m).uploading
  <2>1. {m} \in SUBSET Member /\ {} \in SUBSET Document
    OBVIOUS
  <2> QED
    BY <2>1 DEF NewPage, Page
<1>3. /\ NoView \in View /\ ~NoView.decrypting
      /\ NoView.result = Null /\ NoView.buffer = Null /\ NoView.filename = Null
  BY DEF NoView, View
<1> QED
  BY <1>1, <1>2, <1>3

\* A page with another list.
LEMMA Listings ==
  ASSUME NEW p \in Page, NEW asked \in SUBSET Member,
         NEW list \in {"loading", "files", "error"},
         NEW files \in SUBSET Document
  PROVE  /\ Listing(p, asked, list, files) \in Page
         /\ Listing(p, asked, list, files).shown = p.shown
         /\ Listing(p, asked, list, files).uploading = p.uploading
<1>1. p.shown \in BOOLEAN /\ p.uploading \in BOOLEAN
  BY DEF Page
<1> QED
  BY <1>1 DEF Listing, Page

LEMMA PageRelisted ==
  ASSUME ShareTypeOK, NEW t \in Tab, NEW asked \in SUBSET Member,
         NEW list \in {"loading", "files", "error"},
         NEW files \in SUBSET Document,
         page' = [page EXCEPT ![t] = Listing(page[t], asked, list, files)]
  PROVE  /\ page' \in [Tab -> Page]
         /\ \A u \in Tab : /\ page'[u].shown = page[u].shown
                           /\ page'[u].uploading = page[u].uploading
                           /\ u # t => page'[u] = page[u]
<1> DEFINE x == Listing(page[t], asked, list, files)
<1>1. /\ x \in Page
      /\ x.shown = page[t].shown
      /\ x.uploading = page[t].uploading
  <2>1. page[t] \in Page
    BY DEF ShareTypeOK
  <2> QED
    BY <2>1, Listings
<1>2. page' = [page EXCEPT ![t] = x]
  OBVIOUS
<1> HIDE DEF x
<1> QED
  BY <1>1, <1>2 DEF ShareTypeOK

LEMMA ShareInitInv == ShareInit => ShareInv
  BY TypeInit, Pages, FS_EmptySet, ShareNullAssumption
     DEF ShareInit, ShareInv, ShareTypeOK, DocsOK, PagesOK, JobsOK,
         DownloadIsVerified, BusyHasHandler

-----------------------------------------------------------------------------
(* Handlers.                                                               *)

\* What the handlers of a tab are.
LEMMA Jobs ==
  ASSUME ShareTypeOK, NEW j \in Job, job[j] # Null
  PROVE  /\ job[j].in \in Tab
         /\ job[j].live \in BOOLEAN
         /\ job[j].kind \in {"upload", "view"}
         /\ job[j].key \in Member
         /\ job[j].kind = "upload" => job[j].to \in Typed
         /\ job[j].kind = "view" =>
              job[j].doc \in Document /\ job[j].token \in Member \cup {Null}
<1>1. CASE job[j] \in Uploading
  BY <1>1 DEF Uploading
<1>2. CASE job[j] \in Viewing
  BY <1>2 DEF Viewing
<1> QED
  BY <1>1, <1>2 DEF ShareTypeOK

\* A handler whose component is unmounted is otherwise unchanged.
LEMMA Orphan ==
  ASSUME ShareTypeOK, NEW j \in Job, job[j] # Null, NEW b \in BOOLEAN
  PROVE  LET x == [job[j] EXCEPT !.live = b]
         IN  /\ x \in Uploading \cup Viewing
             /\ x # Null
             /\ x.live = b /\ x.in = job[j].in /\ x.kind = job[j].kind
             /\ job[j].kind = "upload" =>
                  x.key = job[j].key /\ x.by = job[j].by
             /\ job[j].kind = "view" =>
                  x.doc = job[j].doc /\ x.token = job[j].token
<1> DEFINE x == [job[j] EXCEPT !.live = b]
<1>1. CASE job[j] \in Uploading
  <2>1. x \in Uploading
    BY <1>1 DEF Uploading
  <2>2. /\ x.live = b /\ x.in = job[j].in /\ x.kind = job[j].kind
        /\ x.key = job[j].key /\ x.by = job[j].by
    BY <1>1 DEF Uploading
  <2>3. job[j].kind # "view"
    BY <1>1 DEF Uploading
  <2> QED
    BY <2>1, <2>2, <2>3, ShareNullAssumption
<1>2. CASE job[j] \in Viewing
  <2>1. x \in Viewing
    BY <1>2 DEF Viewing
  <2>2. /\ x.live = b /\ x.in = job[j].in /\ x.kind = job[j].kind
        /\ x.doc = job[j].doc /\ x.token = job[j].token
    BY <1>2 DEF Viewing
  <2>3. job[j].kind # "upload"
    BY <1>2 DEF Viewing
  <2> QED
    BY <2>1, <2>2, <2>3, ShareNullAssumption
<1> QED
  BY <1>1, <1>2 DEF ShareTypeOK

\* Orphaned takes the handlers of some kinds off their page, and no others.
LEMMA Orphans ==
  ASSUME ShareTypeOK, NEW t \in Tab, NEW kinds, job' = Orphaned(t, kinds)
  PROVE  /\ job' \in [Job -> Uploading \cup Viewing \cup {Null}]
         /\ \A j \in Job : job'[j] # Null =>
              /\ job[j] # Null
              /\ job'[j].in = job[j].in /\ job'[j].kind = job[j].kind
              /\ job[j].kind = "upload" =>
                   job'[j].key = job[j].key /\ job'[j].by = job[j].by
              /\ job[j].kind = "view" =>
                   job'[j].doc = job[j].doc /\ job'[j].token = job[j].token
              /\ job'[j].live <=>
                   job[j].live /\ ~(job[j].in = t /\ job[j].kind \in kinds)
         /\ \A j \in Job : job[j] # Null => job'[j] # Null
<1>1. ASSUME NEW j \in Job
      PROVE  /\ job'[j] \in Uploading \cup Viewing \cup {Null}
             /\ job'[j] # Null =>
                  /\ job[j] # Null
                  /\ job'[j].in = job[j].in /\ job'[j].kind = job[j].kind
                  /\ job[j].kind = "upload" =>
                       job'[j].key = job[j].key /\ job'[j].by = job[j].by
                  /\ job[j].kind = "view" =>
                       job'[j].doc = job[j].doc /\ job'[j].token = job[j].token
                  /\ job'[j].live <=>
                       job[j].live /\ ~(job[j].in = t /\ job[j].kind \in kinds)
             /\ job[j] # Null => job'[j] # Null
  <2>1. CASE job[j] # Null /\ job[j].in = t /\ job[j].kind \in kinds
    <3>1. job'[j] = [job[j] EXCEPT !.live = FALSE]
      BY <2>1 DEF Orphaned
    <3>2. PICK b \in BOOLEAN : b = FALSE
      OBVIOUS
    <3>3. job'[j] = [job[j] EXCEPT !.live = b]
      BY <3>1, <3>2
    <3> QED
      BY <2>1, <3>2, <3>3, Orphan, SMTT(30)
  <2>2. CASE ~(job[j] # Null /\ job[j].in = t /\ job[j].kind \in kinds)
    <3>1. job'[j] = job[j]
      BY <2>2 DEF Orphaned
    <3> QED
      BY <2>2, <3>1 DEF ShareTypeOK
  <2> QED
    BY <2>1, <2>2
<1>2. job' = [j \in Job |-> job'[j]]
  BY DEF Orphaned
<1> QED
  BY <1>1, <1>2

-----------------------------------------------------------------------------
(* Steps of the session.                                                   *)

LEMMA SessionStepIsNext ==
  ASSUME SessionStep
  PROVE  SessionNext
  BY DEF SessionStep, SessionNext, User

\* What a step of the session does to the tabs.
LEMMA SessionStepPages ==
  ASSUME ShareInv, SessionStep, NEW t \in Tab
  PROVE  /\ Keeps(t) => page'[t] = page[t] /\ view'[t] = view[t]
         /\ ~Keeps(t) => page'[t] = NoPage /\ view'[t] = NoView
  BY DEF SessionStep, ViewAfter

\* What it does to the handlers.
LEMMA SessionStepJobs ==
  ASSUME ShareInv, SessionStep, NEW j \in Job
  PROVE  /\ job'[j] \in Uploading \cup Viewing \cup {Null}
         /\ job'[j] # Null =>
              /\ job[j] # Null
              /\ job'[j].in = job[j].in /\ job'[j].kind = job[j].kind
              /\ job[j].kind = "upload" =>
                   job'[j].key = job[j].key /\ job'[j].by = job[j].by
              /\ job[j].kind = "view" =>
                   job'[j].doc = job[j].doc /\ job'[j].token = job[j].token
              /\ job'[j].live <=> job[j].live /\ Keeps(job[j].in)
         /\ job[j] # Null /\ Keeps(job[j].in) => job'[j] # Null
<1>1. CASE job'[j] = Null
  <2>1. job[j] # Null /\ Keeps(job[j].in) => job'[j] # Null
    <3> SUFFICES ASSUME job[j] # Null, Keeps(job[j].in)
                 PROVE  job'[j] # Null
      OBVIOUS
    <3>1. job'[j] = [job[j] EXCEPT !.live = @ /\ Keeps(job[j].in)]
      BY DEF SessionStep, Keeps
    <3>2. (job[j].live /\ Keeps(job[j].in)) \in BOOLEAN
      BY Jobs DEF ShareInv
    <3> QED
      BY <3>1, <3>2, Orphan DEF ShareInv
  <2> QED
    BY <1>1, <2>1
<1>2. CASE /\ job[j] # Null
           /\ job'[j] = [job[j] EXCEPT !.live = @ /\ Keeps(job[j].in)]
  <2>1. ShareTypeOK /\ job[j].live \in BOOLEAN
    BY <1>2, Jobs DEF ShareInv
  <2>2. PICK b \in BOOLEAN : b <=> job[j].live /\ Keeps(job[j].in)
    BY <2>1
  <2>3. job'[j] = [job[j] EXCEPT !.live = b]
    BY <1>2, <2>1, <2>2
  <2> QED
    BY <1>2, <2>1, <2>2, <2>3, Orphan
<1> QED
  BY <1>1, <1>2 DEF SessionStep

LEMMA SessionStepInv ==
  ASSUME ShareInv, SessionStep
  PROVE  ShareInv'
<1> USE SessionStepPages, SessionStepJobs
<1>1. TypeOK'
  BY SessionStepIsNext, TypeStep DEF ShareInv, ShareTypeOK
<1>2. ShareTypeOK'
  <2>1. page' \in [Tab -> Page] /\ view' \in [Tab -> View]
    <3>1. \A t \in Tab : page'[t] \in Page /\ view'[t] \in View
      BY Pages DEF ShareInv, ShareTypeOK
    <3> QED
      BY <3>1 DEF SessionStep
  <2>2. job' \in [Job -> Uploading \cup Viewing \cup {Null}]
    BY DEF SessionStep
  <2> QED
    BY <1>1, <2>1, <2>2 DEF SessionStep, ShareInv, ShareTypeOK
<1>3. DocsOK'
  BY DEF SessionStep, ShareInv, DocsOK
<1>4. PagesOK'
  BY Pages DEF PagesOK, ShareInv, Keeps, session
<1>5. JobsOK'
  <2> SUFFICES ASSUME NEW j \in Job, job'[j] # Null, job'[j].live
               PROVE  page'[job'[j].in].shown
    BY DEF JobsOK
  <2>1. /\ job[j] # Null /\ job'[j].in = job[j].in /\ job[j].live
        /\ Keeps(job[j].in) /\ job[j].in \in Tab
    BY Jobs DEF ShareInv
  <2> QED
    BY <2>1 DEF ShareInv, JobsOK
<1>6. DownloadIsVerified'
  BY Pages, ShareNullAssumption DEF DownloadIsVerified, ShareInv
<1>7. BusyHasHandler'
  <2> SUFFICES ASSUME NEW t \in Tab, NEW kind \in {"upload", "view"},
                      kind = "upload" => page'[t].uploading,
                      kind = "view" => view'[t].decrypting
               PROVE  \E j \in Job :
                         /\ job'[j] # Null /\ job'[j].kind = kind
                         /\ job'[j].in = t /\ job'[j].live
    BY DEF BusyHasHandler
  <2>1. Keeps(t) /\ page'[t] = page[t] /\ view'[t] = view[t]
    BY Pages
  <2>2. PICK j \in Job : /\ job[j] # Null /\ job[j].kind = kind
                         /\ job[j].in = t /\ job[j].live
    BY <2>1 DEF ShareInv, BusyHasHandler
  <2>3. job'[j] # Null
    BY <2>1, <2>2
  <2> QED
    BY <2>1, <2>2, <2>3
<1> QED
  BY <1>2, <1>3, <1>4, <1>5, <1>6, <1>7 DEF ShareInv

-----------------------------------------------------------------------------
(* Steps of the Dashboard.                                                 *)

\* TypeOK and the sessions are those of unchanged variables.
LEMMA SessionSame ==
  ASSUME ShareInv, UNCHANGED sessionVars
  PROVE  /\ TypeOK' /\ tab' = tab
         /\ \A t \in Tab : session(t)' = session(t)
  BY DEF sessionVars, ShareInv, ShareTypeOK, TypeOK, session

LEMMA LoginStepInv ==
  ASSUME ShareInv, NEW t \in Tab, NEW m \in Member, LoginStep(t, m)
  PROVE  ShareInv'
<1>1. TypeOK'
  <2>1. SessionNext
    BY DEF LoginStep, SessionNext, User
  <2> QED
    BY <2>1, TypeStep DEF ShareInv, ShareTypeOK
<1>2. /\ tab' = tab /\ tab[t] = "ready" /\ docs' = docs
      /\ session(t)'.token # Null
      /\ \A u \in Tab : u # t => session(u)' = session(u)
  <2>1. ctx' = [ctx EXCEPT ![Inner(t)] = Fetching(m)]
    BY DEF LoginStep, Login
  <2>2. Fetching(m).token # Null
    BY NullAssumption DEF Fetching
  <2> QED
    BY <2>1, <2>2, Providers
       DEF LoginStep, Login, session, ShareInv, ShareTypeOK, TypeOK
<1>3. CASE ~page[t].shown
  <2>1. UNCHANGED <<page, view, job>>
    BY <1>3 DEF LoginStep
  <2>2. PagesOK'
    BY <1>2, <2>1 DEF ShareInv, PagesOK
  <2> QED
    BY <1>1, <1>2, <2>1, <2>2
       DEF ShareInv, ShareTypeOK, DocsOK, JobsOK, DownloadIsVerified,
           BusyHasHandler
<1>4. CASE page[t].shown
  <2>1. /\ page' = [page EXCEPT ![t] =
                       Listing(page[t], page[t].asked \cup {m}, "loading",
                               page[t].files)]
        /\ view' = [view EXCEPT ![t] = NoView]
        /\ job' = Orphaned(t, {"view"})
    BY <1>4 DEF LoginStep
  <2>2. /\ page' \in [Tab -> Page]
        /\ \A u \in Tab : /\ page'[u].shown = page[u].shown
                          /\ page'[u].uploading = page[u].uploading
                          /\ u # t => page'[u] = page[u]
    <3>1. /\ page[t].asked \cup {m} \in SUBSET Member
          /\ page[t].files \in SUBSET Document
      BY DEF ShareInv, ShareTypeOK, Page
    <3> QED
      BY <2>1, <3>1, PageRelisted, ZenonT(60) DEF ShareInv
  <2>4. view' \in [Tab -> View]
    BY <2>1, Pages DEF ShareInv, ShareTypeOK
  <2>5. ShareTypeOK'
    BY <1>1, <1>2, <2>1, <2>2, <2>4, Orphans DEF ShareInv, ShareTypeOK
  <2>6. PagesOK'
    BY <1>2, <1>4, <2>1, <2>2, ZenonT(60) DEF ShareInv, ShareTypeOK, PagesOK
  <2>7. JobsOK'
    <3> SUFFICES ASSUME NEW j \in Job, job'[j] # Null, job'[j].live
                 PROVE  page'[job'[j].in].shown
      BY DEF JobsOK
    <3>1. /\ job[j] # Null /\ job[j].live /\ job'[j].in = job[j].in
          /\ job[j].in \in Tab
      BY <2>1, Orphans, Jobs DEF ShareInv
    <3> QED
      BY <2>2, <3>1 DEF ShareInv, JobsOK
  <2>8. DownloadIsVerified'
    BY <2>1, Pages, ShareNullAssumption
       DEF ShareInv, ShareTypeOK, DownloadIsVerified
  <2>9. BusyHasHandler'
    <3> SUFFICES ASSUME NEW u \in Tab, NEW kind \in {"upload", "view"},
                        kind = "upload" => page'[u].uploading,
                        kind = "view" => view'[u].decrypting
                 PROVE  \E j \in Job :
                           /\ job'[j] # Null /\ job'[j].kind = kind
                           /\ job'[j].in = u /\ job'[j].live
      BY DEF BusyHasHandler
    <3>1. /\ kind = "upload" => page[u].uploading
          /\ kind = "view" => u # t /\ view[u].decrypting
      BY <2>1, <2>2, Pages DEF ShareInv, ShareTypeOK
    <3>2. PICK j \in Job : /\ job[j] # Null /\ job[j].kind = kind
                           /\ job[j].in = u /\ job[j].live
      BY <3>1 DEF ShareInv, BusyHasHandler
    <3> QED
      BY <2>1, <3>1, <3>2, Orphans DEF ShareInv
  <2> QED
    BY <1>2, <2>5, <2>6, <2>7, <2>8, <2>9 DEF ShareInv, DocsOK
<1> QED
  BY <1>3, <1>4

LEMMA EnterDashboardInv ==
  ASSUME ShareInv, NEW t \in Tab, EnterDashboard(t)
  PROVE  ShareInv'
<1> USE SessionSame DEF EnterDashboard
<1>1. session(t).token \in Member
  BY Providers DEF ShareInv, ShareTypeOK, TypeOK, session, Context
<1>2. /\ page' \in [Tab -> Page]
      /\ page'[t].shown /\ ~page'[t].uploading
      /\ \A u \in Tab : u # t => page'[u] = page[u]
  BY <1>1, Pages DEF ShareInv, ShareTypeOK
<1>3. ShareTypeOK'
  BY <1>2 DEF ShareInv, ShareTypeOK
<1>4. PagesOK'
  BY <1>2 DEF ShareInv, PagesOK
<1>5. JobsOK'
  BY <1>2, Jobs DEF ShareInv, JobsOK
<1>6. BusyHasHandler'
  BY <1>2 DEF ShareInv, BusyHasHandler
<1> QED
  BY <1>3, <1>4, <1>5, <1>6 DEF ShareInv, DocsOK, DownloadIsVerified

LEMMA LeaveDashboardInv ==
  ASSUME ShareInv, NEW t \in Tab, LeaveDashboard(t)
  PROVE  ShareInv'
<1> USE SessionSame DEF LeaveDashboard
<1>1. /\ page' \in [Tab -> Page] /\ view' \in [Tab -> View]
      /\ page'[t] = NoPage /\ view'[t] = NoView
      /\ \A u \in Tab : u # t => page'[u] = page[u] /\ view'[u] = view[u]
  BY Pages DEF ShareInv, ShareTypeOK
<1>2. ShareTypeOK'
  BY <1>1, Orphans DEF ShareInv, ShareTypeOK
<1>3. PagesOK'
  BY <1>1, Pages DEF ShareInv, PagesOK
<1>4. JobsOK'
  BY <1>1, Orphans, Jobs DEF ShareInv, JobsOK
<1>5. DownloadIsVerified'
  BY <1>1, Pages, ShareNullAssumption DEF ShareInv, DownloadIsVerified
<1>6. BusyHasHandler'
  <2> SUFFICES ASSUME NEW u \in Tab, NEW kind \in {"upload", "view"},
                      kind = "upload" => page'[u].uploading,
                      kind = "view" => view'[u].decrypting
               PROVE  \E j \in Job :
                         /\ job'[j] # Null /\ job'[j].kind = kind
                         /\ job'[j].in = u /\ job'[j].live
    BY DEF BusyHasHandler
  <2>1. u # t
    BY <1>1, Pages
  <2>2. PICK j \in Job : /\ job[j] # Null /\ job[j].kind = kind
                         /\ job[j].in = u /\ job[j].live
    BY <1>1, <2>1 DEF ShareInv, BusyHasHandler
  <2> QED
    BY <2>1, <2>2, Orphans DEF ShareInv
<1> QED
  BY <1>2, <1>3, <1>4, <1>5, <1>6 DEF ShareInv, DocsOK

LEMMA FetchReceivedInv ==
  ASSUME ShareInv, NEW t \in Tab, NEW m \in Member, FetchReceived(t, m)
  PROVE  ShareInv'
<1> USE SessionSame
<1> DEFINE list == IF page[t].list = "error" THEN "error" ELSE "files"
<1>0. /\ m \in page[t].asked
      /\ page' = [page EXCEPT ![t] =
                    Listing(page[t], page[t].asked \ {m}, list,
                            getReceivedFiles(m))]
      /\ UNCHANGED <<sessionVars, docs, view, job>>
  BY DEF FetchReceived
<1>1. /\ page[t].asked \ {m} \in SUBSET Member
      /\ list \in {"loading", "files", "error"}
      /\ getReceivedFiles(m) \in SUBSET Document
  BY DEF ShareInv, ShareTypeOK, Page, getReceivedFiles
<1> HIDE DEF list
<1>2. page' \in [Tab -> Page]
  BY <1>0, <1>1, PageRelisted DEF ShareInv
<1>3. \A u \in Tab : /\ page'[u].shown = page[u].shown
                     /\ page'[u].uploading = page[u].uploading
  BY <1>0, <1>1, PageRelisted DEF ShareInv
<1>4. page[t].shown
  BY <1>0 DEF ShareInv, PagesOK, NoPage
<1>5. ShareTypeOK'
  BY <1>0, <1>2 DEF ShareInv, ShareTypeOK
<1>6. PagesOK'
  BY <1>0, <1>3, <1>4 DEF ShareInv, PagesOK
<1>7. JobsOK'
  BY <1>0, <1>3, Jobs DEF ShareInv, JobsOK
<1>8. BusyHasHandler'
  BY <1>0, <1>3 DEF ShareInv, BusyHasHandler
<1> QED
  BY <1>0, <1>5, <1>6, <1>7, <1>8 DEF ShareInv, DocsOK, DownloadIsVerified

LEMMA FetchReceivedFailsInv ==
  ASSUME ShareInv, NEW t \in Tab, NEW m \in Member, FetchReceivedFails(t, m)
  PROVE  ShareInv'
<1> USE SessionSame
<1>0. /\ m \in page[t].asked
      /\ page' = [page EXCEPT ![t] =
                    Listing(page[t], page[t].asked \ {m}, "error", {})]
      /\ view' = [view EXCEPT ![t] = NoView]
      /\ job' = Orphaned(t, {"view"})
      /\ UNCHANGED <<sessionVars, docs>>
  BY DEF FetchReceivedFails
<1>1. page[t].asked \ {m} \in SUBSET Member /\ {} \in SUBSET Document
  BY DEF ShareInv, ShareTypeOK, Page
<1>2. page' \in [Tab -> Page]
  BY <1>0, <1>1, PageRelisted DEF ShareInv
<1>3. \A u \in Tab : /\ page'[u].shown = page[u].shown
                     /\ page'[u].uploading = page[u].uploading
                     /\ u # t => page'[u] = page[u] /\ view'[u] = view[u]
  BY <1>0, <1>1, PageRelisted, ZenonT(60) DEF ShareInv, ShareTypeOK
<1>4. page[t].shown
  BY <1>0 DEF ShareInv, PagesOK, NoPage
<1>5. view' \in [Tab -> View] /\ view'[t] = NoView
  BY <1>0, Pages DEF ShareInv, ShareTypeOK
<1>6. ShareTypeOK'
  BY <1>0, <1>2, <1>5, Orphans DEF ShareInv, ShareTypeOK
<1>7. PagesOK'
  BY <1>0, <1>3, <1>4, ZenonT(60) DEF ShareInv, PagesOK
<1>8. JobsOK'
  <2> SUFFICES ASSUME NEW j \in Job, job'[j] # Null, job'[j].live
               PROVE  page'[job'[j].in].shown
    BY DEF JobsOK
  <2>1. /\ job[j] # Null /\ job[j].live /\ job'[j].in = job[j].in
        /\ job[j].in \in Tab
    BY <1>0, Orphans, Jobs DEF ShareInv
  <2> QED
    BY <1>3, <2>1 DEF ShareInv, JobsOK
<1>9. DownloadIsVerified'
  BY <1>3, <1>5, Pages, ShareNullAssumption DEF ShareInv, DownloadIsVerified
<1>10. BusyHasHandler'
  <2> SUFFICES ASSUME NEW u \in Tab, NEW kind \in {"upload", "view"},
                      kind = "upload" => page'[u].uploading,
                      kind = "view" => view'[u].decrypting
               PROVE  \E j \in Job :
                         /\ job'[j] # Null /\ job'[j].kind = kind
                         /\ job'[j].in = u /\ job'[j].live
    BY DEF BusyHasHandler
  <2>1. /\ kind = "upload" => page[u].uploading
        /\ kind = "view" => u # t /\ view[u].decrypting
    BY <1>3, <1>5, Pages
  <2>2. PICK j \in Job : /\ job[j] # Null /\ job[j].kind = kind
                         /\ job[j].in = u /\ job[j].live
    BY <2>1 DEF ShareInv, BusyHasHandler
  <2> QED
    BY <1>0, <2>1, <2>2, Orphans DEF ShareInv
<1> QED
  BY <1>0, <1>6, <1>7, <1>8, <1>9, <1>10 DEF ShareInv, DocsOK

-----------------------------------------------------------------------------
(* Steps of FileUpload.                                                    *)

LEMMA StartUploadInv ==
  ASSUME ShareInv, NEW t \in Tab, NEW to \in Typed, StartUpload(t, to)
  PROVE  ShareInv'
<1> USE SessionSame DEF StartUpload
<1>1. /\ page' \in [Tab -> Page]
      /\ page'[t].uploading
      /\ \A u \in Tab : /\ page'[u].shown = page[u].shown
                        /\ u # t => page'[u] = page[u]
  <2> DEFINE x == [page[t] EXCEPT !.uploading = TRUE]
  <2>1. page \in [Tab -> Page]
    BY DEF ShareInv, ShareTypeOK
  <2>2. x \in Page /\ x.uploading /\ x.shown = page[t].shown
    BY <2>1 DEF Page
  <2>3. page' = [page EXCEPT ![t] = x]
    OBVIOUS
  <2> HIDE DEF x
  <2> QED
    BY <2>1, <2>2, <2>3
<1>2. page[t].shown
  BY DEF KeyReady
<1> DEFINE x == [kind |-> "upload", in |-> t, key |-> session(t).key,
                 by |-> session(t).user, to |-> to, live |-> TRUE]
<1>3. x \in Uploading /\ x.kind = "upload" /\ x.in = t /\ x.live
  <2>1. session(t) \in Context
    BY Providers DEF ShareInv, ShareTypeOK, TypeOK, session
  <2>2. session(t).key \in Member /\ session(t).user \in Member \cup {Null}
    BY <2>1 DEF KeyReady, Context
  <2> QED
    BY <2>2 DEF Uploading
<1>4. PICK j \in Job : job[j] = Null /\ job' = [job EXCEPT ![j] = x]
  OBVIOUS
<1> HIDE DEF x
<1>5. /\ job'[j] = x /\ x # Null
      /\ \A i \in Job : i # j => job'[i] = job[i]
      /\ job' \in [Job -> Uploading \cup Viewing \cup {Null}]
  BY <1>3, <1>4, ShareNullAssumption DEF ShareInv, ShareTypeOK
<1>6. ShareTypeOK'
  BY <1>1, <1>5 DEF ShareInv, ShareTypeOK
<1>7. PagesOK'
  BY <1>1, <1>2 DEF ShareInv, PagesOK
<1>8. JobsOK'
  BY <1>1, <1>2, <1>3, <1>5, Jobs DEF ShareInv, JobsOK
<1>9. BusyHasHandler'
  <2> SUFFICES ASSUME NEW u \in Tab, NEW kind \in {"upload", "view"},
                      kind = "upload" => page'[u].uploading,
                      kind = "view" => view[u].decrypting
               PROVE  \E i \in Job :
                         /\ job'[i] # Null /\ job'[i].kind = kind
                         /\ job'[i].in = u /\ job'[i].live
    BY DEF BusyHasHandler
  <2>1. CASE u = t /\ kind = "upload"
    BY <2>1, <1>3, <1>5
  <2>2. CASE ~(u = t /\ kind = "upload")
    <3>1. PICK i \in Job : /\ job[i] # Null /\ job[i].kind = kind
                           /\ job[i].in = u /\ job[i].live
      BY <2>2, <1>1 DEF ShareInv, BusyHasHandler
    <3> QED
      BY <3>1, <1>4, <1>5
  <2> QED
    BY <2>1, <2>2
<1> QED
  BY <1>6, <1>7, <1>8, <1>9 DEF ShareInv, DocsOK, DownloadIsVerified

\* A handler that ends, and is not needed by what shows "Processing".
LEMMA EndUploadInv ==
  ASSUME ShareInv, NEW j \in Job, job[j] # Null, job[j].kind = "upload",
         docs' \subseteq Document, IsFiniteSet(docs'), EndUpload(j)
  PROVE  ShareInv'
<1> USE SessionSame
<1>0. /\ page' = IF job[j].live
                 THEN [page EXCEPT ![job[j].in].uploading = FALSE] ELSE page
      /\ job' = [job EXCEPT ![j] = Null]
      /\ UNCHANGED <<sessionVars, view>>
  BY DEF EndUpload
<1>1. /\ page' \in [Tab -> Page]
      /\ \A u \in Tab : /\ page'[u].shown = page[u].shown
                        /\ page'[u].uploading => page[u].uploading
                        /\ u # job[j].in => page'[u] = page[u]
                        /\ page'[u] # page[u] => job[j].live
                        /\ u = job[j].in /\ job[j].live => ~page'[u].uploading
  <2>1. job[j].in \in Tab
    BY Jobs DEF ShareInv
  <2>2. CASE job[j].live
    <3>1. page' = [page EXCEPT ![job[j].in].uploading = FALSE]
      BY <1>0, <2>2
    <3>2. /\ page' \in [Tab -> Page]
          /\ page'[job[j].in].shown = page[job[j].in].shown
          /\ ~page'[job[j].in].uploading
      BY <2>1, <3>1, ZenonT(60) DEF ShareInv, ShareTypeOK, Page
    <3>3. \A u \in Tab : u # job[j].in => page'[u] = page[u]
      BY <3>1 DEF ShareInv, ShareTypeOK
    <3> QED
      BY <2>2, <3>2, <3>3
  <2>3. CASE ~job[j].live
    BY <1>0, <2>3 DEF ShareInv, ShareTypeOK
  <2> QED
    BY <2>2, <2>3
<1>2. /\ job'[j] = Null
      /\ \A i \in Job : i # j => job'[i] = job[i]
      /\ job' \in [Job -> Uploading \cup Viewing \cup {Null}]
  BY <1>0 DEF ShareInv, ShareTypeOK
<1>3. ShareTypeOK'
  BY <1>0, <1>1, <1>2 DEF ShareInv, ShareTypeOK
<1>4. PagesOK'
  <2>1. page[job[j].in].shown \/ ~job[j].live
    BY DEF ShareInv, JobsOK
  <2> QED
    BY <1>0, <1>1, <2>1 DEF ShareInv, PagesOK
<1>5. JobsOK'
  BY <1>1, <1>2, Jobs DEF ShareInv, JobsOK
<1>6. BusyHasHandler'
  <2> SUFFICES ASSUME NEW u \in Tab, NEW kind \in {"upload", "view"},
                      kind = "upload" => page'[u].uploading,
                      kind = "view" => view'[u].decrypting
               PROVE  \E i \in Job :
                         /\ job'[i] # Null /\ job'[i].kind = kind
                         /\ job'[i].in = u /\ job'[i].live
    BY DEF BusyHasHandler
  <2>1. PICK i \in Job : /\ job[i] # Null /\ job[i].kind = kind
                         /\ job[i].in = u /\ job[i].live
    BY <1>0, <1>1 DEF ShareInv, BusyHasHandler
  <2>2. i # j
    BY <1>1, <2>1
  <2> QED
    BY <1>2, <2>1, <2>2
<1> QED
  BY <1>0, <1>3, <1>4, <1>5, <1>6
     DEF ShareInv, DocsOK, DownloadIsVerified

LEMMA UploadInv ==
  ASSUME ShareInv, NEW j \in Job, Upload(j)
  PROVE  ShareInv'
<1> DEFINE d == [id |-> Cardinality(docs), senderId |-> stored,
                 recipientId |-> job[j].to, signedBy |-> job[j].key]
<1>1. /\ job[j] # Null /\ job[j].kind = "upload"
      /\ stored # Null /\ Cardinality(docs) < MaxDocs
      /\ docs' = docs \cup {d}
      /\ EndUpload(j)
  BY DEF Upload
<1>2. Cardinality(docs) \in 0 .. MaxDocs
  BY <1>1, FS_CardinalityType, MaxDocsNat DEF ShareInv, DocsOK
<1>3. stored \in Member /\ job[j].to \in Typed /\ job[j].key \in Member
  BY <1>1, Jobs DEF ShareInv, ShareTypeOK, TypeOK
<1>4. d \in Document
  BY <1>2, <1>3 DEF Document
<1> HIDE DEF d
<1>5. docs' \subseteq Document /\ IsFiniteSet(docs')
  BY <1>1, <1>4, FS_AddElement DEF ShareInv, ShareTypeOK, DocsOK
<1> QED
  BY <1>1, <1>5, EndUploadInv

LEMMA UploadFailsInv ==
  ASSUME ShareInv, NEW j \in Job, UploadFails(j)
  PROVE  ShareInv'
  BY EndUploadInv DEF UploadFails, ShareInv, ShareTypeOK, DocsOK

-----------------------------------------------------------------------------
(* Steps of FileList.                                                      *)

\* The handler of a decryption that starts.
LEMMA NewViewing ==
  ASSUME ShareInv, NEW t \in Tab, NEW d \in docs, StartView(t, d)
  PROVE  LET x == [kind |-> "view", in |-> t, key |-> session(t).key,
                   doc |-> d, token |-> stored, live |-> TRUE]
         IN  x \in Viewing /\ x # Null
<1>1. session(t) \in Context
  BY Providers DEF ShareInv, ShareTypeOK, TypeOK, session
<1>2. /\ session(t).key \in Member /\ stored \in Member \cup {Null}
      /\ d \in Document
  BY <1>1 DEF StartView, KeyReady, Context, ShareInv, ShareTypeOK, TypeOK
<1> DEFINE x == [kind |-> "view", in |-> t, key |-> session(t).key,
                 doc |-> d, token |-> stored, live |-> TRUE]
<1>3. x \in Viewing
  BY <1>2 DEF Viewing
<1> HIDE DEF x
<1>4. x # Null
  BY <1>3, ShareNullAssumption
<1> QED
  BY <1>3, <1>4 DEF x

LEMMA StartViewInv ==
  ASSUME ShareInv, NEW t \in Tab, NEW d \in docs, StartView(t, d)
  PROVE  ShareInv'
<1> USE SessionSame
<1> DEFINE x == [kind |-> "view", in |-> t, key |-> session(t).key,
                 doc |-> d, token |-> stored, live |-> TRUE]
           v == [NoView EXCEPT !.selected = d, !.decrypting = TRUE]
<1>1. /\ UNCHANGED <<sessionVars, docs, page>>
      /\ view' = [view EXCEPT ![t] = v]
      /\ \E j \in Job : job[j] = Null /\ job' = [job EXCEPT ![j] = x]
      /\ KeyReady(t)
  BY DEF StartView
<1>2. d \in Document
  BY DEF ShareInv, ShareTypeOK
<1>3. x \in Viewing /\ x.kind = "view" /\ x.in = t /\ x.live
  BY NewViewing
<1>4. /\ v \in View /\ v.result = Null /\ v.buffer = Null
      /\ v.filename = Null
  BY <1>2 DEF NoView, View
<1>5. page[t].shown
  BY <1>1 DEF KeyReady
<1> HIDE DEF x, v
<1>6. PICK j \in Job : job[j] = Null /\ job' = [job EXCEPT ![j] = x]
  BY <1>1
<1>7. /\ job'[j] = x /\ x # Null
      /\ \A i \in Job : i # j => job'[i] = job[i]
      /\ job' \in [Job -> Uploading \cup Viewing \cup {Null}]
  BY <1>3, <1>6, ShareNullAssumption DEF ShareInv, ShareTypeOK
<1>8. ShareTypeOK'
  BY <1>1, <1>4, <1>7 DEF ShareInv, ShareTypeOK
<1>9. PagesOK'
  BY <1>1, <1>5 DEF ShareInv, ShareTypeOK, PagesOK
<1>10. JobsOK'
  BY <1>1, <1>3, <1>5, <1>7 DEF ShareInv, JobsOK
<1>11. DownloadIsVerified'
  BY <1>1, <1>4, ShareNullAssumption
     DEF ShareInv, ShareTypeOK, DownloadIsVerified
<1>12. BusyHasHandler'
  <2> SUFFICES ASSUME NEW u \in Tab, NEW kind \in {"upload", "view"},
                      kind = "upload" => page'[u].uploading,
                      kind = "view" => view'[u].decrypting
               PROVE  \E i \in Job :
                         /\ job'[i] # Null /\ job'[i].kind = kind
                         /\ job'[i].in = u /\ job'[i].live
    BY DEF BusyHasHandler
  <2>1. CASE u = t /\ kind = "view"
    BY <2>1, <1>3, <1>7
  <2>2. CASE ~(u = t /\ kind = "view")
    <3>1. PICK i \in Job : /\ job[i] # Null /\ job[i].kind = kind
                           /\ job[i].in = u /\ job[i].live
      BY <1>1, <2>2 DEF ShareInv, ShareTypeOK, BusyHasHandler
    <3> QED
      BY <3>1, <1>6, <1>7
  <2> QED
    BY <2>1, <2>2
<1> QED
  BY <1>1, <1>8, <1>9, <1>10, <1>11, <1>12 DEF ShareInv, DocsOK

\* The end of a decryption, whatever its result.
LEMMA EndViewInv ==
  ASSUME ShareInv, NEW j \in Job, IsView(j),
         NEW result \in {"VALID", "INVALID", "ERROR"},
         NEW shown \in Document \cup {Null},
         result = "VALID" <=> shown # Null,
         EndView(j, result, shown, shown)
  PROVE  ShareInv'
<1> USE SessionSame DEF IsView
<1>1. /\ view' = IF job[j].live
                 THEN [view EXCEPT ![job[j].in] =
                         [decrypting |-> FALSE,
                          selected |-> view[job[j].in].selected,
                          buffer |-> shown, filename |-> shown,
                          result |-> result]]
                 ELSE view
      /\ job' = [job EXCEPT ![j] = Null]
      /\ UNCHANGED <<sessionVars, docs, page>>
  BY DEF EndView
<1>2. job[j].in \in Tab
  BY Jobs DEF ShareInv
<1>3. \A u \in Tab :
        \/ view'[u] = view[u]
        \/ /\ u = job[j].in /\ job[j].live
           /\ view'[u] \in View /\ ~view'[u].decrypting
           /\ view'[u].result = result
           /\ view'[u].buffer = shown /\ view'[u].filename = shown
  <2>1. CASE job[j].live
    <3> DEFINE v == [decrypting |-> FALSE,
                     selected |-> view[job[j].in].selected,
                     buffer |-> shown, filename |-> shown,
                     result |-> result]
    <3>1. /\ v \in View /\ ~v.decrypting /\ v.result = result
          /\ v.buffer = shown /\ v.filename = shown
      <4>1. view[job[j].in] \in View
        BY <1>2 DEF ShareInv, ShareTypeOK
      <4>2. view[job[j].in].selected \in Document \cup {Null}
        BY <4>1 DEF View
      <4> QED
        BY <4>2 DEF View
    <3>2. view' = [view EXCEPT ![job[j].in] = v]
      BY <1>1, <2>1
    <3> HIDE DEF v
    <3> QED
      BY <1>2, <2>1, <3>1, <3>2 DEF ShareInv, ShareTypeOK
  <2>2. CASE ~job[j].live
    BY <1>1, <2>2
  <2> QED
    BY <2>1, <2>2
<1>4. view' \in [Tab -> View]
  <2>1. \A u \in Tab : view'[u] \in View
    BY <1>3 DEF ShareInv, ShareTypeOK
  <2>2. view' = [u \in Tab |-> view'[u]]
    BY <1>1 DEF ShareInv, ShareTypeOK
  <2> QED
    BY <2>1, <2>2
<1>5. /\ job'[j] = Null
      /\ \A i \in Job : i # j => job'[i] = job[i]
      /\ job' \in [Job -> Uploading \cup Viewing \cup {Null}]
  BY <1>1 DEF ShareInv, ShareTypeOK
<1>6. ShareTypeOK'
  BY <1>1, <1>4, <1>5 DEF ShareInv, ShareTypeOK
<1>7. PagesOK'
  BY <1>1, <1>3 DEF ShareInv, PagesOK, JobsOK
<1>8. JobsOK'
  BY <1>1, <1>5 DEF ShareInv, JobsOK
<1>9. DownloadIsVerified'
  BY <1>3 DEF ShareInv, DownloadIsVerified
<1>10. BusyHasHandler'
  <2> SUFFICES ASSUME NEW u \in Tab, NEW kind \in {"upload", "view"},
                      kind = "upload" => page'[u].uploading,
                      kind = "view" => view'[u].decrypting
               PROVE  \E i \in Job :
                         /\ job'[i] # Null /\ job'[i].kind = kind
                         /\ job'[i].in = u /\ job'[i].live
    BY DEF BusyHasHandler
  <2>1. kind = "view" => view[u].decrypting /\ ~(u = job[j].in /\ job[j].live)
    BY <1>1, <1>2, <1>3 DEF ShareInv, ShareTypeOK
  <2>2. PICK i \in Job : /\ job[i] # Null /\ job[i].kind = kind
                         /\ job[i].in = u /\ job[i].live
    BY <1>1, <2>1 DEF ShareInv, BusyHasHandler
  <2>3. i # j
    BY <2>1, <2>2
  <2> QED
    BY <1>5, <2>2, <2>3
<1> QED
  BY <1>1, <1>6, <1>7, <1>8, <1>9, <1>10 DEF ShareInv, DocsOK

LEMMA ViewInv ==
  ASSUME ShareInv, NEW j \in Job, ViewValid(j) \/ ViewInvalid(j) \/ ViewFails(j)
  PROVE  ShareInv'
<1>1. CASE ViewValid(j)
  <2>1. IsView(j) /\ EndView(j, "VALID", job[j].doc, job[j].doc)
    BY <1>1 DEF ViewValid
  <2>2. job[j].doc \in Document /\ job[j].doc # Null
    BY <2>1, Jobs, ShareNullAssumption DEF IsView, ShareInv
  <2> QED
    BY <2>1, <2>2, EndViewInv
<1>2. CASE ViewInvalid(j)
  BY <1>2, EndViewInv DEF ViewInvalid
<1>3. CASE ViewFails(j)
  BY <1>3, EndViewInv DEF ViewFails
<1> QED
  BY <1>1, <1>2, <1>3

LEMMA ShareStep == ShareInv /\ [ShareNext]_allVars => ShareInv'
<1> SUFFICES ASSUME ShareInv, [ShareNext]_allVars PROVE ShareInv'
  OBVIOUS
<1>1. CASE UNCHANGED allVars
  <2>1. UNCHANGED <<sessionVars, docs, page, view, job>>
    BY <1>1 DEF allVars, shareVars
  <2>2. ShareTypeOK'
    BY <2>1, SessionSame DEF ShareInv, ShareTypeOK
  <2>3. PagesOK'
    BY <2>1, SessionSame DEF ShareInv, PagesOK
  <2> QED
    BY <2>1, <2>2, <2>3
       DEF ShareInv, DocsOK, JobsOK, DownloadIsVerified, BusyHasHandler
<1>2. ASSUME NEW j \in Job, Handler(j) PROVE ShareInv'
  BY <1>2, UploadInv, UploadFailsInv, ViewInv DEF Handler
<1>3. ASSUME NEW t \in Tab, NEW m \in Member,
             \/ LoginStep(t, m)
             \/ FetchReceived(t, m)
             \/ FetchReceivedFails(t, m)
      PROVE  ShareInv'
  BY <1>3, LoginStepInv, FetchReceivedInv, FetchReceivedFailsInv
<1> QED
  BY <1>1, <1>2, <1>3, SessionStepInv, EnterDashboardInv, LeaveDashboardInv,
     StartUploadInv, StartViewInv
     DEF ShareNext

LEMMA ShareInvariant == ShareSpec => []ShareInv
  BY ShareInitInv, ShareStep, PTL DEF ShareSpec

\* Type correctness of the documents and of the dashboards.
THEOREM ShareTypeCorrect == ShareSpec => []ShareTypeOK
<1>1. ShareInv => ShareTypeOK
  BY DEF ShareInv
<1> QED
  BY <1>1, ShareInvariant, PTL

\* In any number of tabs, and with any number of decryptions under way at
\* once, a document is offered for download only under the verdict VALID.
THEOREM DownloadCorrect == ShareSpec => []DownloadIsVerified
<1>1. ShareInv => DownloadIsVerified
  BY DEF ShareInv
<1> QED
  BY <1>1, ShareInvariant, PTL

\* Nothing shows "Processing" without a handler that will end it.
THEOREM BusyCorrect == ShareSpec => []BusyHasHandler
<1>1. ShareInv => BusyHasHandler
  BY DEF ShareInv
<1> QED
  BY <1>1, ShareInvariant, PTL

-----------------------------------------------------------------------------
(* One tab.                                                                *)

LEMMA ShareStepIsSessionStep ==
  [ShareNext]_allVars => [SessionNext]_sessionVars
<1>1. SessionStep => SessionNext
  BY SessionStepIsNext
<1>2. \A t \in Tab, m \in Member : LoginStep(t, m) => SessionNext
  BY DEF LoginStep, SessionNext, User
<1>3. \A t \in Tab : EnterDashboard(t) \/ LeaveDashboard(t)
                       => UNCHANGED sessionVars
  BY DEF EnterDashboard, LeaveDashboard
<1>4. \A t \in Tab, m \in Member :
        FetchReceived(t, m) \/ FetchReceivedFails(t, m) => UNCHANGED sessionVars
  BY DEF FetchReceived, FetchReceivedFails
<1>5. /\ \A t \in Tab, to \in Typed : StartUpload(t, to) => UNCHANGED sessionVars
      /\ \A t \in Tab, d \in docs : StartView(t, d) => UNCHANGED sessionVars
  BY DEF StartUpload, StartView
<1>6. \A j \in Job : Handler(j) => UNCHANGED sessionVars
  BY DEF Handler, Upload, UploadFails, EndUpload, ViewValid, ViewInvalid,
         ViewFails, EndView
<1>7. UNCHANGED allVars => UNCHANGED sessionVars
  BY DEF allVars
<1> QED
  BY <1>1, <1>2, <1>3, <1>4, <1>5, <1>6, <1>7 DEF ShareNext

\* The dashboard only uses the session: it implements Session.
THEOREM SharingImplementsSession == ShareSpec => SessionSpec
<1>1. ShareInit => Init
  BY DEF ShareInit
<1> QED
  BY <1>1, ShareStepIsSessionStep, PTL DEF ShareSpec, SessionSpec

\* As long as its Dashboard is mounted, and without a login, a tab keeps the
\* token of its session.
LEMMA TokenStays ==
  ASSUME ShareInv, SessionStep, NEW t \in Tab, page[t].shown, Keeps(t)
  PROVE  session(t)'.token = session(t).token
<1> USE Providers DEF Keeps, TypeOK, session
<1>0. TypeOK
  BY DEF ShareInv, ShareTypeOK
<1>1. tab[t] = "ready"
  BY DEF ShareInv, PagesOK
<1>2. ASSUME NEW u \in Tab, Open(u) \/ Load(u) \/ Close(u) \/ Logout(u)
      PROVE  ctx'[Inner(t)].token = ctx[Inner(t)].token
  <2>1. CASE Open(u)
    BY <1>0, <1>1, <2>1 DEF Open
  <2>2. CASE Load(u)
    <3>1. u # t
      BY <1>1, <2>2 DEF Load
    <3> QED
      BY <1>0, <2>2, <3>1 DEF Load
  <2>3. CASE Close(u)
    <3>1. u # t
      BY <1>0, <2>3 DEF Close
    <3> QED
      BY <1>0, <2>3, <3>1 DEF Close
  <2>4. CASE Logout(u)
    BY <1>0, <2>4 DEF Logout, LoggedOut
  <2> QED
    BY <1>2, <2>1, <2>2, <2>3, <2>4
<1>3. ASSUME NEW c \in Call, Answer(c)
      PROVE  ctx'[Inner(t)].token = ctx[Inner(t)].token
  <2>1. CASE KeyArrives(c)
    <3>1. PICK key \in Member \cup {Null, Empty} :
            ctx' = [ctx EXCEPT ![call[c].by] =
                      Settled(ctx[call[c].by], key, ctx[call[c].by].error)]
      BY <1>0, <2>1, Caller DEF KeyArrives
    <3>2. Settled(ctx[call[c].by], key, ctx[call[c].by].error).token
            = ctx[call[c].by].token
      <4>1. /\ ctx[call[c].by] \in Context
            /\ ctx[call[c].by].error \in BOOLEAN
        BY <1>0, <2>1, Caller DEF KeyArrives
      <4> HIDE DEF TypeOK
      <4> QED
        BY <4>1, SettledEnds
    <3> QED
      BY <1>0, <3>1, <3>2
  <2>2. CASE FetchDenied(c)
    BY <1>0, <2>2, Caller DEF FetchDenied, LoggedOut
  <2>3. CASE FetchFails(c)
    <3>1. Settled(ctx[call[c].by], Null, TRUE).token = ctx[call[c].by].token
      <4>1. ctx[call[c].by] \in Context
        BY <1>0, <2>3, Caller DEF FetchFails
      <4> HIDE DEF TypeOK
      <4> QED
        BY <4>1, SettledEnds, ZenonT(60)
    <3> QED
      BY <1>0, <2>3, <3>1 DEF FetchFails
  <2> QED
    BY <1>3, <2>1, <2>2, <2>3 DEF Answer
<1> QED
  BY <1>2, <1>3 DEF SessionStep

\* A decryption that can still show its result asked for the document with
\* the token of the session, or with none.
TokensOK ==
    \A j \in Job :
        job[j] # Null /\ job[j].kind = "view" /\ job[j].live =>
            job[j].token \in {session(job[j].in).token, Null}

\* A step that adds no handler, shows nothing, and changes the token of no
\* tab that has a live decryption or shows a document.
LEMMA AuthenticKept ==
  ASSUME ShareInv, TokensOK, ShownIsAuthentic,
         \A j \in Job : job'[j] # Null /\ job'[j].live /\ job'[j].kind = "view"
            => /\ job[j] # Null /\ job[j].live /\ job[j].kind = "view"
               /\ job'[j].in = job[j].in /\ job'[j].token = job[j].token
               /\ session(job[j].in)'.token = session(job[j].in).token,
         \A t \in Tab : view'[t].buffer # Null
            => /\ view'[t].buffer = view[t].buffer
               /\ session(t)'.token = session(t).token
  PROVE  TokensOK' /\ ShownIsAuthentic'
<1>1. TokensOK'
  BY Jobs DEF TokensOK
<1>2. ShownIsAuthentic'
  BY DEF ShownIsAuthentic
<1> QED
  BY <1>1, <1>2

LEMMA AuthenticSessionStep ==
  ASSUME ShareInv, TokensOK, ShownIsAuthentic, SessionStep
  PROVE  TokensOK' /\ ShownIsAuthentic'
<1>1. ASSUME NEW j \in Job, job'[j] # Null, job'[j].live, job'[j].kind = "view"
      PROVE  /\ job[j] # Null /\ job[j].live /\ job[j].kind = "view"
             /\ job'[j].in = job[j].in /\ job'[j].token = job[j].token
             /\ session(job[j].in)'.token = session(job[j].in).token
  <2>1. /\ job[j] # Null /\ job[j].live /\ job[j].kind = "view"
        /\ job'[j].in = job[j].in /\ job'[j].token = job[j].token
        /\ Keeps(job[j].in) /\ job[j].in \in Tab
    BY <1>1, SessionStepJobs, Jobs DEF ShareInv
  <2>2. page[job[j].in].shown
    BY <2>1 DEF ShareInv, JobsOK
  <2> QED
    BY <2>1, <2>2, TokenStays
<1>2. ASSUME NEW t \in Tab, view'[t].buffer # Null
      PROVE  /\ view'[t].buffer = view[t].buffer
             /\ session(t)'.token = session(t).token
  <2>1. Keeps(t) /\ view'[t] = view[t]
    BY <1>2, SessionStepPages, Pages
  <2>2. page[t].shown
    BY <1>2, <2>1, Pages DEF ShareInv, PagesOK
  <2> QED
    BY <2>1, <2>2, TokenStays
<1> QED
  BY <1>1, <1>2, AuthenticKept

LEMMA AuthenticLoginStep ==
  ASSUME ShareInv, TokensOK, ShownIsAuthentic,
         NEW t \in Tab, NEW m \in Member, LoginStep(t, m)
  PROVE  TokensOK' /\ ShownIsAuthentic'
<1>1. \A u \in Tab : u # t => session(u)' = session(u)
  BY Providers
     DEF LoginStep, Login, session, ShareInv, ShareTypeOK, TypeOK
<1>2. ASSUME NEW j \in Job, job'[j] # Null, job'[j].live, job'[j].kind = "view"
      PROVE  /\ job[j] # Null /\ job[j].live /\ job[j].kind = "view"
             /\ job'[j].in = job[j].in /\ job'[j].token = job[j].token
             /\ job[j].in \in Tab /\ job[j].in # t
  <2>1. CASE page[t].shown
    BY <1>2, <2>1, Orphans, Jobs DEF LoginStep, ShareInv
  <2>2. CASE ~page[t].shown
    BY <1>2, <2>2, Jobs DEF LoginStep, ShareInv, JobsOK
  <2> QED
    BY <2>1, <2>2
<1>3. ASSUME NEW u \in Tab, view'[u].buffer # Null
      PROVE  u # t /\ view'[u] = view[u]
  <2>1. CASE page[t].shown
    BY <1>3, <2>1, Pages DEF LoginStep, ShareInv, ShareTypeOK
  <2>2. CASE ~page[t].shown
    BY <1>3, <2>2, Pages DEF LoginStep, ShareInv, PagesOK
  <2> QED
    BY <2>1, <2>2
<1> QED
  BY <1>1, <1>2, <1>3, AuthenticKept

\* Steps that leave the sessions alone and start no decryption.
LEMMA AuthenticPageStep ==
  ASSUME ShareInv, TokensOK, ShownIsAuthentic, NEW t \in Tab,
         \/ EnterDashboard(t) \/ LeaveDashboard(t)
         \/ \E m \in Member : FetchReceived(t, m) \/ FetchReceivedFails(t, m)
         \/ \E to \in Typed : StartUpload(t, to)
  PROVE  TokensOK' /\ ShownIsAuthentic'
<1>1. ASSUME UNCHANGED <<sessionVars, view, job>>
      PROVE  TokensOK' /\ ShownIsAuthentic'
  BY <1>1, SessionSame, Jobs, AuthenticKept DEF ShareInv
<1>2. ASSUME NEW kinds, "view" \in kinds, UNCHANGED sessionVars,
             view' = [view EXCEPT ![t] = NoView], job' = Orphaned(t, kinds)
      PROVE  TokensOK' /\ ShownIsAuthentic'
  <2>1. \A j \in Job : job'[j] # Null /\ job'[j].live /\ job'[j].kind = "view"
          => /\ job[j] # Null /\ job[j].live /\ job[j].kind = "view"
             /\ job'[j].in = job[j].in /\ job'[j].token = job[j].token
             /\ job[j].in \in Tab
    BY <1>2, Orphans, Jobs DEF ShareInv
  <2>2. \A u \in Tab : view'[u].buffer # Null => view'[u] = view[u]
    BY <1>2, Pages DEF ShareInv, ShareTypeOK
  <2> QED
    BY <1>2, <2>1, <2>2, SessionSame, AuthenticKept
<1>3. ASSUME NEW to \in Typed, StartUpload(t, to)
      PROVE  TokensOK' /\ ShownIsAuthentic'
  <2>1. PICK j \in Job :
          /\ job' = [job EXCEPT ![j] =
                       [kind |-> "upload", in |-> t, key |-> session(t).key,
                        by |-> session(t).user, to |-> to, live |-> TRUE]]
    BY <1>3 DEF StartUpload
  <2>2. job'[j].kind # "view" /\ \A i \in Job : i # j => job'[i] = job[i]
    BY <2>1 DEF ShareInv, ShareTypeOK
  <2>3. UNCHANGED <<sessionVars, view>>
    BY <1>3 DEF StartUpload
  <2> QED
    BY <2>2, <2>3, SessionSame, Jobs, AuthenticKept DEF ShareInv
<1>4. CASE LeaveDashboard(t)
  BY <1>2, <1>4 DEF LeaveDashboard
<1>5. ASSUME NEW m \in Member, FetchReceivedFails(t, m)
      PROVE  TokensOK' /\ ShownIsAuthentic'
  BY <1>2, <1>5 DEF FetchReceivedFails
<1> QED
  BY <1>1, <1>3, <1>4, <1>5 DEF EnterDashboard, FetchReceived

LEMMA AuthenticStartView ==
  ASSUME ShareInv, StoredIsSession, TokensOK, ShownIsAuthentic,
         NEW t \in Tab, NEW d \in docs, StartView(t, d)
  PROVE  TokensOK' /\ ShownIsAuthentic'
<1>1. PICK j \in Job :
        job' = [job EXCEPT ![j] =
                  [kind |-> "view", in |-> t, key |-> session(t).key,
                   doc |-> d, token |-> stored, live |-> TRUE]]
  BY DEF StartView
<1>2. /\ job'[j].in = t /\ job'[j].token = stored
      /\ \A i \in Job : i # j => job'[i] = job[i]
  BY <1>1 DEF ShareInv, ShareTypeOK
<1>3. UNCHANGED sessionVars /\ \A u \in Tab : session(u)' = session(u)
  BY SessionSame DEF StartView
<1>4. tab[t] = "ready"
  BY DEF StartView, KeyReady, ShareInv, PagesOK
<1>5. stored \in {session(t).token, Null}
  BY <1>4 DEF StoredIsSession, session
<1>6. TokensOK'
  BY <1>2, <1>3, <1>5, Jobs DEF TokensOK, ShareInv
<1>7. \A u \in Tab : view'[u].buffer # Null => view'[u] = view[u]
  <2>1. [NoView EXCEPT !.selected = d, !.decrypting = TRUE].buffer = Null
    BY DEF NoView
  <2> QED
    BY <2>1 DEF StartView, ShareInv, ShareTypeOK
<1>8. ShownIsAuthentic'
  BY <1>3, <1>7 DEF ShownIsAuthentic
<1> QED
  BY <1>6, <1>8

LEMMA AuthenticHandler ==
  ASSUME ShareInv, TokensOK, ShownIsAuthentic, NEW j \in Job, Handler(j)
  PROVE  TokensOK' /\ ShownIsAuthentic'
<1>1. /\ UNCHANGED sessionVars
      /\ job[j] # Null
      /\ job' = [job EXCEPT ![j] = Null]
  BY DEF Handler, Upload, UploadFails, EndUpload, ViewValid, ViewInvalid,
         ViewFails, EndView, IsView
<1>2. \A u \in Tab : session(u)' = session(u)
  BY <1>1, SessionSame
<1>3. job'[j] = Null /\ \A i \in Job : i # j => job'[i] = job[i]
  BY <1>1 DEF ShareInv, ShareTypeOK
<1>4. TokensOK'
  BY <1>2, <1>3, Jobs DEF TokensOK, ShareInv
<1>5. job[j].in \in Tab
  BY <1>1, Jobs DEF ShareInv
<1>6. ASSUME NEW u \in Tab, view'[u].buffer # Null
      PROVE  /\ view'[u].buffer.recipientId = session(u)'.token
             /\ view'[u].buffer.signedBy = view'[u].buffer.senderId
  <2>1. CASE view'[u] = view[u]
    BY <1>2, <1>6, <2>1 DEF ShownIsAuthentic
  <2>2. CASE view'[u] # view[u]
    <3>1. ViewValid(j) \/ ViewInvalid(j) \/ ViewFails(j)
      BY <2>2 DEF Handler, Upload, UploadFails, EndUpload
    <3>2. u = job[j].in /\ job[j].live
      BY <2>2, <3>1
         DEF ViewValid, ViewInvalid, ViewFails, EndView, ShareInv, ShareTypeOK
    <3>3. CASE ViewValid(j)
      <4>1. view'[u].buffer = job[j].doc
        BY <1>5, <3>2, <3>3 DEF ViewValid, EndView, ShareInv, ShareTypeOK
      <4>2. /\ job[j].doc \in Document /\ job[j].kind = "view"
            /\ job[j].token = job[j].doc.recipientId
            /\ job[j].doc.signedBy = job[j].doc.senderId
        BY <1>1, <3>3, Jobs DEF ViewValid, IsView, Serves, Verifies, ShareInv
      <4>3. job[j].token # Null
        BY <4>2, ShareNullAssumption DEF Document
      <4>4. job[j].token = session(u).token
        BY <1>1, <3>2, <4>2, <4>3 DEF TokensOK
      <4> QED
        BY <1>2, <4>1, <4>2, <4>4
    <3>4. CASE ViewInvalid(j) \/ ViewFails(j)
      <4>1. view'[u].buffer = Null
        BY <1>5, <3>2, <3>4
           DEF ViewInvalid, ViewFails, EndView, ShareInv, ShareTypeOK
      <4> QED
        BY <1>6, <4>1
    <3> QED
      BY <3>1, <3>3, <3>4
  <2> QED
    BY <2>1, <2>2
<1>7. ShownIsAuthentic'
  BY <1>6 DEF ShownIsAuthentic
<1> QED
  BY <1>4, <1>7

LEMMA AuthenticStep ==
  ShareInv /\ StoredIsSession /\ TokensOK /\ ShownIsAuthentic
    /\ [ShareNext]_allVars => TokensOK' /\ ShownIsAuthentic'
<1> SUFFICES ASSUME ShareInv, StoredIsSession, TokensOK, ShownIsAuthentic,
                    [ShareNext]_allVars
             PROVE  TokensOK' /\ ShownIsAuthentic'
  OBVIOUS
<1>1. CASE UNCHANGED allVars
  BY <1>1, SessionSame, Jobs, AuthenticKept DEF allVars, shareVars, ShareInv
<1> QED
  BY <1>1, AuthenticSessionStep, AuthenticLoginStep, AuthenticPageStep,
     AuthenticStartView, AuthenticHandler
     DEF ShareNext

\* In a browser with one tab, however late lists, keys, logins and downloads
\* are answered, a document is shown only to the member it is addressed to,
\* and only if the listed sender's key signed it.
THEOREM ShownCorrect ==
  ASSUME \A t, u \in Tab : t = u
  PROVE  ShareSpec => []ShownIsAuthentic
<1>1. ShareInit => TokensOK /\ ShownIsAuthentic
  BY Pages DEF ShareInit, TokensOK, ShownIsAuthentic
<1>2. ShareSpec => []StoredIsSession
  BY SharingImplementsSession, OneTabStored, PTL
<1> QED
  BY <1>1, <1>2, ShareInvariant, AuthenticStep, PTL DEF ShareSpec

-----------------------------------------------------------------------------
(* Sharing implements Mailbox.                                             *)

\* Ids are counted upwards, and a decryption is one of a stored document.
StoreOK ==
    /\ \A d \in docs : d.id < Cardinality(docs)
    /\ \A j \in Job : IsView(j) => job[j].doc \in docs

\* A step that stores nothing and starts decryptions of stored documents only.
LEMMA StoreKept ==
  ASSUME StoreOK, docs' = docs,
         \A j \in Job : IsView(j)' =>
            \/ IsView(j) /\ job'[j].doc = job[j].doc
            \/ job'[j].doc \in docs
  PROVE  StoreOK'
  BY DEF StoreOK

\* A document that is uploaded has an id of its own.
LEMMA NewDocument ==
  ASSUME ShareInv, StoreOK, NEW j \in Job, Upload(j)
  PROVE  /\ \E d \in Document : /\ docs' = docs \cup {d}
                                /\ \A e \in docs : e.id # d.id
         /\ \A e \in docs' : e.id < Cardinality(docs')
<1> DEFINE n == Cardinality(docs)
           d == [id |-> n, senderId |-> stored, recipientId |-> job[j].to,
                 signedBy |-> job[j].key]
<1>1. n \in Nat
  BY FS_CardinalityType DEF ShareInv, DocsOK
<1>2. /\ stored \in Member /\ job[j].to \in Typed /\ job[j].key \in Member
      /\ n < MaxDocs
  BY Jobs DEF Upload, ShareInv, ShareTypeOK, TypeOK
<1>3. d \in Document
  BY <1>1, <1>2, MaxDocsNat DEF Document
<1>4. docs' = docs \cup {d} /\ d.id = n
  BY DEF Upload
<1>5. \A e \in docs : e.id \in Nat /\ e.id < n
  BY DEF StoreOK, ShareInv, ShareTypeOK, Document
<1> HIDE DEF n, d
<1>6. \A e \in docs : e.id # d.id
  BY <1>1, <1>4, <1>5
<1>7. Cardinality(docs') = n + 1
  BY <1>4, <1>6, FS_AddElement DEF n, ShareInv, DocsOK
<1>8. \A e \in docs' : e.id < Cardinality(docs')
  BY <1>1, <1>4, <1>5, <1>7
<1> QED
  BY <1>3, <1>4, <1>6, <1>8

LEMMA StoreStep ==
  ShareInv /\ StoreOK /\ [ShareNext]_allVars => StoreOK'
<1> SUFFICES ASSUME ShareInv, StoreOK, [ShareNext]_allVars PROVE StoreOK'
  OBVIOUS
<1>1. ASSUME UNCHANGED <<docs, job>> PROVE StoreOK'
  BY <1>1 DEF StoreOK, IsView
<1>2. ASSUME NEW t \in Tab, NEW kinds, docs' = docs, job' = Orphaned(t, kinds)
      PROVE  StoreOK'
  BY <1>2, Orphans, StoreKept DEF ShareInv, IsView
<1>3. CASE SessionStep
  BY <1>3, SessionStepJobs, StoreKept DEF SessionStep, IsView
<1>4. ASSUME NEW t \in Tab, NEW m \in Member,
             \/ LoginStep(t, m)
             \/ FetchReceived(t, m)
             \/ FetchReceivedFails(t, m)
      PROVE  StoreOK'
  BY <1>1, <1>2, <1>4 DEF LoginStep, FetchReceived, FetchReceivedFails
<1>5. ASSUME NEW t \in Tab, EnterDashboard(t) \/ LeaveDashboard(t)
      PROVE  StoreOK'
  BY <1>1, <1>2, <1>5 DEF EnterDashboard, LeaveDashboard
<1>6. ASSUME NEW t \in Tab, NEW to \in Typed, StartUpload(t, to)
      PROVE  StoreOK'
  <2>1. PICK j \in Job :
          job' = [job EXCEPT ![j] =
                    [kind |-> "upload", in |-> t, key |-> session(t).key,
                     by |-> session(t).user, to |-> to, live |-> TRUE]]
    BY <1>6 DEF StartUpload
  <2>2. ~IsView(j)' /\ \A i \in Job : i # j => job'[i] = job[i]
    BY <2>1 DEF ShareInv, ShareTypeOK, IsView
  <2>3. docs' = docs
    BY <1>6 DEF StartUpload
  <2> QED
    BY <2>2, <2>3, StoreKept DEF IsView
<1>7. ASSUME NEW t \in Tab, NEW d \in docs, StartView(t, d)
      PROVE  StoreOK'
  <2>1. PICK j \in Job :
          job' = [job EXCEPT ![j] =
                    [kind |-> "view", in |-> t, key |-> session(t).key,
                     doc |-> d, token |-> stored, live |-> TRUE]]
    BY <1>7 DEF StartView
  <2>2. job'[j].doc = d /\ \A i \in Job : i # j => job'[i] = job[i]
    BY <2>1 DEF ShareInv, ShareTypeOK
  <2>3. docs' = docs
    BY <1>7 DEF StartView
  <2> QED
    BY <2>2, <2>3, StoreKept DEF IsView
<1>8. ASSUME NEW j \in Job, Handler(j) PROVE StoreOK'
  <2>1. job' = [job EXCEPT ![j] = Null]
    BY <1>8 DEF Handler, Upload, UploadFails, EndUpload, ViewValid,
                ViewInvalid, ViewFails, EndView
  <2>2. job'[j] = Null /\ \A i \in Job : i # j => job'[i] = job[i]
    BY <2>1 DEF ShareInv, ShareTypeOK
  <2>3. CASE Upload(j)
    BY <2>2, <2>3, NewDocument DEF StoreOK, IsView
  <2>4. CASE docs' = docs
    BY <2>2, <2>4, StoreKept DEF IsView
  <2> QED
    BY <1>8, <2>3, <2>4 DEF Handler, UploadFails, ViewValid, ViewInvalid,
                            ViewFails, EndView
<1>9. CASE UNCHANGED allVars
  BY <1>1, <1>9 DEF allVars, shareVars
<1> QED
  BY <1>3, <1>4, <1>5, <1>6, <1>7, <1>8, <1>9, <1>1 DEF ShareNext

MailReader == [t \in Tab |-> session(t).token]
MailShown  == [t \in Tab |-> view[t].buffer]

\* How the steps of Mailbox look from here.
LEMMA MailIdle ==
  ASSUME docs' = docs,
         \A t \in Tab : /\ session(t)'.token = session(t).token
                        /\ view'[t].buffer = view[t].buffer
  PROVE  UNCHANGED Mail!mailVars
<1>1. MailReader' = MailReader /\ MailShown' = MailShown
  BY DEF MailReader, MailShown
<1> QED
  BY <1>1 DEF Mail!mailVars, MailReader, MailShown

LEMMA MailTurn ==
  ASSUME ShareTypeOK', docs' = docs, NEW t \in Tab, view'[t].buffer = Null,
         \A u \in Tab : u # t => /\ session(u)'.token = session(u).token
                                 /\ view'[u].buffer = view[u].buffer
  PROVE  Mail!Turn(t)
<1> DEFINE m == session(t)'.token
<1>1. m \in Member \cup {Null}
  BY Providers DEF ShareTypeOK, TypeOK, session, Context
<1>2. /\ MailReader' = [MailReader EXCEPT ![t] = m]
      /\ MailShown' = [MailShown EXCEPT ![t] = Null]
  BY DEF MailReader, MailShown
<1> HIDE DEF m
<1> QED
  BY <1>1, <1>2 DEF Mail!Turn, MailReader, MailShown

LEMMA MailPost ==
  ASSUME NEW d \in Document, docs' = docs \cup {d},
         \A e \in docs : e.id # d.id,
         \A t \in Tab : /\ session(t)'.token = session(t).token
                        /\ view'[t].buffer = view[t].buffer
  PROVE  Mail!Post(d)
<1>1. MailReader' = MailReader /\ MailShown' = MailShown
  BY DEF MailReader, MailShown
<1> QED
  BY <1>1 DEF Mail!Post, MailReader, MailShown

LEMMA MailShow ==
  ASSUME docs' = docs, NEW t \in Tab, NEW d \in docs,
         d.recipientId = session(t).token, d.signedBy = d.senderId,
         view'[t].buffer = d,
         \A u \in Tab : /\ session(u)'.token = session(u).token
                        /\ u # t => view'[u].buffer = view[u].buffer
  PROVE  Mail!Show(t, d)
<1>1. /\ MailReader' = MailReader
      /\ MailShown' = [MailShown EXCEPT ![t] = d]
      /\ d.recipientId = MailReader[t]
  BY DEF MailReader, MailShown
<1> QED
  BY <1>1 DEF Mail!Show, MailReader, MailShown

\* A step of the session leaves what a tab shows and its token alone, or
\* leaves nothing shown.
LEMMA MailSessionStep ==
  ASSUME \A t, u \in Tab : t = u, ShareInv, ShareInv', SessionStep
  PROVE  [Mail!MailNext]_(Mail!mailVars)
<1>1. docs' = docs
  BY DEF SessionStep
<1>2. CASE \A t \in Tab : /\ session(t)'.token = session(t).token
                          /\ view'[t].buffer = view[t].buffer
  BY <1>1, <1>2, MailIdle
<1>3. CASE \E t \in Tab : ~ /\ session(t)'.token = session(t).token
                            /\ view'[t].buffer = view[t].buffer
  <2>1. PICK t \in Tab : ~ /\ session(t)'.token = session(t).token
                           /\ view'[t].buffer = view[t].buffer
    BY <1>3
  <2>2. CASE ~Keeps(t) \/ ~page[t].shown
    <3>1. view'[t] = NoView
      BY <2>2, SessionStepPages DEF ShareInv, PagesOK
    <3>2. Mail!Turn(t)
      BY <1>1, <3>1, Pages, MailTurn DEF ShareInv
    <3> QED
      BY <3>2 DEF Mail!MailNext
  <2>3. CASE Keeps(t) /\ page[t].shown
    BY <2>1, <2>3, TokenStays, SessionStepPages
  <2> QED
    BY <2>2, <2>3
<1> QED
  BY <1>2, <1>3

LEMMA MailLoginStep ==
  ASSUME ShareInv, ShareInv', NEW t \in Tab, NEW m \in Member, LoginStep(t, m)
  PROVE  Mail!Turn(t)
<1>1. \A u \in Tab : u # t => session(u)' = session(u)
  BY Providers
     DEF LoginStep, Login, session, ShareInv, ShareTypeOK, TypeOK
<1>2. docs' = docs
  BY DEF LoginStep
<1>3. view'[t].buffer = Null /\ \A u \in Tab : u # t => view'[u] = view[u]
  <2>1. CASE page[t].shown
    BY <2>1, Pages DEF LoginStep, ShareInv, ShareTypeOK
  <2>2. CASE ~page[t].shown
    BY <2>2, Pages DEF LoginStep, ShareInv, PagesOK
  <2> QED
    BY <2>1, <2>2
<1> QED
  BY <1>1, <1>2, <1>3, MailTurn DEF ShareInv

\* The steps of the pages and of uploads.
LEMMA MailPageStep ==
  ASSUME ShareInv, ShareInv', NEW t \in Tab,
         \/ EnterDashboard(t) \/ LeaveDashboard(t)
         \/ \E m \in Member : FetchReceived(t, m) \/ FetchReceivedFails(t, m)
         \/ \E to \in Typed : StartUpload(t, to)
         \/ \E d \in docs : StartView(t, d)
  PROVE  [Mail!MailNext]_(Mail!mailVars)
<1>1. ASSUME UNCHANGED <<sessionVars, docs, view>>
      PROVE  UNCHANGED Mail!mailVars
  BY <1>1, SessionSame, MailIdle
<1>2. ASSUME NEW v \in View, v.buffer = Null, UNCHANGED <<sessionVars, docs>>,
             view' = [view EXCEPT ![t] = v]
      PROVE  Mail!MailNext
  <2>1. Mail!Turn(t)
    BY <1>2, SessionSame, MailTurn DEF ShareInv, ShareTypeOK
  <2> QED
    BY <2>1 DEF Mail!MailNext
<1>3. ASSUME NEW d \in docs, StartView(t, d)
      PROVE  Mail!MailNext
  <2> DEFINE v == [NoView EXCEPT !.selected = d, !.decrypting = TRUE]
  <2>1. v \in View /\ v.buffer = Null
    BY DEF NoView, View, ShareInv, ShareTypeOK
  <2>2. UNCHANGED <<sessionVars, docs>> /\ view' = [view EXCEPT ![t] = v]
    BY <1>3 DEF StartView
  <2> HIDE DEF v
  <2> QED
    BY <1>2, <2>1, <2>2
<1>4. CASE LeaveDashboard(t) \/ \E m \in Member : FetchReceivedFails(t, m)
  BY <1>2, <1>4, Pages DEF LeaveDashboard, FetchReceivedFails
<1> QED
  BY <1>1, <1>3, <1>4 DEF EnterDashboard, FetchReceived, StartUpload

LEMMA MailHandler ==
  ASSUME ShareInv, ShareInv', TokensOK, StoreOK, NEW j \in Job, Handler(j)
  PROVE  [Mail!MailNext]_(Mail!mailVars)
<1>1. UNCHANGED sessionVars /\ job[j] # Null
  BY DEF Handler, Upload, UploadFails, EndUpload, ViewValid, ViewInvalid,
         ViewFails, EndView, IsView
<1>2. \A u \in Tab : session(u)' = session(u)
  BY <1>1, SessionSame
<1>3. PICK t \in Tab : t = job[j].in
  BY <1>1, Jobs DEF ShareInv
<1>4. CASE Upload(j)
  <2>1. view' = view
    BY <1>4 DEF Upload, EndUpload
  <2>2. PICK d \in Document : /\ docs' = docs \cup {d}
                              /\ \A e \in docs : e.id # d.id
    BY <1>4, NewDocument
  <2>3. Mail!Post(d)
    BY <1>2, <2>1, <2>2, MailPost
  <2> QED
    BY <2>3 DEF Mail!MailNext
<1>5. CASE docs' = docs /\ view' = view
  BY <1>2, <1>5, MailIdle
<1>6. CASE job[j].live /\ ViewValid(j)
  <2>1. PICK d \in docs : d = job[j].doc
    BY <1>6 DEF ViewValid, StoreOK
  <2>2. /\ docs' = docs /\ view'[t].buffer = d
        /\ \A u \in Tab : u # t => view'[u].buffer = view[u].buffer
    BY <1>3, <1>6, <2>1 DEF ViewValid, EndView, ShareInv, ShareTypeOK
  <2>3. /\ d \in Document /\ job[j].kind = "view"
        /\ job[j].token = d.recipientId /\ d.signedBy = d.senderId
    BY <1>6, <2>1 DEF ViewValid, IsView, Serves, Verifies, ShareInv, ShareTypeOK
  <2>4. job[j].token # Null
    BY <2>3, ShareNullAssumption DEF Document
  <2>5. d.recipientId = session(t).token
    BY <1>1, <1>3, <1>6, <2>3, <2>4 DEF TokensOK
  <2>6. Mail!Show(t, d)
    BY <1>2, <2>2, <2>3, <2>5, MailShow
  <2> QED
    BY <2>6 DEF Mail!MailNext
<1>7. CASE job[j].live /\ (ViewInvalid(j) \/ ViewFails(j))
  <2>1. /\ docs' = docs /\ view'[t].buffer = Null
        /\ \A u \in Tab : u # t => view'[u].buffer = view[u].buffer
    BY <1>3, <1>7 DEF ViewInvalid, ViewFails, EndView, ShareInv, ShareTypeOK
  <2>2. Mail!Turn(t)
    BY <1>2, <2>1, MailTurn DEF ShareInv
  <2> QED
    BY <2>2 DEF Mail!MailNext
<1>8. CASE ~job[j].live /\ (ViewValid(j) \/ ViewInvalid(j) \/ ViewFails(j))
  BY <1>5, <1>8 DEF ViewValid, ViewInvalid, ViewFails, EndView
<1> QED
  BY <1>4, <1>5, <1>6, <1>7, <1>8 DEF Handler, UploadFails, EndUpload

LEMMA MailStep ==
  ASSUME \A t, u \in Tab : t = u
  PROVE  ShareInv /\ ShareInv' /\ TokensOK /\ StoreOK /\ [ShareNext]_allVars
           => [Mail!MailNext]_(Mail!mailVars)
<1> SUFFICES ASSUME ShareInv, ShareInv', TokensOK, StoreOK,
                    [ShareNext]_allVars
             PROVE  [Mail!MailNext]_(Mail!mailVars)
  OBVIOUS
<1>1. CASE UNCHANGED allVars
  BY <1>1, SessionSame, MailIdle DEF allVars, shareVars
<1>2. ASSUME NEW t \in Tab, NEW m \in Member, LoginStep(t, m)
      PROVE  Mail!MailNext
  BY <1>2, MailLoginStep DEF Mail!MailNext
<1> QED
  BY <1>1, <1>2, MailSessionStep, MailPageStep, MailHandler DEF ShareNext

\* In a browser with one tab, the sessions, pages, lists, handlers and routes
\* together implement Mailbox: initial states map to initial states, and
\* every step to a step of Mailbox or to none.
THEOREM MailboxKept ==
  ASSUME \A t, u \in Tab : t = u
  PROVE  ShareSpec => ImplementsMailbox
<1>1. ShareInit => Mail!MailInit /\ TokensOK /\ ShownIsAuthentic /\ StoreOK
  <2> SUFFICES ASSUME ShareInit
               PROVE  Mail!MailInit /\ TokensOK /\ ShownIsAuthentic /\ StoreOK
    OBVIOUS
  <2>1. \A t \in Tab : session(t).token = Null /\ view[t].buffer = Null
    BY Providers, Pages DEF ShareInit, Init, LoggedOut, session
  <2>2. /\ MailReader = [t \in Tab |-> Null]
        /\ MailShown = [t \in Tab |-> Null]
    BY <2>1 DEF MailReader, MailShown
  <2> QED
    BY <2>1, <2>2
       DEF ShareInit, Mail!MailInit, MailReader, MailShown, TokensOK,
           ShownIsAuthentic, StoreOK, IsView
<1>2. ShareSpec => []StoredIsSession
  BY SharingImplementsSession, OneTabStored, PTL
<1> QED
  BY <1>1, <1>2, ShareInvariant, AuthenticStep, StoreStep, MailStep, PTL
     DEF ShareSpec, ImplementsMailbox, Mail!MailSpec

-----------------------------------------------------------------------------
(* Any number of tabs.                                                     *)

\* Whatever the session, what is shown is a stored document that the key of
\* the listed sender signed.
ShownIsSigned ==
    \A t \in Tab : view[t].buffer # Null =>
        /\ view[t].buffer \in docs
        /\ view[t].buffer.signedBy = view[t].buffer.senderId

LEMMA OnlyUploadStores ==
  [ShareNext]_allVars => docs' = docs \/ \E j \in Job : Upload(j)
  BY DEF ShareNext, SessionStep, EnterDashboard, LeaveDashboard, LoginStep,
         FetchReceived, FetchReceivedFails, StartUpload, StartView, Handler,
         UploadFails, ViewValid, ViewInvalid, ViewFails, EndView, allVars,
         shareVars

LEMMA DocumentsStay == [ShareNext]_allVars => docs \subseteq docs'
  BY OnlyUploadStores DEF Upload

\* Only a decryption with the verdict VALID shows a document.
LEMMA OnlyValidShows ==
  ASSUME ShareInv, [ShareNext]_allVars, NEW t \in Tab, view'[t].buffer # Null
  PROVE  \/ view'[t].buffer = view[t].buffer
         \/ \E j \in Job : ViewValid(j) /\ view'[t].buffer = job[j].doc
<1>1. ASSUME NEW u \in Tab, view' = [view EXCEPT ![u] = NoView]
      PROVE  view'[t].buffer = view[t].buffer
  BY <1>1, Pages DEF ShareInv, ShareTypeOK
<1>2. CASE SessionStep
  BY <1>2, SessionStepPages, Pages
<1>3. ASSUME NEW u \in Tab, NEW m \in Member,
             \/ LoginStep(u, m)
             \/ FetchReceived(u, m)
             \/ FetchReceivedFails(u, m)
      PROVE  view'[t].buffer = view[t].buffer
  BY <1>1, <1>3 DEF LoginStep, FetchReceived, FetchReceivedFails
<1>4. ASSUME NEW u \in Tab,
             \/ EnterDashboard(u) \/ LeaveDashboard(u)
             \/ \E to \in Typed : StartUpload(u, to)
      PROVE  view'[t].buffer = view[t].buffer
  BY <1>1, <1>4 DEF EnterDashboard, LeaveDashboard, StartUpload
<1>5. ASSUME NEW u \in Tab, NEW d \in docs, StartView(u, d)
      PROVE  view'[t].buffer = view[t].buffer
  <2>1. [NoView EXCEPT !.selected = d, !.decrypting = TRUE].buffer = Null
    BY DEF NoView
  <2> QED
    BY <1>5, <2>1 DEF StartView, ShareInv, ShareTypeOK
<1>6. ASSUME NEW j \in Job, Handler(j)
      PROVE  \/ view'[t].buffer = view[t].buffer
             \/ ViewValid(j) /\ view'[t].buffer = job[j].doc
  BY <1>6 DEF Handler, Upload, UploadFails, EndUpload, ViewValid, ViewInvalid,
              ViewFails, EndView, ShareInv, ShareTypeOK
<1>7. CASE UNCHANGED allVars
  BY <1>7 DEF allVars, shareVars
<1> QED
  BY <1>2, <1>3, <1>4, <1>5, <1>6, <1>7 DEF ShareNext

\* With any number of tabs, sessions and decryptions, a tab shows no document
\* that was not stored, and none whose listed sender did not sign it.
THEOREM ShownSigned == ShareSpec => []ShownIsSigned
<1>1. ShareInit => StoreOK /\ ShownIsSigned
  BY Pages DEF ShareInit, StoreOK, IsView, ShownIsSigned
<1>2. ShareInv /\ StoreOK /\ ShownIsSigned /\ [ShareNext]_allVars
        => ShownIsSigned'
  BY DocumentsStay, OnlyValidShows
     DEF ShownIsSigned, StoreOK, ViewValid, Verifies
<1> QED
  BY <1>1, <1>2, ShareInvariant, StoreStep, PTL DEF ShareSpec

-----------------------------------------------------------------------------
(* Decryptions one at a time.                                              *)

LiveView(j) == IsView(j) /\ job[j].live

\* No user presses a second button while a tab decrypts.
OneViewing ==
    \A i, j \in Job :
        LiveView(i) /\ LiveView(j) /\ job[i].in = job[j].in => i = j

\* A decryption that can still show its result is that of the selection.
ViewsSelected ==
    \A j \in Job : LiveView(j) => job[j].doc = view[job[j].in].selected

\* A step that starts no decryption, shows nothing, and changes the selection
\* of no tab that has a live decryption or shows a document.
LEMMA SelectedKept ==
  ASSUME ViewsSelected, ShownIsSelected,
         \A j \in Job : LiveView(j)' =>
            /\ LiveView(j)
            /\ job'[j].in = job[j].in /\ job'[j].doc = job[j].doc
            /\ view'[job[j].in].selected = view[job[j].in].selected,
         \A t \in Tab : view'[t].buffer # Null => view'[t] = view[t]
  PROVE  ViewsSelected' /\ ShownIsSelected'
<1>1. ViewsSelected'
  BY DEF ViewsSelected
<1>2. ShownIsSelected'
  BY DEF ShownIsSelected
<1> QED
  BY <1>1, <1>2

LEMMA SelectedSessionStep ==
  ASSUME ShareInv, ViewsSelected, ShownIsSelected, SessionStep
  PROVE  ViewsSelected' /\ ShownIsSelected'
<1>1. ASSUME NEW j \in Job, LiveView(j)'
      PROVE  /\ LiveView(j)
             /\ job'[j].in = job[j].in /\ job'[j].doc = job[j].doc
             /\ view'[job[j].in].selected = view[job[j].in].selected
  <2>1. job'[j] # Null /\ job'[j].kind = "view" /\ job'[j].live
    BY <1>1 DEF LiveView, IsView
  <2>2. /\ job[j] # Null /\ job[j].kind = "view" /\ job[j].live
        /\ job'[j].in = job[j].in /\ job'[j].doc = job[j].doc
        /\ Keeps(job[j].in) /\ job[j].in \in Tab
    BY <2>1, SessionStepJobs, Jobs DEF ShareInv
  <2> QED
    BY <2>2, SessionStepPages DEF LiveView, IsView
<1>2. \A t \in Tab : view'[t].buffer # Null => view'[t] = view[t]
  BY SessionStepPages, Pages
<1> QED
  BY <1>1, <1>2, SelectedKept

\* Unmounting a FileList takes its decryptions with it.
LEMMA SelectedUnmount ==
  ASSUME ShareInv, ViewsSelected, ShownIsSelected,
         NEW t \in Tab, NEW kinds, "view" \in kinds,
         view' = [view EXCEPT ![t] = NoView], job' = Orphaned(t, kinds)
  PROVE  ViewsSelected' /\ ShownIsSelected'
<1>1. ASSUME NEW j \in Job, LiveView(j)'
      PROVE  /\ LiveView(j)
             /\ job'[j].in = job[j].in /\ job'[j].doc = job[j].doc
             /\ view'[job[j].in].selected = view[job[j].in].selected
  <2>1. job'[j] # Null /\ job'[j].kind = "view" /\ job'[j].live
    BY <1>1 DEF LiveView, IsView
  <2>2. /\ job[j] # Null /\ job[j].kind = "view" /\ job[j].live
        /\ job'[j].in = job[j].in /\ job'[j].doc = job[j].doc
        /\ job[j].in # t /\ job[j].in \in Tab
    BY <2>1, Orphans, Jobs DEF ShareInv
  <2> QED
    BY <2>2 DEF LiveView, IsView, ShareInv, ShareTypeOK
<1>2. \A u \in Tab : view'[u].buffer # Null => view'[u] = view[u]
  BY Pages DEF ShareInv, ShareTypeOK
<1> QED
  BY <1>1, <1>2, SelectedKept

LEMMA SelectedStartView ==
  ASSUME ShareInv, ViewsSelected, ShownIsSelected, OneViewing',
         NEW t \in Tab, NEW d \in docs, StartView(t, d)
  PROVE  ViewsSelected' /\ ShownIsSelected'
<1>1. PICK j \in Job :
        job' = [job EXCEPT ![j] =
                  [kind |-> "view", in |-> t, key |-> session(t).key,
                   doc |-> d, token |-> stored, live |-> TRUE]]
  BY DEF StartView
<1>2. /\ job'[j].kind = "view" /\ job'[j].in = t /\ job'[j].doc = d
      /\ job'[j].live
      /\ \A i \in Job : i # j => job'[i] = job[i]
  BY <1>1 DEF ShareInv, ShareTypeOK
<1>3. job'[j] # Null
  BY <1>1, NewViewing DEF ShareInv, ShareTypeOK
<1>4. /\ view'[t].selected = d /\ view'[t].buffer = Null
      /\ \A u \in Tab : u # t => view'[u] = view[u]
  <2>1. /\ [NoView EXCEPT !.selected = d, !.decrypting = TRUE].buffer = Null
        /\ [NoView EXCEPT !.selected = d, !.decrypting = TRUE].selected = d
    BY DEF NoView
  <2> QED
    BY <2>1 DEF StartView, ShareInv, ShareTypeOK
<1>5. ViewsSelected'
  <2> SUFFICES ASSUME NEW i \in Job, LiveView(i)'
               PROVE  job'[i].doc = view'[job'[i].in].selected
    BY DEF ViewsSelected
  <2>1. CASE i = j
    BY <1>2, <1>4, <2>1
  <2>2. CASE i # j
    <3>1. job'[i].in # t
      BY <1>2, <1>3, <2>2 DEF OneViewing, LiveView, IsView
    <3>2. LiveView(i) /\ job'[i] = job[i]
      BY <1>2, <2>2 DEF LiveView, IsView
    <3>3. job[i].in \in Tab
      BY <3>2, Jobs DEF ShareInv, LiveView, IsView
    <3> QED
      BY <1>4, <3>1, <3>2, <3>3 DEF ViewsSelected
  <2> QED
    BY <2>1, <2>2
<1>6. ShownIsSelected'
  BY <1>4 DEF ShownIsSelected
<1> QED
  BY <1>5, <1>6

LEMMA SelectedHandler ==
  ASSUME ShareInv, ViewsSelected, ShownIsSelected, NEW j \in Job, Handler(j)
  PROVE  ViewsSelected' /\ ShownIsSelected'
<1>1. job[j] # Null /\ job' = [job EXCEPT ![j] = Null]
  BY DEF Handler, Upload, UploadFails, EndUpload, ViewValid, ViewInvalid,
         ViewFails, EndView, IsView
<1>2. job'[j] = Null /\ \A i \in Job : i # j => job'[i] = job[i]
  BY <1>1 DEF ShareInv, ShareTypeOK
<1>3. job[j].in \in Tab
  BY <1>1, Jobs DEF ShareInv
\* A handler selects nothing, and shows the document it decrypted or none.
<1>4. ASSUME NEW u \in Tab
      PROVE  /\ view'[u].selected = view[u].selected
             /\ view'[u].buffer # Null =>
                  \/ view'[u].buffer = view[u].buffer
                  \/ LiveView(j) /\ u = job[j].in /\ view'[u].buffer = job[j].doc
  <2>1. CASE Upload(j) \/ UploadFails(j)
    BY <2>1 DEF Upload, UploadFails, EndUpload
  <2>2. CASE ViewValid(j) \/ ViewInvalid(j) \/ ViewFails(j)
    BY <1>3, <2>2
       DEF ViewValid, ViewInvalid, ViewFails, EndView, LiveView, ShareInv,
           ShareTypeOK
  <2> QED
    BY <2>1, <2>2 DEF Handler
<1>5. ViewsSelected'
  BY <1>2, <1>4, Jobs DEF ViewsSelected, LiveView, IsView, ShareInv
<1>6. ShownIsSelected'
  BY <1>4 DEF ShownIsSelected, ViewsSelected
<1> QED
  BY <1>5, <1>6

LEMMA SelectedStep ==
  ShareInv /\ ViewsSelected /\ ShownIsSelected /\ OneViewing'
    /\ [ShareNext]_allVars => ViewsSelected' /\ ShownIsSelected'
<1> SUFFICES ASSUME ShareInv, ViewsSelected, ShownIsSelected, OneViewing',
                    [ShareNext]_allVars
             PROVE  ViewsSelected' /\ ShownIsSelected'
  OBVIOUS
<1>1. ASSUME UNCHANGED <<view, job>>
      PROVE  ViewsSelected' /\ ShownIsSelected'
  BY <1>1 DEF ViewsSelected, ShownIsSelected, LiveView, IsView
<1>2. ASSUME NEW t \in Tab, NEW m \in Member,
             \/ LoginStep(t, m)
             \/ FetchReceived(t, m)
             \/ FetchReceivedFails(t, m)
      PROVE  ViewsSelected' /\ ShownIsSelected'
  BY <1>1, <1>2, SelectedUnmount
     DEF LoginStep, FetchReceived, FetchReceivedFails
<1>3. ASSUME NEW t \in Tab, EnterDashboard(t) \/ LeaveDashboard(t)
      PROVE  ViewsSelected' /\ ShownIsSelected'
  BY <1>1, <1>3, SelectedUnmount DEF EnterDashboard, LeaveDashboard
<1>4. ASSUME NEW t \in Tab, NEW to \in Typed, StartUpload(t, to)
      PROVE  ViewsSelected' /\ ShownIsSelected'
  <2>1. PICK j \in Job :
          /\ job' = [job EXCEPT ![j] =
                       [kind |-> "upload", in |-> t, key |-> session(t).key,
                        by |-> session(t).user, to |-> to, live |-> TRUE]]
    BY <1>4 DEF StartUpload
  <2>2. ~LiveView(j)' /\ \A i \in Job : i # j => job'[i] = job[i]
    BY <2>1 DEF ShareInv, ShareTypeOK, LiveView, IsView
  <2>3. view' = view
    BY <1>4 DEF StartUpload
  <2> QED
    BY <2>2, <2>3, SelectedKept DEF LiveView, IsView
<1>5. CASE UNCHANGED allVars
  BY <1>1, <1>5 DEF allVars, shareVars
<1> QED
  BY <1>2, <1>3, <1>4, <1>5, SelectedSessionStep, SelectedStartView,
     SelectedHandler
     DEF ShareNext

\* What is shown is the document selected last, as the comment of
\* FileList.jsx:104 means it, in every execution in which no tab runs two
\* decryptions at once: the buttons of the other documents, which stay enabled
\* while one is decrypted, are the only way to see it otherwise.
THEOREM ShownSelected == ShareSpec /\ []OneViewing => []ShownIsSelected
<1>1. ShareInit => ViewsSelected /\ ShownIsSelected
  BY Pages DEF ShareInit, ViewsSelected, ShownIsSelected, LiveView, IsView
<1> QED
  BY <1>1, ShareInvariant, SelectedStep, PTL DEF ShareSpec

-----------------------------------------------------------------------------
(* The sender of a document.                                               *)

\* Handlers run in tabs whose pages have loaded.
JobsOfReadyTabs == \A j \in Job : job[j] # Null => tab[job[j].in] = "ready"

LEMMA ReadyStep ==
  ASSUME ShareInv, JobsOfReadyTabs, [ShareNext]_allVars
  PROVE  JobsOfReadyTabs'
<1>1. ASSUME tab' = tab,
             \A j \in Job : job'[j] # Null => job[j] # Null /\ job'[j].in = job[j].in
      PROVE  JobsOfReadyTabs'
  BY <1>1 DEF JobsOfReadyTabs
<1>2. ASSUME NEW t \in Tab, NEW kinds, UNCHANGED sessionVars,
             job' = Orphaned(t, kinds)
      PROVE  JobsOfReadyTabs'
  BY <1>1, <1>2, Orphans DEF sessionVars, ShareInv
<1>3. CASE SessionStep
  <2>1. ASSUME NEW j \in Job, job'[j] # Null
        PROVE  tab'[job'[j].in] = "ready"
    <3>1. /\ job[j] # Null /\ job'[j].in = job[j].in /\ job[j].in \in Tab
          /\ tab[job[j].in] = "ready" /\ tab'[job[j].in] # "closed"
      BY <1>3, <2>1, SessionStepJobs, Jobs
         DEF SessionStep, ShareInv, JobsOfReadyTabs
    <3>2. \A t \in Tab : tab[t] = "ready" => tab'[t] \in {"ready", "closed"}
      BY <1>3 DEF SessionStep, Open, Load, Close, Logout, Answer, KeyArrives,
                  FetchDenied, FetchFails, Done, ShareInv, ShareTypeOK, TypeOK
    <3> QED
      BY <3>1, <3>2
  <2> QED
    BY <2>1 DEF JobsOfReadyTabs
<1>4. ASSUME NEW t \in Tab, NEW m \in Member, LoginStep(t, m)
      PROVE  JobsOfReadyTabs'
  <2>1. tab' = tab
    BY <1>4 DEF LoginStep, Login
  <2>2. CASE page[t].shown
    BY <1>1, <1>4, <2>1, <2>2, Orphans DEF LoginStep, ShareInv
  <2>3. CASE ~page[t].shown
    BY <1>1, <1>4, <2>1, <2>3 DEF LoginStep
  <2> QED
    BY <2>2, <2>3
<1>5. ASSUME NEW t \in Tab, NEW m \in Member,
             FetchReceived(t, m) \/ FetchReceivedFails(t, m)
      PROVE  JobsOfReadyTabs'
  BY <1>1, <1>2, <1>5 DEF FetchReceived, FetchReceivedFails, sessionVars
<1>6. ASSUME NEW t \in Tab, EnterDashboard(t) \/ LeaveDashboard(t)
      PROVE  JobsOfReadyTabs'
  BY <1>1, <1>2, <1>6 DEF EnterDashboard, LeaveDashboard, sessionVars
<1>7. ASSUME NEW t \in Tab, NEW j \in Job, NEW x, KeyReady(t), x.in = t,
             job' = [job EXCEPT ![j] = x], UNCHANGED sessionVars
      PROVE  JobsOfReadyTabs'
  <2>1. job'[j] = x /\ \A i \in Job : i # j => job'[i] = job[i]
    BY <1>7 DEF ShareInv, ShareTypeOK
  <2>2. tab[t] = "ready" /\ tab' = tab
    BY <1>7 DEF KeyReady, ShareInv, PagesOK, sessionVars
  <2> QED
    BY <1>7, <2>1, <2>2 DEF JobsOfReadyTabs
<1>8. ASSUME NEW t \in Tab, \/ \E to \in Typed : StartUpload(t, to)
                            \/ \E d \in docs : StartView(t, d)
      PROVE  JobsOfReadyTabs'
  BY <1>7, <1>8 DEF StartUpload, StartView
<1>9. ASSUME NEW j \in Job, Handler(j) PROVE JobsOfReadyTabs'
  <2>1. job' = [job EXCEPT ![j] = Null] /\ tab' = tab
    BY <1>9 DEF Handler, Upload, UploadFails, EndUpload, ViewValid,
                ViewInvalid, ViewFails, EndView, sessionVars
  <2> QED
    BY <1>1, <2>1 DEF ShareInv, ShareTypeOK
<1>10. CASE UNCHANGED allVars
  BY <1>1, <1>10 DEF allVars, shareVars, sessionVars
<1> QED
  BY <1>3, <1>4, <1>5, <1>6, <1>8, <1>9, <1>10 DEF ShareNext

\* While a file is uploaded, nobody else logs in.
OneUploader ==
    \A j \in Job :
        job[j] # Null /\ job[j].kind = "upload"
            => session(job[j].in).user \in {job[j].by, Null}

SenderStep ==
    \A d \in docs' \ docs :
        \E j \in Job :
            /\ job[j] # Null /\ job'[j] = Null /\ job[j].kind = "upload"
            /\ d.senderId = job[j].by

\* An upload is posted with the token of the user who started it.
LEMMA UploaderStored ==
  ASSUME ShareInv, JobsOfReadyTabs, StoredIsSession, UserShown, OneUploader,
         NEW j \in Job, Upload(j)
  PROVE  job[j].by = stored
<1>1. job[j] # Null /\ job[j].kind = "upload" /\ stored # Null
  BY DEF Upload
<1>2. job[j].in \in Tab /\ tab[job[j].in] = "ready"
  BY <1>1, Jobs DEF ShareInv, JobsOfReadyTabs
<1>3. stored = session(job[j].in).token
  BY <1>1, <1>2 DEF StoredIsSession, session
<1>4. session(job[j].in).user = stored
  BY <1>1, <1>2, <1>3 DEF UserShown, session
<1> QED
  BY <1>1, <1>4 DEF OneUploader

LEMMA SenderIsBy ==
  ASSUME ShareInv, JobsOfReadyTabs, StoredIsSession, UserShown, OneUploader,
         [ShareNext]_allVars
  PROVE  SenderStep
<1>1. CASE docs' = docs
  BY <1>1 DEF SenderStep
<1>2. ASSUME NEW j \in Job, Upload(j) PROVE SenderStep
  <2>1. job[j] # Null /\ job[j].kind = "upload" /\ job[j].by = stored
    BY <1>2, UploaderStored DEF Upload
  <2>2. job'[j] = Null
    BY <1>2 DEF Upload, EndUpload, ShareInv, ShareTypeOK
  <2>3. \A d \in docs' \ docs : d.senderId = stored
    BY <1>2 DEF Upload
  <2> QED
    BY <2>1, <2>2, <2>3 DEF SenderStep
<1> QED
  BY <1>1, <1>2, OnlyUploadStores

\* In a browser with one tab, a document is stored as sent by the user who
\* uploaded it (Document.js:15) in every execution in which nobody else logs in
\* during an upload: a change of the session is the only way around it.
THEOREM SenderUploaded ==
  ASSUME \A t, u \in Tab : t = u
  PROVE  ShareSpec /\ []OneUploader => SenderIsUploader
<1>1. ShareInit => JobsOfReadyTabs
  BY DEF ShareInit, JobsOfReadyTabs
<1>2. ShareSpec => []StoredIsSession /\ []UserShown
  BY SharingImplementsSession, OneTabStored, OneTabUser, PTL
<1>3. ShareInv /\ JobsOfReadyTabs /\ [ShareNext]_allVars => JobsOfReadyTabs'
  BY ReadyStep
<1>4. ShareInv /\ JobsOfReadyTabs /\ StoredIsSession /\ UserShown
        /\ OneUploader /\ [ShareNext]_allVars => SenderStep
  BY SenderIsBy
<1>5. SenderStep <=> \A d \in docs' \ docs :
                        \E j \in Job :
                           job[j] # Null /\ job'[j] = Null /\ job[j].kind = "upload"
                                         /\ d.senderId = job[j].by
  BY DEF SenderStep
<1> QED
  BY <1>1, <1>2, <1>3, <1>4, <1>5, ShareInvariant, PTL
     DEF ShareSpec, SenderIsUploader

\* A file is signed with the key of the user who pressed the button.
KeysOfUploaders ==
    \A j \in Job : job[j] # Null /\ job[j].kind = "upload"
                     => job[j].key = job[j].by

\* The signature of a stored document is that of its sender.
DocumentsSigned == \A d \in docs : d.signedBy = d.senderId

LEMMA UploadersStep ==
  ASSUME ShareInv, KeyMatchesUser, UserShown, KeysOfUploaders,
         [ShareNext]_allVars
  PROVE  KeysOfUploaders'
<1>1. ASSUME \A j \in Job : job'[j] # Null /\ job'[j].kind = "upload" =>
                /\ job[j] # Null /\ job[j].kind = "upload"
                /\ job'[j].key = job[j].key /\ job'[j].by = job[j].by
      PROVE  KeysOfUploaders'
  BY <1>1 DEF KeysOfUploaders
<1>2. ASSUME NEW t \in Tab, NEW kinds, job' = Orphaned(t, kinds)
      PROVE  KeysOfUploaders'
  BY <1>1, <1>2, Orphans DEF ShareInv
<1>3. CASE SessionStep
  BY <1>1, <1>3, SessionStepJobs
<1>4. ASSUME job' = job PROVE KeysOfUploaders'
  BY <1>1, <1>4
<1>5. ASSUME NEW t \in Tab, NEW m \in Member,
             \/ LoginStep(t, m)
             \/ FetchReceived(t, m)
             \/ FetchReceivedFails(t, m)
      PROVE  KeysOfUploaders'
  BY <1>2, <1>4, <1>5 DEF LoginStep, FetchReceived, FetchReceivedFails
<1>6. ASSUME NEW t \in Tab, EnterDashboard(t) \/ LeaveDashboard(t)
      PROVE  KeysOfUploaders'
  BY <1>2, <1>4, <1>6 DEF EnterDashboard, LeaveDashboard
<1>7. ASSUME NEW t \in Tab, NEW to \in Typed, StartUpload(t, to)
      PROVE  KeysOfUploaders'
  <2>1. PICK j \in Job :
          job' = [job EXCEPT ![j] =
                    [kind |-> "upload", in |-> t, key |-> session(t).key,
                     by |-> session(t).user, to |-> to, live |-> TRUE]]
    BY <1>7 DEF StartUpload
  <2>2. /\ job'[j].key = session(t).key /\ job'[j].by = session(t).user
        /\ \A i \in Job : i # j => job'[i] = job[i]
    BY <2>1 DEF ShareInv, ShareTypeOK
  <2>3. /\ session(t).key \in Member /\ tab[t] = "ready"
        /\ session(t).token # Null
    BY <1>7 DEF StartUpload, KeyReady, ShareInv, PagesOK
  <2>4. session(t).key = session(t).user
    BY <2>3 DEF UserShown, KeyMatchesUser, session
  <2> QED
    BY <2>2, <2>4 DEF KeysOfUploaders
<1>8. ASSUME NEW t \in Tab, NEW d \in docs, StartView(t, d)
      PROVE  KeysOfUploaders'
  <2>1. PICK j \in Job :
          job' = [job EXCEPT ![j] =
                    [kind |-> "view", in |-> t, key |-> session(t).key,
                     doc |-> d, token |-> stored, live |-> TRUE]]
    BY <1>8 DEF StartView
  <2>2. job'[j].kind # "upload" /\ \A i \in Job : i # j => job'[i] = job[i]
    BY <2>1 DEF ShareInv, ShareTypeOK
  <2> QED
    BY <1>1, <2>2
<1>9. ASSUME NEW j \in Job, Handler(j) PROVE KeysOfUploaders'
  <2>1. job' = [job EXCEPT ![j] = Null]
    BY <1>9 DEF Handler, Upload, UploadFails, EndUpload, ViewValid,
                ViewInvalid, ViewFails, EndView
  <2> QED
    BY <1>1, <2>1 DEF ShareInv, ShareTypeOK
<1>10. CASE UNCHANGED allVars
  BY <1>4, <1>10 DEF allVars, shareVars
<1> QED
  BY <1>3, <1>5, <1>6, <1>7, <1>8, <1>9, <1>10 DEF ShareNext

LEMMA SignedStep ==
  ASSUME ShareInv, JobsOfReadyTabs, StoredIsSession, UserShown, OneUploader,
         KeysOfUploaders, DocumentsSigned, [ShareNext]_allVars
  PROVE  DocumentsSigned'
<1>1. CASE docs' = docs
  BY <1>1 DEF DocumentsSigned
<1>2. ASSUME NEW j \in Job, Upload(j) PROVE DocumentsSigned'
  <2>1. job[j].key = job[j].by
    BY <1>2 DEF Upload, KeysOfUploaders
  <2>2. job[j].by = stored
    BY <1>2, UploaderStored
  <2> QED
    BY <1>2, <2>1, <2>2 DEF Upload, DocumentsSigned
<1> QED
  BY <1>1, <1>2, OnlyUploadStores

\* In a browser with one tab, every stored document bears the signature of its
\* sender, if nobody else logs in during an upload and no provider awaits the
\* keys of two users: only these make a document that its recipient is told
\* is not its sender's.
THEOREM StoredSigned ==
  ASSUME \A t, u \in Tab : t = u
  PROVE  ShareSpec /\ []OneUploader /\ []CallsAgree => []DocumentsSigned
<1>1. ShareInit => JobsOfReadyTabs /\ KeysOfUploaders /\ DocumentsSigned
  BY DEF ShareInit, JobsOfReadyTabs, KeysOfUploaders, DocumentsSigned
<1>2. ShareSpec => []StoredIsSession /\ []UserShown
  BY SharingImplementsSession, OneTabStored, OneTabUser, PTL
<1>3. ShareSpec /\ []CallsAgree => []KeyMatchesUser
  BY SharingImplementsSession, KeyOfUser, PTL
<1> QED
  BY <1>1, <1>2, <1>3, ReadyStep, UploadersStep, SignedStep, ShareInvariant,
     PTL DEF ShareSpec
=============================================================================
