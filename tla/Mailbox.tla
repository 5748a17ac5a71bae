------------------------------- MODULE Mailbox -------------------------------
(***************************************************************************)
(* What the platform promises a browser with one tab, without pages, keys, *)
(* calls or handlers: documents are posted once and stay; what a tab shows *)
(* was posted to the member whose session it is and signed by the sender   *)
(* that is listed; and it is gone when the session is another one.         *)
(***************************************************************************)

CONSTANTS
    Tab, Member, Document,
    Null    \* no session, nothing shown

VARIABLES
    posted,     \* the documents
    reader,     \* the member whose session each tab is, or Null
    shown       \* the document each tab shows, or Null

mailVars == <<posted, reader, shown>>

MailInit ==
    /\ posted = {}
    /\ reader = [t \in Tab |-> Null]
    /\ shown = [t \in Tab |-> Null]

\* An id names one document for ever.
Post(d) ==
    /\ \A e \in posted : e.id # d.id
    /\ posted' = posted \cup {d}
    /\ UNCHANGED <<reader, shown>>

\* A session begins or ends, or its page shows something else.
Turn(t) ==
    /\ \E m \in Member \cup {Null} : reader' = [reader EXCEPT ![t] = m]
    /\ shown' = [shown EXCEPT ![t] = Null]
    /\ UNCHANGED posted

Show(t, d) ==
    /\ d.recipientId = reader[t]
    /\ d.signedBy = d.senderId
    /\ shown' = [shown EXCEPT ![t] = d]
    /\ UNCHANGED <<posted, reader>>

MailNext ==
    \/ \E t \in Tab : Turn(t) \/ \E d \in posted : Show(t, d)
    \/ \E d \in Document : Post(d)

MailSpec == MailInit /\ [][MailNext]_mailVars
=============================================================================
