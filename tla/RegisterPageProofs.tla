------------------------- MODULE RegisterPageProofs -------------------------
(***************************************************************************)
(* What holds of RegisterPage for every value of its constants.  A page is *)
(* one of the clients that Registration allows, so what is proved of       *)
(* Registration can be used here.                                          *)
(***************************************************************************)
EXTENDS RegisterPage, RegistrationProofs

\* Pages do nothing to registration but send it requests.
THEOREM PageImplementsRegistration == PageSpec => Spec
<1>1. PageInit => Init
  BY DEF PageInit
<1>2. [PageNext]_siteVars => [Next]_vars
  <2>1. PageNext => [Next]_vars
    BY DEF PageNext, handleSubmitDetails, handleSubmitOtp, handleGoBack, Deliver,
           Lose, Navigate, Serve, Elsewhere, Next
  <2> QED
    BY <2>1 DEF siteVars
<1> QED
  BY <1>1, <1>2, PTL DEF PageSpec, Spec

-----------------------------------------------------------------------------
(* What a handler holds, and what a step of it does to its slot.           *)

USE DEF dbVars, handlerVars, keyVars, clockVars, InitiateAwait, VerifyAwait,
        KeyAwait, FinishAwait, DocAwait

\* A handler's document is about the address of its request, and its slot shows
\* no answer while it runs.
HandlerInv ==
    \A r \in Request :
        /\ pc[r] # "idle" => req[r] \in Body /\ reply[r] = Null
        /\ pc[r] \in DocAwait => doc[r].email = Lower[req[r].email]

\* Null is no answer.
LEMMA NullIsNoStatus == Null \notin Status
  BY NullAssumption DEF Status

Others(r) ==
    \A s \in Request \ {r} :
        /\ pc'[s] = pc[s] /\ req'[s] = req[s]
        /\ reply'[s] = reply[s] /\ doc'[s] = doc[s]

\* The handler goes on to another await, or it answers.
GoesOn(r) ==
    /\ req'[r] = req[r] /\ reply'[r] = reply[r]
    /\ \/ pc[r] \in InitiateAwait /\ pc'[r] \in InitiateAwait
       \/ pc[r] \in VerifyAwait /\ pc'[r] \in VerifyAwait
    /\ pc'[r] \in DocAwait => doc'[r].email = Lower[req[r].email]

Ends(r) ==
    /\ pc[r] # "idle" /\ pc'[r] = "idle"
    /\ reply'[r] \in Status
    /\ reply'[r] = 201 => pc[r] = "deletePending"
    /\ reply'[r] = 200 => pc[r] = "sendEmail"

LEMMA GotoEffect ==
  ASSUME TypeOK, NEW r \in Request, NEW await, Goto(r, await)
  PROVE  /\ pc'[r] = await /\ \A s \in Request \ {r} : pc'[s] = pc[s]
         /\ req' = req /\ reply' = reply
  BY DEF TypeOK, Goto

LEMMA AnswerEffect ==
  ASSUME TypeOK, NEW r \in Request, NEW status, Answer(r, status)
  PROVE  Others(r) /\ pc'[r] = "idle" /\ reply'[r] = status
  BY DEF TypeOK, Answer, Others

LEMMA HandlerStep ==
  ASSUME TypeInv, HandlerInv, NEW r \in Request, Handler(r)
  PROVE  Others(r) /\ (GoesOn(r) \/ Ends(r))
<1> TypeOK
  BY DEF TypeInv
<1>1. ASSUME Answer(r, 400) \/ Answer(r, 500), pc[r] # "idle"
      PROVE  Others(r) /\ Ends(r)
  BY <1>1, AnswerEffect DEF Ends, Status
<1>2. ASSUME NEW x \in InitiateAwait, pc[r] \in InitiateAwait, Goto(r, x),
             UNCHANGED doc, x \notin DocAwait \/ pc[r] \in DocAwait
      PROVE  Others(r) /\ GoesOn(r)
  BY <1>2, GotoEffect DEF Others, GoesOn, HandlerInv
<1>3. ASSUME NEW x \in VerifyAwait, pc[r] \in VerifyAwait \ {"findPending"}, Goto(r, x),
             UNCHANGED doc
      PROVE  Others(r) /\ GoesOn(r)
  BY <1>3, GotoEffect DEF Others, GoesOn, HandlerInv
<1>4. CASE FindUser(r)
  BY <1>1, <1>2, <1>4 DEF FindUser
<1>5. CASE DeletePrevious(r)
  BY <1>1, <1>2, <1>5 DEF DeletePrevious
<1>6. CASE Prepare(r)
  <2>1. doc'[r].email = Lower[req[r].email] /\ \A s \in Request \ {r} : doc'[s] = doc[s]
    BY <1>6 DEF Prepare, email, TypeOK
  <2>2. Goto(r, "save") /\ pc[r] = "hash"
    BY <1>6 DEF Prepare
  <2> QED
    BY <2>1, <2>2, GotoEffect DEF Others, GoesOn
<1>7. CASE SavePending(r)
  BY <1>1, <1>2, <1>7 DEF SavePending
<1>8. CASE SendEmail(r)
  BY <1>8, AnswerEffect DEF SendEmail, Ends, Status
<1>9. CASE FindPending(r)
  <2>1. CASE Answer(r, 400)
    BY <1>1, <1>9, <2>1 DEF FindPending
  <2>2. CASE ~Answer(r, 400)
    <3>1. doc'[r].email = Lower[req[r].email] /\ \A s \in Request \ {r} : doc'[s] = doc[s]
      BY <1>9, <2>2 DEF FindPending, email, TypeOK
    <3>2. Goto(r, "check") /\ pc[r] = "findPending"
      BY <1>9, <2>2 DEF FindPending
    <3> QED
      BY <3>1, <3>2, GotoEffect DEF Others, GoesOn
  <2> QED
    BY <2>1, <2>2
<1>10. CASE CheckPending(r) \/ DeleteExpired(r)
  BY <1>1, <1>3, <1>10 DEF CheckPending, DeleteExpired
<1>11. CASE SaveUser(r) \/ DeleteDuplicate(r)
  BY <1>1, <1>3, <1>11 DEF SaveUser, DeleteDuplicate
<1>12. CASE DeletePending(r)
  BY <1>12, AnswerEffect DEF DeletePending, Ends, Status
<1>13. CASE CallRejected(r)
  BY <1>1, <1>13 DEF CallRejected, MayReject
<1>14. CASE SpawnKeygen(r) \/ KeygenDone(r)
  BY <1>3, <1>14 DEF SpawnKeygen, KeygenDone, Exited
<1>15. CASE Unlink(r) \/ Access(r) \/ Install(r)
  BY <1>1, <1>3, <1>15 DEF Unlink, Access, Install
<1> QED
  BY <1>4, <1>5, <1>6, <1>7, <1>8, <1>9, <1>10, <1>11, <1>12, <1>13, <1>14, <1>15 DEF Handler

\* A request that arrives takes the slot.
LEMMA StartStep ==
  ASSUME TypeInv, NEW r \in Request, StartInitiate(r) \/ StartVerify(r)
  PROVE  /\ Others(r)
         /\ pc[r] = "idle" /\ reply'[r] = Null /\ req'[r] \in Body
         /\ StartInitiate(r) => pc'[r] = "findUser" /\ Lower[req'[r].email] \in Member
         /\ StartVerify(r) => pc'[r] = "findPending"
         /\ UNCHANGED <<users, pending, doc>>
<1>1. \A body, x : Accept(r, body, x) =>
        /\ Others(r) /\ pc[r] = "idle" /\ reply'[r] = Null
        /\ req'[r] = body /\ pc'[r] = x /\ UNCHANGED <<users, pending, doc>>
  BY DEF TypeInv, TypeOK, Others, Accept
<1>2. CASE StartInitiate(r)
  <2>1. PICK a \in Address, pw \in Password :
            /\ Lower[a] \in Member
            /\ Accept(r, [email |-> a, password |-> pw, otp |-> Null], "findUser")
    BY <1>2 DEF StartInitiate
  <2>2. /\ Others(r) /\ pc[r] = "idle" /\ reply'[r] = Null
        /\ req'[r] = [email |-> a, password |-> pw, otp |-> Null]
        /\ pc'[r] = "findUser" /\ UNCHANGED <<users, pending, doc>>
    BY <1>1, <2>1
  <2>3. ~StartVerify(r)
    BY <2>2 DEF StartVerify, Accept, TypeInv, TypeOK
  <2> QED
    BY <2>1, <2>2, <2>3 DEF Body
<1>3. CASE StartVerify(r)
  <2>1. PICK a \in Address, otp \in OTP :
            Accept(r, [email |-> a, password |-> Null, otp |-> otp], "findPending")
    BY <1>3 DEF StartVerify
  <2>2. /\ Others(r) /\ pc[r] = "idle" /\ reply'[r] = Null
        /\ req'[r] = [email |-> a, password |-> Null, otp |-> otp]
        /\ pc'[r] = "findPending" /\ UNCHANGED <<users, pending, doc>>
    BY <1>1, <2>1
  <2>3. ~StartInitiate(r)
    BY <2>2 DEF StartInitiate, Accept, TypeInv, TypeOK
  <2> QED
    BY <2>1, <2>2, <2>3 DEF Body
<1> QED
  BY <1>2, <1>3

\* Nothing else touches slots, but a crash that empties them.
LEMMA ElsewhereStep ==
  ASSUME TypeInv, Elsewhere
  PROVE  Crash \/ UNCHANGED <<pc, req, doc, reply>>
<1>1. ASSUME NEW r \in Request, Keygen(r)
      PROVE  UNCHANGED <<pc, req, doc, reply>>
  BY <1>1 DEF Keygen, KeygenOpen, KeygenWrite, KeygenFail, OrphanExits, Exited, handlerVars
<1>2. Reap \/ Tick => UNCHANGED <<pc, req, doc, reply>>
  BY DEF Reap, Tick, handlerVars
<1> QED
  BY <1>1, <1>2 DEF Elsewhere

-----------------------------------------------------------------------------
(* The inductive invariant of the pages.                                   *)

\* No two pages wait for one slot.
OneWaiter ==
    \A p, q \in Page : waitsFor[p] # Null /\ waitsFor[p] = waitsFor[q] => p = q

\* A page waits for a handler of its own form, or for that handler's answer.
WaitsInitiate(p) ==
    /\ details[p] \in Address /\ Lower[details[p]] \in Member
    /\ \/ /\ pc[waitsFor[p]] \in InitiateAwait
          /\ req[waitsFor[p]].email = details[p]
       \/ /\ pc[waitsFor[p]] = "idle"
          /\ reply[waitsFor[p]] # 201
          /\ reply[waitsFor[p]] = 200 => mailbox[Lower[details[p]]] # {}

WaitsVerify(p) ==
    \/ /\ pc[waitsFor[p]] \in VerifyAwait
       /\ req[waitsFor[p]].email = submittedEmail[p]
    \/ pc[waitsFor[p]] = "idle" /\ reply[waitsFor[p]] # 200

WaitInv ==
    \A p \in Page : waitsFor[p] # Null =>
        \/ stage[p] = "enterDetails" /\ WaitsInitiate(p)
        \/ stage[p] = "enterOtp" /\ WaitsVerify(p)

\* The OTP form has an address, and a mail for it.
OtpFormInv ==
    \A p \in Page : stage[p] = "enterOtp" =>
        /\ submittedEmail[p] \in Address /\ Lower[submittedEmail[p]] \in Member
        /\ mailbox[Lower[submittedEmail[p]]] # {}

\* An answer that reports success is on its way to p.
Arriving(p) ==
    /\ waitsFor[p] # Null /\ stage[p] = "enterOtp"
    /\ pc[waitsFor[p]] = "idle" /\ reply[waitsFor[p]] = 201

\* Success for an address is with one handler, one answer or one page.
NoHandlerFor(a) == \A r \in Request : pc[r] = "deletePending" => doc[r].email # a
NoAnswerFor(a, q) == Arriving(q) => Lower[submittedEmail[q]] # a

ArrivingInv ==
    \A p \in Page : Arriving(p) =>
        /\ Registered(Lower[submittedEmail[p]])
        /\ NoHandlerFor(Lower[submittedEmail[p]])
        /\ \A q \in Page \ {p} : NoAnswerFor(Lower[submittedEmail[p]], q)

ToldInv ==
    \A p \in Page, a \in Member : a \in registered[p] =>
        /\ Registered(a)
        /\ NoHandlerFor(a)
        /\ \A q \in Page : NoAnswerFor(a, q)
        /\ \A q \in Page \ {p} : a \notin registered[q]

LeavingInv == \A p \in Page : leaving[p] => registered[p] # {}

PageInv ==
    /\ PageTypeOK /\ HandlerInv /\ OneWaiter /\ WaitInv /\ OtpFormInv
    /\ ArrivingInv /\ ToldInv /\ LeavingInv

LEMMA PageInvInit == PageInit => PageInv
  BY DEF PageInit, Init, PageInv, PageTypeOK, HandlerInv, OneWaiter, WaitInv,
         OtpFormInv, Arriving, ArrivingInv, ToldInv, LeavingInv

LEMMA PageInvImplies == PageInv => PageTypeOK /\ SuccessOnce /\ OtpIsInMail
  BY DEF PageInv, PageTypeOK, SuccessOnce, OtpIsInMail, OtpFormInv, ToldInv, LeavingInv

-----------------------------------------------------------------------------
(* Steps of the server.                                                    *)

ServerStep == (\E r \in Request : Serve(r)) \/ Elsewhere

LEMMA ServerFrame ==
  ASSUME ServerStep
  PROVE  UNCHANGED <<stage, details, submittedEmail, waitsFor, registered, leaving>>
  BY DEF ServerStep, Serve, Elsewhere, pageVars

LEMMA MailGrows ==
  ASSUME TypeInv, PageTypeOK, ServerStep
  PROVE  /\ mailbox' \in [Member -> SUBSET OTP]
         /\ \A a \in Member : mailbox[a] \subseteq mailbox'[a]
<1>1. ASSUME NEW r \in Request, Serve(r)
      PROVE  mailbox' \in [Member -> SUBSET OTP]
             /\ \A a \in Member : mailbox[a] \subseteq mailbox'[a]
  <2>1. pc[r] = "sendEmail" => doc[r].email \in Member /\ doc[r].otp \in OTP
    BY DEF TypeInv, LocalsOK, Pending
  <2> QED
    BY <1>1, <2>1 DEF Serve, Mail, PageTypeOK
<1>2. CASE Elsewhere
  BY <1>2 DEF Elsewhere, pageVars, PageTypeOK
<1> QED
  BY <1>1, <1>2 DEF ServerStep

\* No handler starts on a success for an address that has its account.
LEMMA ClaimStays ==
  ASSUME TypeInv, [Next]_vars, NEW a, Registered(a), NoHandlerFor(a)
  PROVE  Registered(a)' /\ NoHandlerFor(a)'
<1>1. Registered(a)'
  BY AccountsStep DEF Registered
<1>2. ASSUME NEW w \in Request, pc'[w] = "deletePending"
      PROVE  doc'[w].email # a
  <2>1. CASE pc[w] = "deletePending" /\ doc'[w] = doc[w]
    BY <2>1 DEF NoHandlerFor
  <2>2. CASE SaveUser(w)
    BY <1>2, <2>2 DEF SaveUser, Goto, Answer, TypeInv, TypeOK
  <2> QED
    BY <1>2, <2>1, <2>2, WinnerStep
<1> QED
  BY <1>1, <1>2 DEF NoHandlerFor

\* What a slot goes through in a step of the server.
SlotStep(w) ==
    \/ UNCHANGED <<pc[w], req[w], reply[w], doc[w]>>
    \/ GoesOn(w)
    \/ Ends(w) /\ Serve(w)
    \/ pc'[w] = "idle" /\ reply'[w] = reply[w] /\ Crash

LEMMA ServerSlots ==
  ASSUME TypeInv, HandlerInv, ServerStep, NEW w \in Request
  PROVE  SlotStep(w)
<1>1. ASSUME NEW r \in Request, Serve(r)
      PROVE  SlotStep(w)
  <2>1. Others(r) /\ (GoesOn(r) \/ Ends(r))
    BY <1>1, HandlerStep DEF Serve
  <2>2. CASE w = r
    BY <1>1, <2>1, <2>2 DEF SlotStep
  <2>3. CASE w # r
    BY <2>1, <2>3 DEF SlotStep, Others
  <2> QED
    BY <2>2, <2>3
<1>2. CASE Elsewhere
  <2>1. CASE Crash
    BY <2>1 DEF Crash, SlotStep
  <2>2. CASE UNCHANGED <<pc, req, doc, reply>>
    BY <2>2 DEF SlotStep
  <2> QED
    BY <1>2, <2>1, <2>2, ElsewhereStep
<1> QED
  BY <1>1, <1>2 DEF ServerStep

LEMMA ServerHandlerInv ==
  ASSUME TypeInv, HandlerInv, ServerStep
  PROVE  HandlerInv'
<1> SUFFICES ASSUME NEW w \in Request
             PROVE  /\ pc'[w] # "idle" => req'[w] \in Body /\ reply'[w] = Null
                    /\ pc'[w] \in DocAwait => doc'[w].email = Lower[req'[w].email]
  BY DEF HandlerInv
<1>1. CASE pc'[w] = "idle"
  BY <1>1
<1>2. CASE UNCHANGED <<pc[w], req[w], reply[w], doc[w]>>
  BY <1>2 DEF HandlerInv
<1>3. CASE GoesOn(w)
  BY <1>3 DEF GoesOn, HandlerInv
<1> QED
  BY <1>1, <1>2, <1>3, ServerSlots DEF SlotStep, Ends

LEMMA ServerWaitInv ==
  ASSUME TypeInv, PageInv, ServerStep
  PROVE  WaitInv'
<1> USE DEF PageInv
<1> SUFFICES ASSUME NEW p \in Page, waitsFor[p] # Null
             PROVE  \/ stage[p] = "enterDetails" /\ WaitsInitiate(p)'
                    \/ stage[p] = "enterOtp" /\ WaitsVerify(p)'
  BY ServerFrame DEF WaitInv
<1> DEFINE w == waitsFor[p]
<1>0. w \in Request
  BY DEF PageTypeOK
<1>s. SlotStep(w)
  BY <1>0, ServerSlots
<1>1. CASE stage[p] = "enterDetails" /\ WaitsInitiate(p)
  <2> DEFINE a == Lower[details[p]]
  <2>1. a \in Member /\ mailbox[a] \subseteq mailbox'[a]
    BY <1>1, MailGrows DEF WaitsInitiate
  <2>2. CASE UNCHANGED <<pc[w], req[w], reply[w], doc[w]>>
    BY <1>1, <2>1, <2>2, ServerFrame DEF WaitsInitiate
  <2>3. CASE GoesOn(w)
    BY <1>1, <2>3, ServerFrame DEF WaitsInitiate, GoesOn
  <2>4. CASE Ends(w) /\ Serve(w)
    <3>1. pc[w] \in InitiateAwait /\ req[w].email = details[p]
      BY <1>1, <2>4 DEF WaitsInitiate, Ends
    <3>2. reply'[w] # 201
      BY <2>4, <3>1 DEF Ends
    <3>3. ASSUME reply'[w] = 200
          PROVE  mailbox'[a] # {}
      <4>1. pc[w] = "sendEmail" /\ doc[w].email = a
        BY <1>0, <2>4, <3>1, <3>3 DEF Ends, HandlerInv
      <4>2. mailbox' = [mailbox EXCEPT ![a] = @ \cup {doc[w].otp}]
        BY <2>4, <3>3, <4>1 DEF Serve, Mail
      <4> QED
        BY <2>1, <4>2 DEF PageTypeOK
    <3> QED
      BY <1>1, <2>4, <3>2, <3>3, ServerFrame DEF WaitsInitiate, Ends
  <2>5. CASE pc'[w] = "idle" /\ reply'[w] = reply[w] /\ Crash
    <3>1. CASE pc[w] \in InitiateAwait
      <4>1. reply'[w] = Null
        BY <1>0, <2>5, <3>1 DEF HandlerInv
      <4>2. reply'[w] \notin {200, 201}
        BY <4>1, NullIsNoStatus DEF Status
      <4> QED
        BY <1>1, <2>5, <4>2, ServerFrame DEF WaitsInitiate
    <3>2. CASE pc[w] = "idle"
      BY <1>1, <2>1, <2>5, <3>2, ServerFrame DEF WaitsInitiate
    <3> QED
      BY <1>1, <3>1, <3>2 DEF WaitsInitiate
  <2> QED
    BY <1>s, <2>2, <2>3, <2>4, <2>5 DEF SlotStep
<1>2. CASE stage[p] = "enterOtp" /\ WaitsVerify(p)
  <2>2. CASE UNCHANGED <<pc[w], req[w], reply[w], doc[w]>>
    BY <1>2, <2>2, ServerFrame DEF WaitsVerify
  <2>3. CASE GoesOn(w)
    BY <1>2, <2>3, ServerFrame DEF WaitsVerify, GoesOn
  <2>4. CASE Ends(w) /\ Serve(w)
    BY <1>2, <2>4, ServerFrame DEF WaitsVerify, Ends
  <2>5. CASE pc'[w] = "idle" /\ reply'[w] = reply[w] /\ Crash
    <3>1. CASE pc[w] \in VerifyAwait
      <4>1. reply'[w] = Null
        BY <1>0, <2>5, <3>1 DEF HandlerInv
      <4>2. reply'[w] # 200
        BY <4>1, NullIsNoStatus DEF Status
      <4> QED
        BY <2>5, <4>2, <1>2, ServerFrame DEF WaitsVerify
    <3> QED
      BY <1>2, <2>5, <3>1, ServerFrame DEF WaitsVerify
  <2> QED
    BY <1>s, <2>2, <2>3, <2>4, <2>5 DEF SlotStep
<1> QED
  BY <1>1, <1>2 DEF WaitInv

\* An answer that reports success is there already, or its handler was the one
\* that owned the account.
LEMMA ServerArriving ==
  ASSUME TypeInv, PageInv, ServerStep, NEW p \in Page, Arriving(p)'
  PROVE  \/ Arriving(p)
         \/ /\ waitsFor[p] \in Request /\ pc[waitsFor[p]] = "deletePending"
            /\ doc[waitsFor[p]].email = Lower[submittedEmail[p]]
            /\ Serve(waitsFor[p])
<1> DEFINE w == waitsFor[p]
<1>1. /\ w # Null /\ w \in Request /\ stage[p] = "enterOtp"
      /\ pc'[w] = "idle" /\ reply'[w] = 201
  BY ServerFrame DEF Arriving, PageInv, PageTypeOK
<1>2. SlotStep(w)
  BY <1>1, ServerSlots DEF PageInv
<1>3. CASE UNCHANGED <<pc[w], req[w], reply[w], doc[w]>>
  BY <1>1, <1>3 DEF Arriving
<1>4. CASE GoesOn(w)
  BY <1>1, <1>4 DEF GoesOn
<1>5. CASE Ends(w) /\ Serve(w)
  <2>1. pc[w] = "deletePending"
    BY <1>1, <1>5 DEF Ends
  <2>2. WaitsVerify(p)
    BY <1>1 DEF PageInv, WaitInv
  <2>3. doc[w].email = Lower[submittedEmail[p]]
    BY <1>1, <2>1, <2>2 DEF PageInv, HandlerInv, WaitsVerify
  <2> QED
    BY <1>1, <1>5, <2>1, <2>3
<1>6. CASE pc'[w] = "idle" /\ reply'[w] = reply[w] /\ Crash
  <2>1. reply[w] # Null
    BY <1>1, <1>6, NullIsNoStatus DEF Status
  <2>2. pc[w] = "idle"
    BY <1>1, <2>1 DEF PageInv, HandlerInv
  <2> QED
    BY <1>1, <1>6, <2>2 DEF Arriving
<1> QED
  BY <1>2, <1>3, <1>4, <1>5, <1>6 DEF SlotStep

\* A handler that reports success leaves no other behind for its address.
LEMMA WinnerIsLast ==
  ASSUME TypeInv, UniqueInv, [Next]_vars, NEW r \in Request, pc[r] = "deletePending",
         pc'[r] = "idle", NEW a, a = doc[r].email
  PROVE  Registered(a)' /\ NoHandlerFor(a)'
<1>1. Registered(a) /\ \A s \in Request \ {r} : pc[s] = "deletePending" => doc[s].email # a
  BY DEF UniqueInv, WinnerOwnsAccount, Registered
<1>2. Registered(a)'
  BY <1>1, AccountsStep DEF Registered
<1>3. ASSUME NEW w \in Request, pc'[w] = "deletePending"
      PROVE  doc'[w].email # a
  <2>1. CASE pc[w] = "deletePending" /\ doc'[w] = doc[w]
    BY <1>1, <1>3, <2>1
  <2>2. CASE SaveUser(w)
    BY <1>1, <1>3, <2>2 DEF SaveUser, Goto, Answer, TypeInv, TypeOK
  <2> QED
    BY <1>3, <2>1, <2>2, WinnerStep
<1>4. NoHandlerFor(a)'
  BY <1>3 DEF NoHandlerFor
<1> QED
  BY <1>2, <1>4

LEMMA ServerInv ==
  ASSUME TypeInv, UniqueInv, PageInv, [Next]_vars, ServerStep
  PROVE  PageInv'
<1>1. PageTypeOK'
  BY ServerFrame, MailGrows DEF PageInv, PageTypeOK
<1>2. HandlerInv' /\ WaitInv'
  BY ServerHandlerInv, ServerWaitInv DEF PageInv
<1>3. OneWaiter' /\ LeavingInv'
  BY ServerFrame DEF PageInv, OneWaiter, LeavingInv
<1>4. OtpFormInv'
  BY ServerFrame, MailGrows DEF PageInv, OtpFormInv
<1>5. ArrivingInv'
  <2> SUFFICES ASSUME NEW p \in Page, Arriving(p)', NEW a, a = Lower[submittedEmail[p]]
               PROVE  /\ Registered(a)' /\ NoHandlerFor(a)'
                      /\ \A q \in Page \ {p} : NoAnswerFor(a, q)'
    BY ServerFrame DEF ArrivingInv, NoAnswerFor
  <2>1. CASE Arriving(p)
    <3>1. /\ Registered(a) /\ NoHandlerFor(a)
          /\ \A q \in Page \ {p} : NoAnswerFor(a, q)
      BY <2>1 DEF PageInv, ArrivingInv
    <3>2. Registered(a)' /\ NoHandlerFor(a)'
      BY <3>1, ClaimStays
    <3>3. ASSUME NEW q \in Page \ {p}, Arriving(q)'
          PROVE  Lower[submittedEmail[q]] # a
      BY <3>1, <3>3, ServerArriving DEF NoAnswerFor, NoHandlerFor
    <3> QED
      BY <3>2, <3>3, ServerFrame DEF NoAnswerFor
  <2>2. CASE ~Arriving(p)
    <3> DEFINE w == waitsFor[p]
    <3>1. w \in Request /\ pc[w] = "deletePending" /\ doc[w].email = a
      BY <2>2, ServerArriving
    <3>2. w # Null /\ pc'[w] = "idle"
      BY ServerFrame DEF Arriving
    <3>3. Registered(a)' /\ NoHandlerFor(a)'
      BY <3>1, <3>2, WinnerIsLast
    <3>4. ASSUME NEW q \in Page \ {p}, Arriving(q)'
          PROVE  Lower[submittedEmail[q]] # a
      <4>1. CASE Arriving(q)
        BY <3>1, <4>1 DEF PageInv, ArrivingInv, NoHandlerFor
      <4>2. CASE ~Arriving(q)
        <5>1. /\ waitsFor[q] \in Request /\ pc[waitsFor[q]] = "deletePending"
              /\ doc[waitsFor[q]].email = Lower[submittedEmail[q]]
          BY <3>4, <4>2, ServerArriving
        <5>2. waitsFor[q] # w
          BY <3>2 DEF PageInv, OneWaiter
        <5> QED
          BY <3>1, <5>1, <5>2 DEF UniqueInv, WinnerOwnsAccount
      <4> QED
        BY <4>1, <4>2
    <3> QED
      BY <3>3, <3>4, ServerFrame DEF NoAnswerFor
  <2> QED
    BY <2>1, <2>2
<1>6. ToldInv'
  <2> SUFFICES ASSUME NEW p \in Page, NEW a \in Member, a \in registered[p]
               PROVE  /\ Registered(a)' /\ NoHandlerFor(a)'
                      /\ \A q \in Page : NoAnswerFor(a, q)'
                      /\ \A q \in Page \ {p} : a \notin registered[q]
    BY ServerFrame DEF ToldInv, NoAnswerFor
  <2>1. /\ Registered(a) /\ NoHandlerFor(a)
        /\ \A q \in Page : NoAnswerFor(a, q)
        /\ \A q \in Page \ {p} : a \notin registered[q]
    BY DEF PageInv, ToldInv
  <2>2. Registered(a)' /\ NoHandlerFor(a)'
    BY <2>1, ClaimStays
  <2>3. ASSUME NEW q \in Page, Arriving(q)'
        PROVE  Lower[submittedEmail[q]] # a
    BY <2>1, <2>3, ServerArriving DEF NoAnswerFor, NoHandlerFor
  <2> QED
    BY <2>1, <2>2, <2>3, ServerFrame DEF NoAnswerFor
<1> QED
  BY <1>1, <1>2, <1>3, <1>4, <1>5, <1>6 DEF PageInv

-----------------------------------------------------------------------------
(* Steps of a page.                                                        *)

\* Registrations, handlers about to report success and answers that do are what
\* they were, or fewer.
ClaimsKept ==
    /\ users' = users
    /\ \A r \in Request : pc'[r] = "deletePending" =>
          pc[r] = "deletePending" /\ doc'[r] = doc[r]
    /\ \A q \in Page : Arriving(q)' => Arriving(q) /\ submittedEmail'[q] = submittedEmail[q]

LEMMA KeptArrivingInv ==
  ASSUME PageInv, ClaimsKept
  PROVE  ArrivingInv'
<1> SUFFICES ASSUME NEW p \in Page, Arriving(p)', NEW a, a = Lower[submittedEmail'[p]]
             PROVE  /\ Registered(a)' /\ NoHandlerFor(a)'
                    /\ \A q \in Page \ {p} : NoAnswerFor(a, q)'
  BY DEF ArrivingInv, NoAnswerFor
<1>1. /\ Registered(a) /\ NoHandlerFor(a)
      /\ \A q \in Page \ {p} : NoAnswerFor(a, q)
  BY DEF ClaimsKept, PageInv, ArrivingInv
<1>2. Registered(a)' /\ NoHandlerFor(a)'
  BY <1>1 DEF ClaimsKept, Registered, NoHandlerFor
<1>3. \A q \in Page \ {p} : NoAnswerFor(a, q)'
  BY <1>1 DEF ClaimsKept, NoAnswerFor
<1> QED
  BY <1>2, <1>3

LEMMA KeptToldInv ==
  ASSUME PageInv, ClaimsKept, registered' = registered
  PROVE  ToldInv'
<1> SUFFICES ASSUME NEW p \in Page, NEW a \in Member, a \in registered[p]
             PROVE  /\ Registered(a)' /\ NoHandlerFor(a)'
                    /\ \A q \in Page : NoAnswerFor(a, q)'
                    /\ \A q \in Page \ {p} : a \notin registered[q]
  BY DEF ToldInv
<1>1. /\ Registered(a) /\ NoHandlerFor(a)
      /\ \A q \in Page : NoAnswerFor(a, q)
      /\ \A q \in Page \ {p} : a \notin registered[q]
  BY DEF PageInv, ToldInv
<1> QED
  BY <1>1 DEF ClaimsKept, Registered, NoHandlerFor, NoAnswerFor

LEMMA SubmitInv ==
  ASSUME TypeInv, PageInv, NEW p \in Page, NEW r \in Request,
         handleSubmitDetails(p, r) \/ handleSubmitOtp(p, r)
  PROVE  PageInv'
<1> USE DEF PageInv
<1>1. /\ StartInitiate(r) \/ StartVerify(r)
      /\ \A q \in Page : waitsFor[q] # r
      /\ waitsFor' = [waitsFor EXCEPT ![p] = r]
      /\ UNCHANGED <<stage, submittedEmail, registered, leaving, mailbox>>
  BY DEF handleSubmitDetails, handleSubmitOtp, Send
<1>2. /\ Others(r)
      /\ pc[r] = "idle" /\ reply'[r] = Null /\ req'[r] \in Body
      /\ pc'[r] \in {"findUser", "findPending"}
      /\ UNCHANGED <<users, pending, doc>>
  BY <1>1, StartStep
<1>3. details' \in [Page -> Address \cup {Null}] /\ \A q \in Page \ {p} : details'[q] = details[q]
  BY <1>2 DEF handleSubmitDetails, handleSubmitOtp, PageTypeOK, Body
<1>4. PageTypeOK' /\ LeavingInv' /\ OtpFormInv' /\ OneWaiter'
  BY <1>1, <1>3 DEF PageTypeOK, LeavingInv, OtpFormInv, OneWaiter
<1>5. HandlerInv'
  BY <1>2 DEF HandlerInv, Others
<1>6. ClaimsKept
  <2>1. \A s \in Request : pc'[s] = "deletePending" =>
          pc[s] = "deletePending" /\ doc'[s] = doc[s]
    BY <1>2 DEF Others
  <2>2. ASSUME NEW q \in Page, Arriving(q)'
        PROVE  Arriving(q) /\ submittedEmail'[q] = submittedEmail[q]
    <3>1. q # p
      BY <1>1, <1>2, <2>2 DEF Arriving, PageTypeOK
    <3>2. waitsFor'[q] = waitsFor[q] /\ waitsFor[q] # r
      BY <1>1, <3>1 DEF PageTypeOK
    <3> QED
      BY <1>1, <1>2, <2>2, <3>2 DEF Arriving, Others, PageTypeOK
  <2> QED
    BY <1>2, <2>1, <2>2 DEF ClaimsKept
<1>7. WaitInv'
  <2> SUFFICES ASSUME NEW q \in Page, waitsFor'[q] # Null
               PROVE  \/ stage[q] = "enterDetails" /\ WaitsInitiate(q)'
                      \/ stage[q] = "enterOtp" /\ WaitsVerify(q)'
    BY <1>1 DEF WaitInv
  <2>1. CASE q # p
    <3> DEFINE w == waitsFor[q]
    <3>1. waitsFor'[q] = w /\ w # Null /\ w \in Request \ {r}
      BY <1>1, <2>1 DEF PageTypeOK
    <3>2. /\ pc'[w] = pc[w] /\ req'[w] = req[w] /\ reply'[w] = reply[w]
          /\ details'[q] = details[q]
      BY <1>2, <1>3, <2>1, <3>1 DEF Others
    <3>3. \/ stage[q] = "enterDetails" /\ WaitsInitiate(q)
          \/ stage[q] = "enterOtp" /\ WaitsVerify(q)
      BY <3>1 DEF WaitInv
    <3> QED
      BY <1>1, <3>1, <3>2, <3>3 DEF WaitsInitiate, WaitsVerify
  <2>2. CASE q = p /\ handleSubmitDetails(p, r)
    <3>1. /\ waitsFor'[p] = r /\ stage[p] = "enterDetails" /\ StartInitiate(r)
          /\ details'[p] = req'[r].email
      BY <2>2, <1>1 DEF handleSubmitDetails, CanSubmit, PageTypeOK
    <3>2. pc'[r] = "findUser" /\ Lower[req'[r].email] \in Member /\ req'[r].email \in Address
      BY <1>2, <3>1, StartStep DEF Body
    <3> QED
      BY <2>2, <3>1, <3>2 DEF WaitsInitiate
  <2>3. CASE q = p /\ handleSubmitOtp(p, r)
    <3>1. /\ waitsFor'[p] = r /\ stage[p] = "enterOtp" /\ StartVerify(r)
          /\ submittedEmail'[p] = req'[r].email
      BY <2>3, <1>1 DEF handleSubmitOtp, CanSubmit, PageTypeOK
    <3>2. pc'[r] = "findPending"
      BY <3>1, StartStep
    <3> QED
      BY <2>3, <3>1, <3>2 DEF WaitsVerify
  <2> QED
    BY <2>1, <2>2, <2>3
<1> QED
  BY <1>1, <1>4, <1>5, <1>6, <1>7, KeptArrivingInv, KeptToldInv

\* A page that stops waiting, with nothing new to tell.
LEMMA StopsInv ==
  ASSUME TypeInv, PageInv, NEW p \in Page, UNCHANGED <<vars, mailbox, registered>>,
         waitsFor' = [waitsFor EXCEPT ![p] = Null],
         details' = details \/ details' = [details EXCEPT ![p] = Null],
         \A q \in Page \ {p} : stage'[q] = stage[q] /\ submittedEmail'[q] = submittedEmail[q],
         stage' \in [Page -> {"enterDetails", "enterOtp", "left"}],
         submittedEmail' \in [Page -> Address \cup {Null}],
         leaving' \in [Page -> BOOLEAN],
         \A q \in Page : leaving'[q] => registered[q] # {},
         stage'[p] = "enterOtp" =>
            /\ submittedEmail'[p] \in Address /\ Lower[submittedEmail'[p]] \in Member
            /\ mailbox[Lower[submittedEmail'[p]]] # {}
  PROVE  PageInv'
<1> USE DEF PageInv
<1>1. /\ waitsFor'[p] = Null
      /\ \A q \in Page \ {p} : waitsFor'[q] = waitsFor[q] /\ details'[q] = details[q]
  BY DEF PageTypeOK
<1>2. PageTypeOK'
  BY DEF PageTypeOK
<1>3. HandlerInv' /\ OneWaiter'
  BY <1>1 DEF HandlerInv, OneWaiter, vars
<1>4. LeavingInv'
  BY DEF LeavingInv
<1>5. OtpFormInv'
  BY DEF OtpFormInv
<1>6. WaitInv'
  <2> SUFFICES ASSUME NEW q \in Page, waitsFor'[q] # Null
               PROVE  \/ stage'[q] = "enterDetails" /\ WaitsInitiate(q)'
                      \/ stage'[q] = "enterOtp" /\ WaitsVerify(q)'
    BY DEF WaitInv
  <2>1. /\ q # p /\ waitsFor'[q] = waitsFor[q] /\ details'[q] = details[q]
        /\ stage'[q] = stage[q] /\ submittedEmail'[q] = submittedEmail[q]
    BY <1>1
  <2>2. \/ stage[q] = "enterDetails" /\ WaitsInitiate(q)
        \/ stage[q] = "enterOtp" /\ WaitsVerify(q)
    BY <2>1 DEF WaitInv
  <2> QED
    BY <2>1, <2>2 DEF WaitsInitiate, WaitsVerify, vars
<1>7. ClaimsKept
  <2>1. ASSUME NEW q \in Page, Arriving(q)'
        PROVE  Arriving(q) /\ submittedEmail'[q] = submittedEmail[q]
    <3>1. q # p
      BY <1>1, <2>1 DEF Arriving
    <3> QED
      BY <1>1, <2>1, <3>1 DEF Arriving, vars
  <2> QED
    BY <2>1 DEF ClaimsKept, vars
<1> QED
  BY <1>2, <1>3, <1>4, <1>5, <1>6, <1>7, KeptArrivingInv, KeptToldInv

\* A page is told of a success: the answer's claim is now the page's.
LEMMA SucceededInv ==
  ASSUME TypeInv, PageInv, NEW p \in Page, Deliver(p), Succeeded(p)
  PROVE  PageInv'
<1> USE DEF PageInv, Succeeded, Deliver, Done
<1> DEFINE a == Lower[submittedEmail[p]]
<1>1. /\ waitsFor'[p] = Null /\ details'[p] = Null
      /\ \A q \in Page \ {p} : /\ waitsFor'[q] = waitsFor[q] /\ details'[q] = details[q]
                             /\ registered'[q] = registered[q]
      /\ registered'[p] = registered[p] \cup {a}
      /\ UNCHANGED <<stage, submittedEmail, mailbox, pc, req, reply, doc, users>>
  BY DEF PageTypeOK, vars
<1>2. Arriving(p) /\ a \in Member
  BY DEF Arriving, OtpFormInv
<1>3. PageTypeOK'
  BY <1>2 DEF PageTypeOK
<1>4. HandlerInv' /\ OneWaiter' /\ OtpFormInv'
  BY <1>1 DEF HandlerInv, OneWaiter, OtpFormInv
<1>5. LeavingInv'
  <2>1. \A q \in Page : registered[q] # {} => registered'[q] # {}
    BY <1>1
  <2>2. \A q \in Page \ {p} : leaving'[q] = leaving[q]
    BY DEF PageTypeOK
  <2>3. registered'[p] # {}
    BY <1>1
  <2> QED
    BY <2>1, <2>2, <2>3 DEF LeavingInv
<1>6. WaitInv'
  <2> SUFFICES ASSUME NEW q \in Page, waitsFor'[q] # Null
               PROVE  \/ stage'[q] = "enterDetails" /\ WaitsInitiate(q)'
                      \/ stage'[q] = "enterOtp" /\ WaitsVerify(q)'
    BY DEF WaitInv
  <2>1. q # p /\ waitsFor'[q] = waitsFor[q] /\ details'[q] = details[q]
    BY <1>1
  <2>2. \/ stage[q] = "enterDetails" /\ WaitsInitiate(q)
        \/ stage[q] = "enterOtp" /\ WaitsVerify(q)
    BY <2>1 DEF WaitInv
  <2> QED
    BY <1>1, <2>1, <2>2 DEF WaitsInitiate, WaitsVerify
<1>7. ~Arriving(p)' /\ \A q \in Page : Arriving(q)' => Arriving(q)
  <2>1. ~Arriving(p)'
    BY <1>1 DEF Arriving
  <2>2. \A q \in Page \ {p} : Arriving(q)' => Arriving(q)
    BY <1>1 DEF Arriving
  <2> QED
    BY <2>1, <2>2
<1>8. ClaimsKept
  BY <1>1, <1>7 DEF ClaimsKept
<1>9. ToldInv'
  <2> SUFFICES ASSUME NEW q \in Page, NEW b \in Member, b \in registered'[q]
               PROVE  /\ Registered(b)' /\ NoHandlerFor(b)'
                      /\ \A s \in Page : NoAnswerFor(b, s)'
                      /\ \A s \in Page \ {q} : b \notin registered'[s]
    BY DEF ToldInv
  <2>1. CASE b \in registered[q]
    <3>1. /\ Registered(b) /\ NoHandlerFor(b)
          /\ \A s \in Page : NoAnswerFor(b, s)
          /\ \A s \in Page \ {q} : b \notin registered[s]
      BY <2>1 DEF ToldInv
    <3>2. b # a
      BY <1>2, <3>1 DEF NoAnswerFor
    <3> QED
      BY <1>1, <1>7, <3>1, <3>2 DEF Registered, NoHandlerFor, NoAnswerFor
  <2>2. CASE b \notin registered[q]
    <3>1. q = p /\ b = a
      BY <1>1, <2>2
    <3>2. /\ Registered(a) /\ NoHandlerFor(a)
          /\ \A s \in Page \ {p} : NoAnswerFor(a, s)
      BY <1>2 DEF ArrivingInv
    <3>3. \A s \in Page : a \notin registered[s]
      BY <1>2 DEF ToldInv, NoAnswerFor
    <3> QED
      BY <1>1, <1>7, <3>1, <3>2, <3>3 DEF Registered, NoHandlerFor, NoAnswerFor
  <2> QED
    BY <2>1, <2>2
<1> QED
  BY <1>3, <1>4, <1>5, <1>6, <1>8, <1>9, KeptArrivingInv

LEMMA PageStepInv ==
  ASSUME TypeInv, PageInv, NEW p \in Page,
         handleGoBack(p) \/ Deliver(p) \/ Lose(p) \/ Navigate(p)
  PROVE  PageInv'
<1> USE DEF PageInv
<1>1. CASE handleGoBack(p)
  <2>1. waitsFor' = [waitsFor EXCEPT ![p] = Null] /\ details' = details
    BY <1>1 DEF handleGoBack, CanSubmit, PageTypeOK
  <2> QED
    BY <1>1, <2>1, StopsInv DEF handleGoBack, PageTypeOK, LeavingInv
<1>2. CASE Deliver(p)
  <2>1. CASE Succeeded(p)
    BY <1>2, <2>1, SucceededInv
  <2>2. CASE Refused(p)
    BY <1>2, <2>2, StopsInv DEF Deliver, Done, Refused, PageTypeOK, LeavingInv, OtpFormInv
  <2>3. CASE OtpSent(p)
    <3>1. WaitsInitiate(p) /\ pc[waitsFor[p]] = "idle" /\ reply[waitsFor[p]] = 200
      BY <1>2, <2>3 DEF Deliver, OtpSent, WaitInv
    <3>2. /\ details[p] \in Address /\ Lower[details[p]] \in Member
          /\ mailbox[Lower[details[p]]] # {}
      BY <3>1 DEF WaitsInitiate
    <3>3. /\ UNCHANGED <<vars, mailbox, registered, leaving>>
          /\ waitsFor' = [waitsFor EXCEPT ![p] = Null]
          /\ details' = [details EXCEPT ![p] = Null]
          /\ stage' = [stage EXCEPT ![p] = "enterOtp"]
          /\ submittedEmail' = [submittedEmail EXCEPT ![p] = details[p]]
      BY <1>2, <2>3 DEF Deliver, Done, OtpSent
    <3>4. submittedEmail'[p] = details[p]
      BY <3>3 DEF PageTypeOK
    <3>5. /\ stage' \in [Page -> {"enterDetails", "enterOtp", "left"}]
          /\ submittedEmail' \in [Page -> Address \cup {Null}]
          /\ \A q \in Page \ {p} : stage'[q] = stage[q] /\ submittedEmail'[q] = submittedEmail[q]
      BY <3>2, <3>3 DEF PageTypeOK
    <3>6. leaving' \in [Page -> BOOLEAN] /\ \A q \in Page : leaving'[q] => registered[q] # {}
      BY <3>3 DEF PageTypeOK, LeavingInv
    <3> QED
      BY <3>2, <3>3, <3>4, <3>5, <3>6, StopsInv
  <2> QED
    BY <1>2, <2>1, <2>2, <2>3 DEF Deliver
<1>3. CASE Lose(p)
  BY <1>3, StopsInv DEF Lose, Done, PageTypeOK, LeavingInv, OtpFormInv
<1>4. CASE Navigate(p)
  BY <1>4, StopsInv DEF Navigate, Done, PageTypeOK, LeavingInv
<1> QED
  BY <1>1, <1>2, <1>3, <1>4

LEMMA PageInvStep ==
  ASSUME TypeInv, UniqueInv, PageInv, [PageNext]_siteVars
  PROVE  PageInv'
<1>1. ServerStep => [Next]_vars
  BY DEF ServerStep, Serve, Elsewhere, Next
<1>2. CASE ServerStep
  BY <1>1, <1>2, ServerInv
<1>3. CASE \E p \in Page, r \in Request : handleSubmitDetails(p, r) \/ handleSubmitOtp(p, r)
  BY <1>3, SubmitInv
<1>4. CASE \E p \in Page : handleGoBack(p) \/ Deliver(p) \/ Lose(p) \/ Navigate(p)
  BY <1>4, PageStepInv
<1>5. CASE UNCHANGED siteVars
  BY <1>5 DEF siteVars, vars, pageVars, PageInv, PageTypeOK, HandlerInv, OneWaiter,
              WaitInv, WaitsInitiate, WaitsVerify, OtpFormInv, Arriving, ArrivingInv,
              ToldInv, LeavingInv, NoHandlerFor, NoAnswerFor, Registered
<1> QED
  BY <1>2, <1>3, <1>4, <1>5 DEF PageNext, ServerStep

LEMMA PageInvariant == PageSpec => []PageInv
<1>1. Init /\ [][Next]_vars => [](TypeInv /\ UniqueInv)
  <2>1. Init => UniqueInv
    BY DEF Init, UniqueInv, OneAccountPerAddress, OneOfferPerAddress, WinnerOwnsAccount
  <2>2. TypeInv /\ UniqueInv /\ [Next]_vars => UniqueInv'
    BY UniqueStep
  <2> QED
    BY TypeInit, TypeStep, <2>1, <2>2, PTL
<1>2. TypeInv /\ UniqueInv /\ PageInv /\ [PageNext]_siteVars => PageInv'
  BY PageInvStep
<1> QED
  BY PageInvInit, <1>1, <1>2, PageImplementsRegistration, PTL DEF PageSpec, Spec

\* Every variable of the pages keeps its type.
THEOREM PageTyped == PageSpec => []PageTypeOK
  BY PageInvariant, PageInvImplies, PTL

\* An address is reported registered at most once, and then it has its account.
THEOREM SuccessReportedOnce == PageSpec => []SuccessOnce
  BY PageInvariant, PageInvImplies, PTL

\* The OTP form is about an address that an OTP was mailed to.
THEOREM OtpFormHasMail == PageSpec => []OtpIsInMail
  BY PageInvariant, PageInvImplies, PTL
=============================================================================
