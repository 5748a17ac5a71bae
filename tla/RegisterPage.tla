---------------------------- MODULE RegisterPage ----------------------------
(***************************************************************************)
(* The page of client/src/pages/Register.jsx above the registration it     *)
(* talks to.  Every request comes from a page; a page waits for one answer *)
(* at a time, but an answer may be lost while its handler runs on, and the *)
(* user tries again, in the same page or in another.                       *)
(***************************************************************************)
EXTENDS Registration

CONSTANT Page       \* pages open in browsers

ASSUME PageAssumption == Null \notin Request

VARIABLES
    stage,          \* which of the two forms is shown
    details,        \* the address in the details that wait for an answer
    submittedEmail, \* the address that the OTP form is about
    waitsFor,       \* isLoading: the request slot that will answer
    registered,     \* addresses a page was told are registered
    leaving,        \* a timer will navigate to the login page
    mailbox         \* OTPs mailed to each member, as sendMail reports

pageVars == <<stage, details, submittedEmail, waitsFor, registered, leaving, mailbox>>
siteVars == <<vars, pageVars>>

PageTypeOK ==
    /\ stage \in [Page -> {"enterDetails", "enterOtp", "left"}]
    /\ details \in [Page -> Address \cup {Null}]
    /\ submittedEmail \in [Page -> Address \cup {Null}]
    /\ waitsFor \in [Page -> Request \cup {Null}]
    /\ registered \in [Page -> SUBSET Member]
    /\ leaving \in [Page -> BOOLEAN]
    /\ mailbox \in [Member -> SUBSET OTP]

PageInit ==
    /\ Init
    /\ stage = [p \in Page |-> "enterDetails"]
    /\ details = [p \in Page |-> Null]
    /\ submittedEmail = [p \in Page |-> Null]
    /\ waitsFor = [p \in Page |-> Null]
    /\ registered = [p \in Page |-> {}]
    /\ leaving = [p \in Page |-> FALSE]
    /\ mailbox = [a \in Member |-> {}]

-----------------------------------------------------------------------------
(* The user.                                                               *)

\* A form can be submitted while its button is enabled; the request takes a
\* slot whose last answer nobody waits for.
CanSubmit(p, form) == stage[p] = form /\ waitsFor[p] = Null
Send(p, r) ==
    /\ \A q \in Page : waitsFor[q] # r
    /\ waitsFor' = [waitsFor EXCEPT ![p] = r]

\* What the form refuses, and what does not reach the server, changes only
\* the error message, and is not worth a step.
handleSubmitDetails(p, r) ==
    /\ CanSubmit(p, "enterDetails")
    /\ Send(p, r)
    /\ StartInitiate(r)
    /\ details' = [details EXCEPT ![p] = req'[r].email]
    /\ UNCHANGED <<stage, submittedEmail, registered, leaving, mailbox>>

\* The OTP is one the user was mailed, or a guess.
handleSubmitOtp(p, r) ==
    /\ CanSubmit(p, "enterOtp")
    /\ Send(p, r)
    /\ StartVerify(r)
    /\ req'[r].email = submittedEmail[p]
    /\ UNCHANGED <<stage, details, submittedEmail, registered, leaving, mailbox>>

handleGoBack(p) ==
    /\ CanSubmit(p, "enterOtp")
    /\ stage' = [stage EXCEPT ![p] = "enterDetails"]
    /\ submittedEmail' = [submittedEmail EXCEPT ![p] = Null]
    /\ UNCHANGED <<vars, details, waitsFor, registered, leaving, mailbox>>

-----------------------------------------------------------------------------
(* Answers.                                                                *)

Done(p) ==
    /\ waitsFor' = [waitsFor EXCEPT ![p] = Null]
    /\ details' = [details EXCEPT ![p] = Null]

\* Mutant: the next form is shown whatever the answer.
OtpSentAlways(p) ==
    /\ stage[p] = "enterDetails" /\ reply[waitsFor[p]] # 201
    /\ stage' = [stage EXCEPT ![p] = "enterOtp"]
    /\ submittedEmail' = [submittedEmail EXCEPT ![p] = details[p]]
    /\ UNCHANGED <<registered, leaving>>

OtpSent(p) ==
    /\ stage[p] = "enterDetails" /\ reply[waitsFor[p]] = 200
    /\ stage' = [stage EXCEPT ![p] = "enterOtp"]
    /\ submittedEmail' = [submittedEmail EXCEPT ![p] = details[p]]
    /\ UNCHANGED <<registered, leaving>>

\* Mutant: the address is taken from the other form's details.
SucceededForDetails(p) ==
    /\ stage[p] = "enterOtp" /\ reply[waitsFor[p]] = 201
    /\ registered' = [registered EXCEPT ![p] = @ \cup {details[p]}]
    /\ leaving' = [leaving EXCEPT ![p] = TRUE]
    /\ UNCHANGED <<stage, submittedEmail>>

Succeeded(p) ==
    /\ stage[p] = "enterOtp" /\ reply[waitsFor[p]] = 201
    /\ registered' = [registered EXCEPT ![p] = @ \cup {Lower[submittedEmail[p]]}]
    /\ leaving' = [leaving EXCEPT ![p] = TRUE]
    /\ UNCHANGED <<stage, submittedEmail>>

\* An error status, or no answer from a process that crashed.
Refused(p) ==
    /\ reply[waitsFor[p]] \notin {200, 201}
    /\ UNCHANGED <<stage, submittedEmail, registered, leaving>>

\* Mutant: the button is enabled again on success only.
DeliverNoFinally(p) ==
    /\ waitsFor[p] # Null /\ pc[waitsFor[p]] = "idle"
    /\ IF reply[waitsFor[p]] \in {200, 201}
       THEN Done(p) ELSE UNCHANGED <<waitsFor, details>>
    /\ OtpSent(p) \/ Succeeded(p) \/ Refused(p)
    /\ UNCHANGED <<vars, mailbox>>

\* The handler has ended and its answer arrives.
Deliver(p) ==
    /\ waitsFor[p] # Null /\ pc[waitsFor[p]] = "idle"
    /\ Done(p)
    /\ OtpSent(p) \/ Succeeded(p) \/ Refused(p)
    /\ UNCHANGED <<vars, mailbox>>

\* The connection breaks while the handler runs on, or with its answer.
Lose(p) ==
    /\ waitsFor[p] # Null
    /\ Done(p)
    /\ UNCHANGED <<vars, stage, submittedEmail, registered, leaving, mailbox>>

\* setTimeout: whatever the page does by now, it is left.
Navigate(p) ==
    /\ leaving[p]
    /\ leaving' = [leaving EXCEPT ![p] = FALSE]
    /\ stage' = [stage EXCEPT ![p] = "left"]
    /\ submittedEmail' = [submittedEmail EXCEPT ![p] = Null]
    /\ Done(p)
    /\ UNCHANGED <<vars, registered, mailbox>>

-----------------------------------------------------------------------------
(* The server goes on.  A mail that was sent although sendMail reports a   *)
(* failure is not counted; its OTP may be submitted as a guess.            *)

Mail(r) ==
    mailbox' = IF pc[r] = "sendEmail" /\ reply'[r] = 200
               THEN [mailbox EXCEPT ![doc[r].email] = @ \cup {doc[r].otp}]
               ELSE mailbox

Serve(r) ==
    /\ Handler(r) /\ Mail(r)
    /\ UNCHANGED <<stage, details, submittedEmail, waitsFor, registered, leaving>>

Elsewhere ==
    /\ \/ \E r \in Request : Keygen(r)
       \/ Reap \/ Tick \/ Crash
    /\ UNCHANGED pageVars

PageNext ==
    \/ \E p \in Page, r \in Request :
          handleSubmitDetails(p, r) \/ handleSubmitOtp(p, r)
    \/ \E p \in Page : handleGoBack(p) \/ Deliver(p) \/ Lose(p) \/ Navigate(p)
    \/ \E r \in Request : Serve(r)
    \/ Elsewhere

PageSpec == PageInit /\ [][PageNext]_siteVars

\* Every promise a handler awaits settles (the driver, bcrypt and nodemailer have
\* time limits, execFile kills its child after 5 s), the operating system runs
\* the children, and an answer arrives or its connection is found broken.
\* Nothing is assumed of users, the clock, the TTL reaper or crashes.
FairPageSpec ==
    /\ PageSpec
    /\ \A r \in Request :
        WF_siteVars(Serve(r)) /\ WF_siteVars(Keygen(r) /\ UNCHANGED pageVars)
    /\ \A p \in Page : WF_siteVars(Deliver(p))

-----------------------------------------------------------------------------
(* Properties.                                                             *)

\* Whatever is retried, in whatever page, after whatever lost answer: an address
\* is reported registered at most once, and then it has its account
\* (Register.jsx:113-120 over authController.js:183-219).
SuccessOnce ==
    /\ \A p \in Page, a \in Member : a \in registered[p] => Registered(a)
    /\ \A p, q \in Page : p # q => registered[p] \cap registered[q] = {}
    /\ \A p \in Page : leaving[p] => registered[p] # {}

\* The OTP form is shown for an address only after an OTP was mailed to it,
\* whatever else the page and its slot were used for before ("An OTP has been
\* sent to", Register.jsx:192).
OtpIsInMail ==
    \A p \in Page : stage[p] = "enterOtp" => mailbox[Lower[submittedEmail[p]]] # {}

\* "Sending OTP..." and "Verifying..." always end, whatever fails on the server,
\* in the keygen process or in between (Register.jsx:89-91, 128-130).
SubmittingEnds == \A p \in Page : []<>(waitsFor[p] = Null)
=============================================================================
