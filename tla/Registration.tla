---------------------------- MODULE Registration ----------------------------
(***************************************************************************)
(* Two-step registration of server/controllers/authController.js, with the *)
(* key generation of server/utils/executeKeygen.js.  A request is one HTTP *)
(* request slot; every await of a handler is a place where the other       *)
(* requests, the keygen children, MongoDB's TTL reaper, the clock and a    *)
(* crash of the Node process may act.                                      *)
(***************************************************************************)
EXTENDS Integers, FiniteSets

CONSTANTS
    Address,        \* e-mail addresses as a client may type them
    Lower,          \* toLowerCase / normalizeEmail: [Address -> Address]
    Member,         \* the lower-case addresses that end in @iiita.ac.in
    Password,       \* passwords (a hash stands for the password it hides)
    OTP,            \* what crypto.randomInt may return
    Request,        \* slots for concurrently running HTTP requests
    Null,           \* null, undefined, nothing yet
    OtpLifetime,    \* OTP_EXPIRY_MINUTES
    TtlDelay,       \* delay of the TTL index behind expiresAt
    KeygenMayFail,  \* may the keygen child fail, be killed or time out?
    MaxTime,        \* bound on the clock
    MaxPending,     \* bound on PendingRegistration documents ever built
    MaxCrashes      \* bound on crashes of the Node process

ASSUME AddressAssumption ==
    /\ Lower \in [Address -> Address]
    /\ \A a \in Address : Lower[Lower[a]] = Lower[a]
    /\ Member \subseteq {a \in Address : Lower[a] = a}

ASSUME NullAssumption ==
    Null \notin Address \cup Password \cup OTP \cup Nat

ASSUME BoundAssumption ==
    /\ {OtpLifetime, TtlDelay, MaxTime, MaxPending, MaxCrashes} \subseteq Nat
    /\ KeygenMayFail \in BOOLEAN

VARIABLES
    pending,    \* collection pendingregistrations
    users,      \* collection users
    pc,         \* the await each request is suspended at
    req,        \* body of the request being handled
    doc,        \* pendingDoc / pending: the document the handler works on
    reply,      \* status of the last response sent on the slot
    child,      \* state of the slot's keygen process
    ident,      \* argv[1] of that process
    fd,         \* the file its stream is open on
    nativeKey,  \* <address>_private_key.dat in NATIVE_CRYPTO_DIR
    userKey,    \* <address>_private_key.dat in USER_KEYS_DIR
    now,        \* Date.now()
    nextId,     \* next fresh document _id
    crashes     \* crashes so far

dbVars      == <<pending, users>>
handlerVars == <<pc, req, doc, reply>>
keyVars     == <<child, ident, fd, nativeKey, userKey>>
clockVars   == <<now, nextId, crashes>>
vars        == <<dbVars, handlerVars, keyVars, clockVars>>

Pending == [id : Nat, email : Member, password : Password, otp : OTP,
            expiresAt : Nat]
User    == [email : Member, password : Password]
Body    == [email : Address, password : Password \cup {Null},
            otp : OTP \cup {Null}]
Status  == {200, 201, 400, 500}
File    == {"absent", "incomplete", "key"}

\* Awaits of initiateRegistration and of verifyRegistration / executeKeygen.
InitiateAwait == {"findUser", "deletePrevious", "hash", "save", "sendEmail"}
KeyAwait      == {"mkdir", "keygen", "unlink", "access", "install"}
FinishAwait   == {"saveUser", "deleteDuplicate", "deletePending"}
VerifyAwait   == {"findPending", "check", "deleteExpired"}
                    \cup KeyAwait \cup FinishAwait

TypeOK ==
    /\ pending \subseteq Pending
    /\ users \subseteq User
    /\ pc \in [Request -> {"idle"} \cup InitiateAwait \cup VerifyAwait]
    /\ req \in [Request -> Body \cup {Null}]
    /\ doc \in [Request -> Pending \cup {Null}]
    /\ reply \in [Request -> Status \cup {Null}]
    /\ child \in [Request -> {"none", "spawned", "opened", "written", "failed"}]
    /\ ident \in [Request -> Member \cup {Null}]
    /\ fd \in [Request -> {"none", "native", "keys", "gone"}]
    /\ nativeKey \in [Member -> File]
    /\ userKey \in [Member -> File]
    /\ now \in Nat
    /\ nextId \in Nat
    /\ crashes \in Nat

Init ==
    /\ pending = {}
    /\ users = {}
    /\ pc = [r \in Request |-> "idle"]
    /\ req = [r \in Request |-> Null]
    /\ doc = [r \in Request |-> Null]
    /\ reply = [r \in Request |-> Null]
    /\ child = [r \in Request |-> "none"]
    /\ ident = [r \in Request |-> Null]
    /\ fd = [r \in Request |-> "none"]
    /\ nativeKey = [a \in Member |-> "absent"]
    /\ userKey = [a \in Member |-> "absent"]
    /\ now = 0
    /\ nextId = 0
    /\ crashes = 0

-----------------------------------------------------------------------------
(* Handler bookkeeping.                                                    *)

\* The handler of r runs on to its next await, `await'.
Goto(r, await) ==
    /\ pc' = [pc EXCEPT ![r] = await]
    /\ UNCHANGED <<req, reply>>

\* res.status(status).json(...): the handler of r answers and ends.
Answer(r, status) ==
    /\ pc' = [pc EXCEPT ![r] = "idle"]
    /\ req' = [req EXCEPT ![r] = Null]
    /\ doc' = [doc EXCEPT ![r] = Null]
    /\ reply' = [reply EXCEPT ![r] = status]

\* Mutant: the address is used as typed.
emailAsTyped(r) == req[r].email

\* The canonical address a handler works with.
email(r) == Lower[req[r].email]

Registered(a) == \E u \in users : u.email = a

\* findByIdAndDelete(id) on pendingregistrations.
WithoutId(id) == {p \in pending : p.id # id}

\* A request reaches the server on a free slot.
Accept(r, body, await) ==
    /\ pc[r] = "idle"
    /\ child[r] = "none"
    /\ pc' = [pc EXCEPT ![r] = await]
    /\ req' = [req EXCEPT ![r] = body]
    /\ reply' = [reply EXCEPT ![r] = Null]
    /\ UNCHANGED <<doc, dbVars, keyVars, clockVars>>

-----------------------------------------------------------------------------
(* POST /api/auth/initiate-registration                                    *)

\* Validation and domain check pass; an address outside the domain is
\* refused with no effect, and is not worth a step.
Preparing == {r \in Request : pc[r] \in {"findUser", "deletePrevious", "hash"}}

StartInitiate(r) ==
    /\ nextId + Cardinality(Preparing) < MaxPending
    /\ \E a \in Address, pw \in Password :
        /\ Lower[a] \in Member
        /\ Accept(r, [email |-> a, password |-> pw, otp |-> Null], "findUser")

FindUser(r) ==
    /\ pc[r] = "findUser"
    /\ IF Registered(email(r))
       THEN Answer(r, 400)
       ELSE Goto(r, "deletePrevious") /\ UNCHANGED doc
    /\ UNCHANGED <<dbVars, keyVars, clockVars>>

\* An awaited write may take effect and still report an error: the handler
\* then takes its error path.
DeletePrevious(r) ==
    /\ pc[r] = "deletePrevious"
    /\ pending' = {p \in pending : p.email # email(r)}
    /\ \/ Goto(r, "hash") /\ UNCHANGED doc
       \/ Answer(r, 500)
    /\ UNCHANGED <<users, keyVars, clockVars>>

\* bcrypt is done: the OTP is drawn and the document built, all at once.
Prepare(r) ==
    /\ pc[r] = "hash"
    /\ \E otp \in OTP :
        doc' = [doc EXCEPT ![r] =
                  [id |-> nextId, email |-> email(r),
                   password |-> req[r].password, otp |-> otp,
                   expiresAt |-> now + OtpLifetime]]
    /\ nextId' = nextId + 1
    /\ Goto(r, "save")
    /\ UNCHANGED <<dbVars, keyVars, now, crashes>>

\* Mutant: pendingregistrations has no unique index.
SavePendingNoIndex(r) ==
    /\ pc[r] = "save"
    /\ pending' = pending \cup {doc[r]}
    /\ Goto(r, "sendEmail")
    /\ UNCHANGED <<doc, users, keyVars, clockVars>>

\* The unique index on email refuses a second document for the address.
SavePending(r) ==
    /\ pc[r] = "save"
    /\ IF \E p \in pending : p.email = doc[r].email
       THEN Answer(r, 500) /\ UNCHANGED pending
       ELSE /\ pending' = pending \cup {doc[r]}
            /\ \/ Goto(r, "sendEmail") /\ UNCHANGED doc
               \/ Answer(r, 500)
    /\ UNCHANGED <<users, keyVars, clockVars>>

SendEmail(r) ==
    /\ pc[r] = "sendEmail"
    /\ Answer(r, 200)
    /\ UNCHANGED <<dbVars, keyVars, clockVars>>

-----------------------------------------------------------------------------
(* POST /api/auth/verify-registration                                      *)

StartVerify(r) ==
    \E a \in Address, otp \in OTP :
        Accept(r, [email |-> a, password |-> Null, otp |-> otp], "findPending")

FindPending(r) ==
    /\ pc[r] = "findPending"
    /\ \/ \E p \in pending :
            /\ p.email = email(r)
            /\ doc' = [doc EXCEPT ![r] = p]
            /\ Goto(r, "check")
       \/ /\ \A p \in pending : p.email # email(r)
          /\ Answer(r, 400)
    /\ UNCHANGED <<dbVars, keyVars, clockVars>>

\* Mutant: the expiry check is lost.
CheckPendingNoExpiry(r) ==
    /\ pc[r] = "check"
    /\ \/ req[r].otp # doc[r].otp /\ Answer(r, 400)
       \/ req[r].otp = doc[r].otp /\ Goto(r, "mkdir") /\ UNCHANGED doc
    /\ UNCHANGED <<dbVars, keyVars, clockVars>>

\* The answer of findOne is in: expiry and OTP are checked on the copy.
CheckPending(r) ==
    /\ pc[r] = "check"
    /\ \/ /\ now > doc[r].expiresAt
          /\ Goto(r, "deleteExpired") /\ UNCHANGED doc
       \/ /\ now <= doc[r].expiresAt
          /\ req[r].otp # doc[r].otp
          /\ Answer(r, 400)
       \/ /\ now <= doc[r].expiresAt
          /\ req[r].otp = doc[r].otp
          /\ Goto(r, "mkdir") /\ UNCHANGED doc
    /\ UNCHANGED <<dbVars, keyVars, clockVars>>

\* Mutant: deleteOne({ email }) instead of findByIdAndDelete(_id).
DeleteExpiredByEmail(r) ==
    /\ pc[r] = "deleteExpired"
    /\ pending' = {p \in pending : p.email # doc[r].email}
    /\ Answer(r, 400)
    /\ UNCHANGED <<users, keyVars, clockVars>>

DeleteExpired(r) ==
    /\ pc[r] = "deleteExpired"
    /\ pending' = WithoutId(doc[r].id)
    /\ \/ Answer(r, 400)
       \/ Answer(r, 500)
    /\ UNCHANGED <<users, keyVars, clockVars>>

\* Mutant: users has no unique index.
SaveUserNoIndex(r) ==
    /\ pc[r] = "saveUser"
    /\ users' = users \cup {[email |-> doc[r].email,
                            password |-> doc[r].password]}
    /\ Goto(r, "deletePending")
    /\ UNCHANGED <<doc, pending, keyVars, clockVars>>

\* Mutant: code 11000 is taken for success.
SaveUserDuplicateOk(r) ==
    /\ pc[r] = "saveUser"
    /\ users' = IF Registered(doc[r].email) THEN users
                ELSE users \cup {[email |-> doc[r].email,
                                  password |-> doc[r].password]}
    /\ Goto(r, "deletePending")
    /\ UNCHANGED <<doc, pending, keyVars, clockVars>>

\* The User document carries the copy made before key generation.  The
\* unique index on email refuses a second account (code 11000).
SaveUser(r) ==
    /\ pc[r] = "saveUser"
    /\ IF Registered(doc[r].email)
       THEN Goto(r, "deleteDuplicate") /\ UNCHANGED <<doc, users>>
       ELSE /\ users' = users \cup {[email |-> doc[r].email,
                                     password |-> doc[r].password]}
            /\ \/ Goto(r, "deletePending") /\ UNCHANGED doc
               \/ Answer(r, 500)
    /\ UNCHANGED <<pending, keyVars, clockVars>>

DeleteDuplicate(r) ==
    /\ pc[r] = "deleteDuplicate"
    /\ pending' = WithoutId(doc[r].id)
    /\ \/ Answer(r, 400)
       \/ Answer(r, 500)
    /\ UNCHANGED <<users, keyVars, clockVars>>

\* Mutant: deleteOne({ email }) after success.
DeletePendingByEmail(r) ==
    /\ pc[r] = "deletePending"
    /\ \/ pending' = {p \in pending : p.email # doc[r].email}
       \/ UNCHANGED pending
    /\ Answer(r, 201)
    /\ UNCHANGED <<users, keyVars, clockVars>>

\* A failing delete is logged only.
DeletePending(r) ==
    /\ pc[r] = "deletePending"
    /\ \/ pending' = WithoutId(doc[r].id)
       \/ UNCHANGED pending
    /\ Answer(r, 201)
    /\ UNCHANGED <<users, keyVars, clockVars>>

\* An awaited call rejects without having had an effect.  Every such await
\* lies under a catch that answers 500.
MayReject == {"findUser", "deletePrevious", "hash", "save", "sendEmail",
              "findPending", "deleteExpired", "mkdir", "access", "install",
              "saveUser", "deleteDuplicate"}

CallRejected(r) ==
    /\ pc[r] \in MayReject
    /\ Answer(r, 500)
    /\ UNCHANGED <<dbVars, keyVars, clockVars>>

-----------------------------------------------------------------------------
(* executeKeygen, and the keygen process it starts.                        *)

\* mkdir is done; execFile starts the child.
SpawnKeygen(r) ==
    /\ pc[r] = "mkdir"
    /\ child' = [child EXCEPT ![r] = "spawned"]
    /\ ident' = [ident EXCEPT ![r] = doc[r].email]
    /\ Goto(r, "keygen")
    /\ UNCHANGED <<doc, fd, nativeKey, userKey, dbVars, clockVars>>

\* save_user_private_key: fopen(.., "wb") truncates the file in place.
KeygenOpen(r) ==
    /\ child[r] = "spawned"
    /\ child' = [child EXCEPT ![r] = "opened"]
    /\ fd' = [fd EXCEPT ![r] = "native"]
    /\ nativeKey' = [nativeKey EXCEPT ![ident[r]] = "incomplete"]
    /\ UNCHANGED <<ident, userKey, dbVars, handlerVars, clockVars>>

\* fwrite and fclose: the bytes go to the file that was opened, wherever it
\* has been moved since.  The key of an address is always the same bytes.
KeygenWrite(r) ==
    /\ child[r] = "opened"
    /\ child' = [child EXCEPT ![r] = "written"]
    /\ fd' = [fd EXCEPT ![r] = "none"]
    /\ nativeKey' = IF fd[r] = "native"
                    THEN [nativeKey EXCEPT ![ident[r]] = "key"] ELSE nativeKey
    /\ userKey' = IF fd[r] = "keys"
                  THEN [userKey EXCEPT ![ident[r]] = "key"] ELSE userKey
    /\ UNCHANGED <<ident, dbVars, handlerVars, clockVars>>

\* It cannot be started, calls DIE, or is killed by the 5 s timeout.
KeygenFail(r) ==
    /\ KeygenMayFail
    /\ child[r] \in {"spawned", "opened", "written"}
    /\ child' = [child EXCEPT ![r] = "failed"]
    /\ fd' = [fd EXCEPT ![r] = "none"]
    /\ UNCHANGED <<ident, nativeKey, userKey, dbVars, handlerVars, clockVars>>

\* The child is gone: the callback of execFile runs, if there is still a
\* handler to run it.
Exited(r) ==
    /\ child' = [child EXCEPT ![r] = "none"]
    /\ ident' = [ident EXCEPT ![r] = Null]
    /\ UNCHANGED <<doc, fd, nativeKey, userKey, dbVars, clockVars>>

\* Mutant: the callback does nothing after an error.
KeygenDoneNoReject(r) ==
    /\ pc[r] = "keygen"
    /\ child[r] = "written"
    /\ Goto(r, "access")
    /\ Exited(r)

\* Mutant: the path is returned before the file is moved there.
KeygenDoneUnmoved(r) ==
    /\ pc[r] = "keygen"
    /\ \/ child[r] = "written" /\ Goto(r, "saveUser")
       \/ child[r] = "failed"  /\ Goto(r, "unlink")
    /\ Exited(r)

KeygenDone(r) ==
    /\ pc[r] = "keygen"
    /\ \/ child[r] = "written" /\ Goto(r, "access")
       \/ child[r] = "failed"  /\ Goto(r, "unlink")
    /\ Exited(r)

OrphanExits(r) ==
    /\ pc[r] = "idle"
    /\ child[r] \in {"written", "failed"}
    /\ Exited(r)
    /\ UNCHANGED <<pc, req, reply>>

\* Clean-up after a failed keygen: fs.unlink(expectedKeyPath), whose error
\* is ignored, then reject.
Unlink(r) ==
    LET a == doc[r].email IN
    /\ pc[r] = "unlink"
    /\ \/ /\ userKey' = [userKey EXCEPT ![a] = "absent"]
          /\ fd' = [s \in Request |-> IF ident[s] = a /\ fd[s] = "keys"
                                      THEN "gone" ELSE fd[s]]
       \/ UNCHANGED <<userKey, fd>>
    /\ Answer(r, 500)
    /\ UNCHANGED <<child, ident, nativeKey, dbVars, clockVars>>

Access(r) ==
    /\ pc[r] = "access"
    /\ IF nativeKey[doc[r].email] = "absent"
       THEN Answer(r, 500)
       ELSE Goto(r, "install") /\ UNCHANGED doc
    /\ UNCHANGED <<dbVars, keyVars, clockVars>>

\* fs.rename replaces the old file; open streams follow their file.
AfterRename(a, s) ==
    IF ident[s] = a /\ fd[s] = "native" THEN "keys"
    ELSE IF ident[s] = a /\ fd[s] = "keys" THEN "gone"
    ELSE fd[s]

\* Mutant: copyFile instead of rename.
InstallCopy(r) ==
    LET a == doc[r].email IN
    /\ pc[r] = "install"
    /\ IF nativeKey[a] = "absent"
       THEN Answer(r, 500) /\ UNCHANGED keyVars
       ELSE /\ userKey' = [userKey EXCEPT ![a] = nativeKey[a]]
            /\ Goto(r, "saveUser")
            /\ UNCHANGED <<doc, child, ident, fd, nativeKey>>
    /\ UNCHANGED <<dbVars, clockVars>>

Install(r) ==
    LET a == doc[r].email IN
    /\ pc[r] = "install"
    /\ IF nativeKey[a] = "absent"
       THEN Answer(r, 500) /\ UNCHANGED keyVars
       ELSE /\ userKey' = [userKey EXCEPT ![a] = nativeKey[a]]
            /\ nativeKey' = [nativeKey EXCEPT ![a] = "absent"]
            /\ fd' = [s \in Request |-> AfterRename(a, s)]
            /\ Goto(r, "saveUser")
            /\ UNCHANGED <<doc, child, ident>>
    /\ UNCHANGED <<dbVars, clockVars>>

-----------------------------------------------------------------------------
(* The environment of the handlers.                                        *)

\* MongoDB's TTL reaper, TtlDelay after expiresAt at the earliest.
Reap ==
    \E p \in pending :
        /\ now >= p.expiresAt + TtlDelay
        /\ pending' = WithoutId(p.id)
        /\ UNCHANGED <<users, handlerVars, keyVars, clockVars>>

Tick ==
    /\ now < MaxTime
    /\ now' = now + 1
    /\ UNCHANGED <<dbVars, handlerVars, keyVars, nextId, crashes>>

\* The Node process dies and is restarted: handlers are lost, the database,
\* the files and the running keygen children stay.
Crash ==
    /\ crashes < MaxCrashes
    /\ \E r \in Request : pc[r] # "idle"
    /\ crashes' = crashes + 1
    /\ pc' = [r \in Request |-> "idle"]
    /\ req' = [r \in Request |-> Null]
    /\ doc' = [r \in Request |-> Null]
    /\ UNCHANGED <<reply, dbVars, keyVars, now, nextId>>

Handler(r) ==
    \/ FindUser(r) \/ DeletePrevious(r) \/ Prepare(r) \/ SavePending(r)
    \/ SendEmail(r) \/ FindPending(r) \/ CheckPending(r) \/ DeleteExpired(r)
    \/ SaveUser(r) \/ DeleteDuplicate(r) \/ DeletePending(r)
    \/ CallRejected(r)
    \/ SpawnKeygen(r) \/ KeygenDone(r) \/ Unlink(r) \/ Access(r) \/ Install(r)

Keygen(r) == KeygenOpen(r) \/ KeygenWrite(r) \/ KeygenFail(r) \/ OrphanExits(r)

Next ==
    \/ \E r \in Request :
        StartInitiate(r) \/ StartVerify(r) \/ Handler(r) \/ Keygen(r)
    \/ Reap \/ Tick \/ Crash

Spec == Init /\ [][Next]_vars

-----------------------------------------------------------------------------
(* What registration implements: the abstract specification Enrolment.  A  *)
(* pending document is an offer, a request between findOne and the check a *)
(* review, and a request from there until its save a granted offer.        *)

OfferOf(d) == [email |-> d.email, password |-> d.password, otp |-> d.otp,
               expiresAt |-> d.expiresAt]

Enrolment == INSTANCE Enrolment WITH
    Time     <- 0 .. (MaxTime + OtpLifetime),
    offers   <- {OfferOf(p) : p \in pending},
    reviews  <- {[offer |-> OfferOf(doc[r]), otp |-> req[r].otp] :
                    r \in {s \in Request : pc[s] = "check"}},
    granted  <- {OfferOf(doc[r]) :
                    r \in {s \in Request :
                            pc[s] \in KeyAwait \cup {"saveUser"}}},
    accounts <- users,
    clock    <- now

-----------------------------------------------------------------------------
(* Properties.                                                             *)

\* Registration does nothing that Enrolment forbids, however handlers,
\* keygen children, the reaper, the clock and crashes interleave.
ImplementsEnrolment == Enrolment!EnrolmentSpec

\* However registrations race, retry and crash, an address has at most one
\* account (the check of line 58 and the save of line 192 are awaits apart).
OneAccountPerAddress ==
    \A u, v \in users : u.email = v.email => u = v

\* However initiations race, an address has at most one OTP that counts.
OneOfferPerAddress ==
    \A p, q \in pending : p.email = q.email => p = q

\* A handler that is about to report success owns the account: it exists
\* with the password of the document whose OTP was checked, and no other
\* handler is about to report success for the same address.
WinnerOwnsAccount ==
    \A r \in Request : pc[r] = "deletePending" =>
        /\ [email |-> doc[r].email, password |-> doc[r].password] \in users
        /\ \A s \in Request \ {r} :
            pc[s] = "deletePending" => doc[s].email # doc[r].email

\* An OTP that still counts is lost only to a newer initiation for its address
\* or to the very verification it was submitted to, once the address has its
\* account (authController.js:66, 200, 212): a verification that fails or comes
\* late, one of an older OTP, a keygen failure or a crash never uses it up.
OfferStaysRedeemable ==
    [][\A p \in pending :
         p \notin pending' /\ now <= p.expiresAt =>
            \E r \in Request :
               \/ pc[r] = "deletePrevious" /\ email(r) = p.email
               \/ /\ pc[r] \in {"deleteDuplicate", "deletePending"}
                  /\ doc[r] = p
                  /\ Registered(p.email)]_vars

\* Every account's private key is in USER_KEYS_DIR, complete, or being
\* completed by a keygen process that has that very file open.
AccountHasKeyFile ==
    \A u \in users :
        \/ userKey[u.email] = "key"
        \/ /\ userKey[u.email] = "incomplete"
           /\ \E r \in Request :
                ident[r] = u.email /\ child[r] = "opened" /\ fd[r] = "keys"

\* "Store the path where the server saved the user's private key.  This allows
\* retrieval later" (User.js:21-22), and what is cleaned up is a "potentially
\* incomplete key file" (executeKeygen.js:40): no step removes the complete key
\* of an account.
AccountKeyStays ==
    [][\A u \in users :
         userKey[u.email] = "key" => userKey'[u.email] # "absent"]_vars

\* The inductive strengthening of AccountHasKeyFile, for keygen processes
\* that do not fail (executeKeygen.js:35-61, bls_ibe_util.c:164-180).
\* A process has a stream exactly while it is writing.
StreamsAreOpen ==
    \A r \in Request : child[r] = "opened" <=> fd[r] # "none"

\* A stream on a path has a file under that path.
StreamsHaveFiles ==
    \A r \in Request :
        /\ fd[r] = "native" => nativeKey[ident[r]] # "absent"
        /\ fd[r] = "keys" => userKey[ident[r]] # "absent"

\* An incomplete file has a process that will complete it.
IncompleteHasWriter ==
    \A a \in Member :
        /\ nativeKey[a] = "incomplete" =>
              \E r \in Request : ident[r] = a /\ fd[r] = "native"
        /\ userKey[a] = "incomplete" =>
              \E r \in Request : ident[r] = a /\ fd[r] = "keys"

\* An installed file stays, from before its account is saved.
InstalledStays ==
    /\ \A r \in Request :
        pc[r] = "saveUser" => userKey[doc[r].email] # "absent"
    /\ \A u \in users : userKey[u.email] # "absent"

NoKeygenFailure ==
    \A r \in Request : child[r] # "failed" /\ pc[r] # "unlink"

KeyInv ==
    /\ StreamsAreOpen
    /\ StreamsHaveFiles
    /\ IncompleteHasWriter
    /\ InstalledStays
    /\ NoKeygenFailure

\* Once no more keygen processes are started for a registered address, its
\* key file is completed and stays complete, whatever processes are still
\* writing and whatever handlers have still to rename.  (While verifications
\* of a live OTP keep coming, each may install a newly truncated file.)
KeyCompleted ==
    \A a \in Member :
        <>[](Registered(a) /\ \A r \in Request :
                                pc[r] = "mkdir" => doc[r].email # a)
            => <>[](userKey[a] = "key")

=============================================================================
