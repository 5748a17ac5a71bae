------------------------- MODULE RegistrationProofs -------------------------
(***************************************************************************)
(* What holds of Registration for every value of its constants.            *)
(***************************************************************************)
EXTENDS Registration, TLAPS

\* Awaits at which the handler holds a document.
DocAwait == {"save", "sendEmail", "check", "deleteExpired"}
                \cup KeyAwait \cup FinishAwait

\* What each handler and each keygen process holds while it is suspended.
LocalsOK ==
    /\ \A r \in Preparing :
        /\ req[r] \in Body
        /\ Lower[req[r].email] \in Member
        /\ req[r].password \in Password
    /\ \A r \in Request : pc[r] \in DocAwait => doc[r] \in Pending
    /\ \A r \in Request : child[r] # "none" => ident[r] \in Member
    /\ \A r \in Request : pc[r] \notin {"idle", "keygen"} => child[r] = "none"

TypeInv == TypeOK /\ LocalsOK

USE DEF dbVars, handlerVars, keyVars, clockVars, InitiateAwait, VerifyAwait,
        KeyAwait, FinishAwait, DocAwait, Preparing

LEMMA TypeInit == Init => TypeInv
  BY AddressAssumption, BoundAssumption
     DEF Init, TypeInv, TypeOK, LocalsOK, Status, File

\* The steps of initiateRegistration, of verifyRegistration, of
\* executeKeygen, of the keygen process, and of everything else.
InitiateStep(r) ==
    \/ StartInitiate(r) \/ FindUser(r) \/ DeletePrevious(r)
    \/ Prepare(r) \/ SavePending(r) \/ SendEmail(r)

VerifyStep(r) ==
    \/ StartVerify(r) \/ FindPending(r) \/ CheckPending(r)
    \/ DeleteExpired(r) \/ SaveUser(r) \/ DeleteDuplicate(r)
    \/ DeletePending(r) \/ CallRejected(r)

KeyStep(r) ==
    SpawnKeygen(r) \/ KeygenDone(r) \/ Unlink(r) \/ Access(r) \/ Install(r)

OtherStep == Reap \/ Tick \/ Crash \/ UNCHANGED vars

LEMMA NextCases ==
  ASSUME [Next]_vars
  PROVE  \/ \E r \in Request : \/ InitiateStep(r) \/ VerifyStep(r)
                               \/ KeyStep(r) \/ Keygen(r)
         \/ OtherStep
  BY DEF Next, Handler, InitiateStep, VerifyStep, KeyStep, OtherStep

LEMMA TypeInitiate ==
  ASSUME TypeInv, NEW r \in Request, InitiateStep(r)
  PROVE  TypeInv'
<1> USE AddressAssumption, BoundAssumption
        DEF TypeInv, TypeOK, LocalsOK, Status
<1>1. CASE StartInitiate(r)
  BY <1>1 DEF StartInitiate, Accept, Body
<1>2. CASE FindUser(r)
  BY <1>2 DEF FindUser, Goto, Answer
<1>3. CASE DeletePrevious(r)
  BY <1>3 DEF DeletePrevious, Goto, Answer
<1>4. CASE Prepare(r)
  BY <1>4 DEF Prepare, Goto, Pending, email
<1>5. CASE SavePending(r)
  BY <1>5 DEF SavePending, Goto, Answer
<1>6. CASE SendEmail(r)
  BY <1>6 DEF SendEmail, Answer
<1> QED
  BY <1>1, <1>2, <1>3, <1>4, <1>5, <1>6 DEF InitiateStep

LEMMA TypeVerify ==
  ASSUME TypeInv, NEW r \in Request, VerifyStep(r)
  PROVE  TypeInv'
<1> USE AddressAssumption, BoundAssumption
        DEF TypeInv, TypeOK, LocalsOK, Status
<1>1. CASE StartVerify(r)
  BY <1>1 DEF StartVerify, Accept, Body
<1>2. CASE FindPending(r)
  BY <1>2 DEF FindPending, Goto, Answer
<1>3. CASE CheckPending(r)
  BY <1>3, SMTT(30) DEF CheckPending, Goto, Answer
<1>4. CASE DeleteExpired(r)
  BY <1>4, SMTT(30) DEF DeleteExpired, WithoutId, Answer
<1>5. CASE SaveUser(r)
  <2>1. [email |-> doc[r].email, password |-> doc[r].password] \in User
    BY <1>5 DEF SaveUser, User, Pending
  <2>2. users' \subseteq User
    BY <1>5, <2>1 DEF SaveUser
  <2> QED
    BY <1>5, <2>2, SMTT(30) DEF SaveUser, Goto, Answer
<1>6. CASE DeleteDuplicate(r)
  BY <1>6 DEF DeleteDuplicate, WithoutId, Answer
<1>7. CASE DeletePending(r)
  BY <1>7 DEF DeletePending, WithoutId, Answer
<1>8. CASE CallRejected(r)
  BY <1>8 DEF CallRejected, MayReject, Answer
<1> QED
  BY <1>1, <1>2, <1>3, <1>4, <1>5, <1>6, <1>7, <1>8 DEF VerifyStep

LEMMA TypeKey ==
  ASSUME TypeInv, NEW r \in Request, KeyStep(r)
  PROVE  TypeInv'
<1> USE AddressAssumption, BoundAssumption
        DEF TypeInv, TypeOK, LocalsOK, Status
<1>1. CASE SpawnKeygen(r)
  BY <1>1 DEF SpawnKeygen, Goto, Pending
<1>2. CASE KeygenDone(r)
  BY <1>2 DEF KeygenDone, Exited, Goto
<1>3. CASE Unlink(r)
  BY <1>3 DEF Unlink, Answer, Pending, File
<1>4. CASE Access(r)
  BY <1>4 DEF Access, Goto, Answer
<1>5. CASE Install(r)
  <2>1. \A a, s : fd[s] \in {"none", "native", "keys", "gone"} =>
            AfterRename(a, s) \in {"none", "native", "keys", "gone"}
    BY DEF AfterRename
  <2>2. fd' \in [Request -> {"none", "native", "keys", "gone"}]
    BY <1>5, <2>1 DEF Install
  <2>3. nativeKey' \in [Member -> File] /\ userKey' \in [Member -> File]
    BY <1>5 DEF Install, Pending, File
  <2> QED
    BY <1>5, <2>2, <2>3 DEF Install, Goto, Answer
<1> QED
  BY <1>1, <1>2, <1>3, <1>4, <1>5 DEF KeyStep

LEMMA TypeKeygen ==
  ASSUME TypeInv, NEW r \in Request, Keygen(r)
  PROVE  TypeInv'
<1> USE AddressAssumption, BoundAssumption
        DEF TypeInv, TypeOK, LocalsOK, Status
<1>1. CASE KeygenOpen(r)
  BY <1>1 DEF KeygenOpen, File
<1>2. CASE KeygenWrite(r)
  BY <1>2 DEF KeygenWrite, File
<1>3. CASE KeygenFail(r)
  BY <1>3 DEF KeygenFail
<1>4. CASE OrphanExits(r)
  BY <1>4 DEF OrphanExits, Exited
<1> QED
  BY <1>1, <1>2, <1>3, <1>4 DEF Keygen

LEMMA TypeOther ==
  ASSUME TypeInv, OtherStep
  PROVE  TypeInv'
<1> USE AddressAssumption, BoundAssumption
        DEF TypeInv, TypeOK, LocalsOK, Status
<1>1. CASE Reap
  BY <1>1 DEF Reap, WithoutId
<1>2. CASE Tick
  BY <1>2 DEF Tick
<1>3. CASE Crash
  BY <1>3 DEF Crash
<1>4. CASE UNCHANGED vars
  BY <1>4 DEF vars
<1> QED
  BY <1>1, <1>2, <1>3, <1>4 DEF OtherStep

LEMMA TypeStep == TypeInv /\ [Next]_vars => TypeInv'
  BY NextCases, TypeInitiate, TypeVerify, TypeKey, TypeKeygen, TypeOther

\* Every variable keeps its type: only members' addresses reach the
\* collections, and no handler uses a document it does not hold.
THEOREM TypeCorrect == Spec => []TypeOK
<1>1. TypeInv => TypeOK
  BY DEF TypeInv
<1> QED
  BY TypeInit, TypeStep, <1>1, PTL DEF Spec

-----------------------------------------------------------------------------
(* Uniqueness, and who may report success.                                 *)

UniqueInv == OneAccountPerAddress /\ OneOfferPerAddress /\ WinnerOwnsAccount

\* Only SaveUser adds an account, and only for an address without one.
LEMMA AccountsStep ==
  ASSUME TypeInv, [Next]_vars
  PROVE  \/ users' = users
         \/ \E r \in Request :
               /\ pc[r] = "saveUser"
               /\ ~Registered(doc[r].email)
               /\ users' = users \cup {[email |-> doc[r].email,
                                        password |-> doc[r].password]}
<1>1. ASSUME NEW r \in Request, InitiateStep(r)
      PROVE  users' = users
  BY <1>1 DEF InitiateStep, StartInitiate, Accept, FindUser, DeletePrevious,
              Prepare, SavePending, SendEmail
<1>2. ASSUME NEW r \in Request, VerifyStep(r)
      PROVE  SaveUser(r) \/ users' = users
  BY <1>2 DEF VerifyStep, StartVerify, Accept, FindPending, CheckPending,
              DeleteExpired, DeleteDuplicate, DeletePending, CallRejected
<1>3. ASSUME NEW r \in Request, KeyStep(r)
      PROVE  users' = users
  BY <1>3 DEF KeyStep, SpawnKeygen, KeygenDone, Exited, Unlink, Access, Install
<1>4. ASSUME NEW r \in Request, Keygen(r)
      PROVE  users' = users
  BY <1>4 DEF Keygen, KeygenOpen, KeygenWrite, KeygenFail, OrphanExits, Exited
<1>5. OtherStep => users' = users
  BY DEF OtherStep, Reap, Tick, Crash, vars
<1> QED
  BY NextCases, <1>1, <1>2, <1>3, <1>4, <1>5 DEF SaveUser

\* A step saves at most one document, for an address without one, and
\* otherwise only deletes.
LEMMA OffersStep ==
  ASSUME TypeInv, [Next]_vars
  PROVE  \/ pending' \subseteq pending
         \/ \E r \in Request :
               /\ \A p \in pending : p.email # doc[r].email
               /\ pending' = pending \cup {doc[r]}
<1>1. ASSUME NEW r \in Request, InitiateStep(r)
      PROVE  SavePending(r) \/ pending' \subseteq pending
  BY <1>1 DEF InitiateStep, StartInitiate, Accept, FindUser, DeletePrevious,
              Prepare, SendEmail
<1>2. ASSUME NEW r \in Request, VerifyStep(r)
      PROVE  pending' \subseteq pending
  BY <1>2 DEF VerifyStep, StartVerify, Accept, FindPending, CheckPending,
              DeleteExpired, DeleteDuplicate, DeletePending, CallRejected,
              SaveUser, WithoutId
<1>3. ASSUME NEW r \in Request, KeyStep(r)
      PROVE  pending' \subseteq pending
  BY <1>3 DEF KeyStep, SpawnKeygen, KeygenDone, Exited, Unlink, Access, Install
<1>4. ASSUME NEW r \in Request, Keygen(r)
      PROVE  pending' \subseteq pending
  BY <1>4 DEF Keygen, KeygenOpen, KeygenWrite, KeygenFail, OrphanExits, Exited
<1>5. OtherStep => pending' \subseteq pending
  BY DEF OtherStep, Reap, Tick, Crash, WithoutId, vars
<1> QED
  BY NextCases, <1>1, <1>2, <1>3, <1>4, <1>5 DEF SavePending

\* A handler gets to the last await only by saving the account itself, and
\* keeps its document there.
LEMMA WinnerStep ==
  ASSUME TypeInv, [Next]_vars, NEW w \in Request, pc'[w] = "deletePending"
  PROVE  \/ pc[w] = "deletePending" /\ doc'[w] = doc[w]
         \/ SaveUser(w)
<1> USE DEF TypeInv, TypeOK
<1>1. ASSUME NEW r \in Request, InitiateStep(r)
      PROVE  pc[w] = "deletePending" /\ doc'[w] = doc[w]
  BY <1>1 DEF InitiateStep, StartInitiate, Accept, FindUser, DeletePrevious,
              Prepare, SavePending, SendEmail, Goto, Answer
<1>2. ASSUME NEW r \in Request, VerifyStep(r), ~SaveUser(w)
      PROVE  pc[w] = "deletePending" /\ doc'[w] = doc[w]
  BY <1>2 DEF VerifyStep, StartVerify, Accept, FindPending, CheckPending,
              DeleteExpired, DeleteDuplicate, DeletePending, CallRejected,
              SaveUser, Goto, Answer
<1>3. ASSUME NEW r \in Request, KeyStep(r)
      PROVE  pc[w] = "deletePending" /\ doc'[w] = doc[w]
  BY <1>3 DEF KeyStep, SpawnKeygen, KeygenDone, Exited, Unlink, Access,
              Install, Goto, Answer
<1>4. ASSUME NEW r \in Request, Keygen(r)
      PROVE  pc[w] = "deletePending" /\ doc'[w] = doc[w]
  BY <1>4 DEF Keygen, KeygenOpen, KeygenWrite, KeygenFail, OrphanExits, Exited
<1>5. OtherStep => pc[w] = "deletePending" /\ doc'[w] = doc[w]
  BY DEF OtherStep, Reap, Tick, Crash, vars
<1> QED
  BY NextCases, <1>1, <1>2, <1>3, <1>4, <1>5

LEMMA UniqueStep ==
  ASSUME TypeInv, UniqueInv, [Next]_vars
  PROVE  UniqueInv'
<1> DEFINE Account(r) == [email |-> doc[r].email, password |-> doc[r].password]
<1>1. OneAccountPerAddress'
  BY AccountsStep DEF UniqueInv, OneAccountPerAddress, Registered
<1>2. OneOfferPerAddress'
  BY OffersStep DEF UniqueInv, OneOfferPerAddress
<1>3. users \subseteq users'
  BY AccountsStep
<1>4. ASSUME NEW w \in Request, pc'[w] = "deletePending"
      PROVE  Account(w)' \in users'
  BY <1>3, <1>4, WinnerStep DEF UniqueInv, WinnerOwnsAccount, SaveUser, Goto, Answer, TypeInv, TypeOK
<1>5. ASSUME NEW w \in Request, NEW s \in Request \ {w},
             pc'[w] = "deletePending", pc'[s] = "deletePending"
      PROVE  doc'[s].email # doc'[w].email
  <2>1. CASE SaveUser(w)
    <3>1. /\ ~Registered(doc[w].email) /\ doc' = doc /\ pc[s] = "deletePending"
      BY <1>5, <2>1 DEF SaveUser, Goto, Answer, TypeInv, TypeOK
    <3>2. Account(s) \in users
      BY <3>1 DEF UniqueInv, WinnerOwnsAccount
    <3> QED
      BY <3>1, <3>2 DEF Registered
  <2>2. CASE SaveUser(s)
    <3>1. /\ ~Registered(doc[s].email) /\ doc' = doc /\ pc[w] = "deletePending"
      BY <1>5, <2>2 DEF SaveUser, Goto, Answer, TypeInv, TypeOK
    <3>2. Account(w) \in users
      BY <3>1 DEF UniqueInv, WinnerOwnsAccount
    <3> QED
      BY <3>1, <3>2 DEF Registered
  <2>3. CASE ~SaveUser(w) /\ ~SaveUser(s)
    BY <1>5, <2>3, WinnerStep DEF UniqueInv, WinnerOwnsAccount
  <2> QED
    BY <2>1, <2>2, <2>3
<1> QED
  BY <1>1, <1>2, <1>4, <1>5 DEF UniqueInv, WinnerOwnsAccount

\* However requests race, retry and crash: one account and one OTP that
\* counts for an address, and the handler that reports success is the only
\* one and owns the account.
THEOREM Uniqueness ==
  Spec => [](OneAccountPerAddress /\ OneOfferPerAddress /\ WinnerOwnsAccount)
<1>1. Init => UniqueInv
  BY DEF Init, UniqueInv, OneAccountPerAddress, OneOfferPerAddress,
         WinnerOwnsAccount
<1>2. TypeInv /\ UniqueInv /\ [Next]_vars => UniqueInv'
  BY UniqueStep
<1> QED
  BY TypeInit, TypeStep, <1>1, <1>2, PTL DEF Spec, UniqueInv

-----------------------------------------------------------------------------
(* The key file of an account, when keygen processes do not fail.          *)

\* Steps that touch neither processes nor files keep KeyInv, unless they
\* enter saveUser or unlink, or add an account without a file.
LEMMA KeyFrame ==
  ASSUME TypeInv, KeyInv, UNCHANGED keyVars,
         \A r \in Request :
            /\ pc'[r] # "unlink"
            /\ pc'[r] = "saveUser" => pc[r] = "saveUser" /\ doc'[r] = doc[r],
         \A u \in users' : userKey[u.email] # "absent"
  PROVE  KeyInv'
  BY DEF KeyInv, StreamsAreOpen, StreamsHaveFiles, IncompleteHasWriter,
         InstalledStays, NoKeygenFailure

LEMMA KeyInitiate ==
  ASSUME TypeInv, KeyInv, NEW r \in Request, InitiateStep(r)
  PROVE  KeyInv'
<1>1. UNCHANGED <<keyVars, users>>
  BY DEF InitiateStep, StartInitiate, Accept, FindUser, DeletePrevious,
         Prepare, SavePending, SendEmail
<1>2. \A s \in Request :
        /\ pc'[s] # "unlink"
        /\ pc'[s] = "saveUser" => pc[s] = "saveUser" /\ doc'[s] = doc[s]
  BY DEF InitiateStep, StartInitiate, Accept, FindUser, DeletePrevious,
         Prepare, SavePending, SendEmail, Goto, Answer, TypeInv, TypeOK,
         KeyInv, NoKeygenFailure
<1> QED
  BY <1>1, <1>2, KeyFrame DEF KeyInv, InstalledStays

LEMMA KeyVerify ==
  ASSUME TypeInv, KeyInv, NEW r \in Request, VerifyStep(r)
  PROVE  KeyInv'
<1>1. UNCHANGED keyVars
  BY DEF VerifyStep, StartVerify, Accept, FindPending, CheckPending,
         DeleteExpired, DeleteDuplicate, DeletePending, CallRejected, SaveUser
<1>2. \A s \in Request :
        /\ pc'[s] # "unlink"
        /\ pc'[s] = "saveUser" => pc[s] = "saveUser" /\ doc'[s] = doc[s]
  BY DEF VerifyStep, StartVerify, Accept, FindPending, CheckPending,
         DeleteExpired, DeleteDuplicate, DeletePending, CallRejected, SaveUser,
         Goto, Answer, TypeInv, TypeOK, KeyInv, NoKeygenFailure
<1>3. \A u \in users' : userKey[u.email] # "absent"
  BY DEF VerifyStep, StartVerify, Accept, FindPending, CheckPending,
         DeleteExpired, DeleteDuplicate, DeletePending, CallRejected, SaveUser,
         KeyInv, InstalledStays
<1> QED
  BY <1>1, <1>2, <1>3, KeyFrame

LEMMA KeyOther ==
  ASSUME TypeInv, KeyInv, OtherStep
  PROVE  KeyInv'
<1>1. UNCHANGED <<keyVars, users>>
  BY DEF OtherStep, Reap, Tick, Crash, vars
<1>2. \A s \in Request :
        /\ pc'[s] # "unlink"
        /\ pc'[s] = "saveUser" => pc[s] = "saveUser" /\ doc'[s] = doc[s]
  BY DEF OtherStep, Reap, Tick, Crash, vars, TypeInv, TypeOK,
         KeyInv, NoKeygenFailure
<1> QED
  BY <1>1, <1>2, KeyFrame DEF KeyInv, InstalledStays

\* fopen truncates the file of its own address: a file that becomes
\* incomplete has the new stream on it.
LEMMA KeyOpen ==
  ASSUME TypeInv, KeyInv, NEW r \in Request, KeygenOpen(r)
  PROVE  KeyInv'
<1> USE DEF KeygenOpen, TypeInv, TypeOK, LocalsOK, KeyInv
<1>1. StreamsAreOpen'
  BY DEF StreamsAreOpen
<1>2. StreamsHaveFiles'
  BY DEF StreamsHaveFiles
<1>3. IncompleteHasWriter'
  BY DEF IncompleteHasWriter, StreamsAreOpen
<1>4. InstalledStays' /\ NoKeygenFailure'
  BY DEF InstalledStays, NoKeygenFailure
<1> QED
  BY <1>1, <1>2, <1>3, <1>4

\* The write completes the file its stream is on: no other writer of that
\* file is needed any more.
LEMMA KeyWrite ==
  ASSUME TypeInv, KeyInv, NEW r \in Request, KeygenWrite(r)
  PROVE  KeyInv'
<1> USE DEF KeygenWrite, TypeInv, TypeOK, LocalsOK, KeyInv
<1>1. StreamsAreOpen'
  BY DEF StreamsAreOpen
<1>2. StreamsHaveFiles'
  BY DEF StreamsHaveFiles
<1>3. IncompleteHasWriter'
  BY DEF IncompleteHasWriter
<1>4. InstalledStays' /\ NoKeygenFailure'
  BY DEF InstalledStays, NoKeygenFailure, Pending, User
<1> QED
  BY <1>1, <1>2, <1>3, <1>4

\* A process that ends has no stream left.
LEMMA KeyExit ==
  ASSUME TypeInv, KeyInv, NEW r \in Request, KeygenDone(r) \/ OrphanExits(r)
  PROVE  KeyInv'
<1> USE DEF TypeInv, TypeOK, KeyInv
<1>1. child[r] = "written" /\ fd[r] = "none"
  BY DEF KeygenDone, OrphanExits, NoKeygenFailure, StreamsAreOpen
<1>2. /\ child' = [child EXCEPT ![r] = "none"]
      /\ ident' = [ident EXCEPT ![r] = Null]
      /\ UNCHANGED <<doc, fd, nativeKey, userKey, users>>
  BY DEF KeygenDone, OrphanExits, Exited
<1>3. StreamsAreOpen' /\ StreamsHaveFiles' /\ IncompleteHasWriter'
  BY <1>1, <1>2 DEF StreamsAreOpen, StreamsHaveFiles, IncompleteHasWriter
<1>4. InstalledStays' /\ NoKeygenFailure'
  BY <1>1, <1>2 DEF InstalledStays, NoKeygenFailure, KeygenDone, OrphanExits,
                    Goto
<1> QED
  BY <1>3, <1>4

\* The rename takes an incomplete file along with its writers.
LEMMA KeyInstall ==
  ASSUME TypeInv, KeyInv, NEW r \in Request, Install(r)
  PROVE  KeyInv'
<1> USE DEF TypeInv, TypeOK, KeyInv
<1> DEFINE a == doc[r].email
<1>1. CASE nativeKey[a] = "absent"
  <2>1. /\ UNCHANGED <<keyVars, users>>
        /\ pc' = [pc EXCEPT ![r] = "idle"] /\ doc' = [doc EXCEPT ![r] = Null]
    BY <1>1 DEF Install, Answer
  <2> QED
    BY <2>1, KeyFrame DEF InstalledStays, NoKeygenFailure
<1>2. CASE nativeKey[a] # "absent"
  <2>1. /\ a \in Member
        /\ userKey' = [userKey EXCEPT ![a] = nativeKey[a]]
        /\ nativeKey' = [nativeKey EXCEPT ![a] = "absent"]
        /\ pc' = [pc EXCEPT ![r] = "saveUser"]
        /\ UNCHANGED <<doc, child, ident, users>>
    BY <1>2 DEF Install, Goto, LocalsOK, Pending
  <2>2. \A s \in Request :
          /\ ident[s] # a => fd'[s] = fd[s]
          /\ ident[s] = a /\ fd[s] = "native" => fd'[s] = "keys"
          /\ ident[s] = a /\ fd[s] = "keys" => fd'[s] = "gone"
          /\ fd[s] \notin {"native", "keys"} => fd'[s] = fd[s]
    <3>1. fd' = [s \in Request |-> AfterRename(a, s)]
      BY <1>2 DEF Install
    <3> QED
      BY <3>1 DEF AfterRename
  <2>3. StreamsAreOpen'
    BY <2>1, <2>2 DEF StreamsAreOpen
  <2>4. StreamsHaveFiles'
    BY <1>2, <2>1, <2>2 DEF StreamsHaveFiles
  <2>5. IncompleteHasWriter'
    <3> SUFFICES ASSUME NEW b \in Member
                 PROVE  /\ nativeKey'[b] = "incomplete" =>
                            \E s \in Request : ident'[s] = b /\ fd'[s] = "native"
                        /\ userKey'[b] = "incomplete" =>
                            \E s \in Request : ident'[s] = b /\ fd'[s] = "keys"
      BY DEF IncompleteHasWriter
    <3>1. CASE b = a
      BY <3>1, <2>1, <2>2 DEF IncompleteHasWriter
    <3>2. CASE b # a
      <4>1. nativeKey'[b] = nativeKey[b] /\ userKey'[b] = userKey[b]
        BY <3>2, <2>1
      <4> QED
        BY <3>2, <4>1, <2>1, <2>2 DEF IncompleteHasWriter
    <3> QED
      BY <3>1, <3>2
  <2>6. InstalledStays'
    BY <1>2, <2>1 DEF InstalledStays
  <2>7. NoKeygenFailure'
    BY <2>1 DEF NoKeygenFailure
  <2> QED
    BY <2>3, <2>4, <2>5, <2>6, <2>7
<1> QED
  BY <1>1, <1>2

LEMMA KeyKey ==
  ASSUME TypeInv, KeyInv, NEW r \in Request, KeyStep(r)
  PROVE  KeyInv'
<1> USE DEF TypeInv, TypeOK, KeyInv
<1>1. CASE SpawnKeygen(r)
  <2>1. child[r] = "none" /\ fd[r] = "none"
    BY <1>1 DEF SpawnKeygen, LocalsOK, StreamsAreOpen
  <2>2. /\ child' = [child EXCEPT ![r] = "spawned"]
        /\ ident' = [ident EXCEPT ![r] = doc[r].email]
        /\ UNCHANGED <<fd, nativeKey, userKey>>
    BY <1>1 DEF SpawnKeygen
  <2>3. StreamsAreOpen' /\ StreamsHaveFiles' /\ IncompleteHasWriter'
    BY <2>1, <2>2 DEF StreamsAreOpen, StreamsHaveFiles, IncompleteHasWriter
  <2>4. InstalledStays' /\ NoKeygenFailure'
    BY <1>1 DEF SpawnKeygen, Goto, InstalledStays, NoKeygenFailure
  <2> QED
    BY <2>3, <2>4
<1>2. CASE KeygenDone(r)
  BY <1>2, KeyExit
<1>3. ~Unlink(r)
  BY DEF Unlink, NoKeygenFailure
<1>4. CASE Access(r)
  <2>1. UNCHANGED <<keyVars, users>>
    BY <1>4 DEF Access
  <2>2. \A s \in Request :
          /\ pc'[s] # "unlink"
          /\ pc'[s] = "saveUser" => pc[s] = "saveUser" /\ doc'[s] = doc[s]
    BY <1>4 DEF Access, Goto, Answer, NoKeygenFailure
  <2> QED
    BY <2>1, <2>2, KeyFrame DEF InstalledStays
<1>5. CASE Install(r)
  BY <1>5, KeyInstall
<1> QED
  BY <1>1, <1>2, <1>3, <1>4, <1>5 DEF KeyStep

LEMMA KeyKeygen ==
  ASSUME ~KeygenMayFail, TypeInv, KeyInv, NEW r \in Request, Keygen(r)
  PROVE  KeyInv'
  BY KeyOpen, KeyWrite, KeyExit DEF Keygen, KeygenFail

LEMMA KeyInvStep ==
  (~KeygenMayFail /\ TypeInv /\ KeyInv) /\ [Next]_vars => KeyInv'
  BY NextCases, KeyInitiate, KeyVerify, KeyKey, KeyKeygen, KeyOther

LEMMA KeyInvImplies ==
  ASSUME TypeInv, KeyInv
  PROVE  AccountHasKeyFile
<1> SUFFICES ASSUME NEW u \in users, userKey[u.email] # "key"
             PROVE  /\ userKey[u.email] = "incomplete"
                    /\ \E r \in Request : /\ ident[r] = u.email
                                          /\ child[r] = "opened"
                                          /\ fd[r] = "keys"
  BY DEF AccountHasKeyFile
<1>1. u.email \in Member
  BY DEF TypeInv, TypeOK, User
<1>2. userKey[u.email] = "incomplete"
  BY <1>1 DEF TypeInv, TypeOK, File, KeyInv, InstalledStays
<1>3. PICK r \in Request : ident[r] = u.email /\ fd[r] = "keys"
  BY <1>1, <1>2 DEF KeyInv, IncompleteHasWriter
<1> QED
  BY <1>2, <1>3 DEF KeyInv, StreamsAreOpen

\* If keygen processes do not fail, every account's private key is where
\* executeKeygen said it is, complete or being completed, whatever else
\* races, fails or crashes.
THEOREM KeyFiles == Spec => [](~KeygenMayFail => KeyInv /\ AccountHasKeyFile)
<1>1. Init => KeyInv
  BY DEF Init, KeyInv, StreamsAreOpen, StreamsHaveFiles, IncompleteHasWriter,
         InstalledStays, NoKeygenFailure
<1>2. TypeInv /\ (~KeygenMayFail => KeyInv) /\ [Next]_vars
        => (~KeygenMayFail => KeyInv)'
  BY KeyInvStep
<1>3. TypeInv /\ (~KeygenMayFail => KeyInv)
        => (~KeygenMayFail => KeyInv /\ AccountHasKeyFile)
  BY KeyInvImplies
<1> QED
  BY TypeInit, TypeStep, <1>1, <1>2, <1>3, PTL DEF Spec

\* The parts of the two theorems above that runs check on their own.
THEOREM OneAccount == Spec => []OneAccountPerAddress
  BY Uniqueness, PTL

THEOREM OneOffer == Spec => []OneOfferPerAddress
  BY Uniqueness, PTL

\* KeyInv is inductive while keygen processes do not fail.
THEOREM KeyInvariant == Spec => [](~KeygenMayFail => KeyInv)
<1>1. (~KeygenMayFail => KeyInv /\ AccountHasKeyFile) => (~KeygenMayFail => KeyInv)
  OBVIOUS
<1> QED
  BY <1>1, KeyFiles, PTL

\* No handler cleans up after a keygen it started for an address that has its
\* account by now.
CleansBeforeAccount ==
    \A r \in Request : pc[r] = "unlink" => ~Registered(doc[r].email)

\* What a step may do to the key file of an account.
LEMMA KeyStaysStep ==
  ASSUME TypeInv, CleansBeforeAccount, [Next]_vars,
         NEW u \in users, userKey[u.email] = "key"
  PROVE  userKey'[u.email] # "absent"
<1> USE DEF TypeInv, TypeOK, User
<1>1. ASSUME NEW r \in Request, InitiateStep(r) \/ VerifyStep(r)
      PROVE  userKey' = userKey
  BY <1>1 DEF InitiateStep, StartInitiate, Accept, FindUser, DeletePrevious,
              Prepare, SavePending, SendEmail, VerifyStep, StartVerify,
              FindPending, CheckPending, DeleteExpired, DeleteDuplicate,
              DeletePending, CallRejected, SaveUser, keyVars
<1>2. ASSUME NEW r \in Request, Unlink(r)
      PROVE  userKey'[u.email] = userKey[u.email]
  BY <1>2 DEF Unlink, CleansBeforeAccount, Registered
<1>3. ASSUME NEW r \in Request, KeyStep(r), ~Unlink(r)
      PROVE  userKey'[u.email] # "absent"
  BY <1>3 DEF KeyStep, SpawnKeygen, KeygenDone, Exited, Access, Install, keyVars
<1>4. ASSUME NEW r \in Request, Keygen(r)
      PROVE  userKey'[u.email] # "absent"
  BY <1>4 DEF Keygen, KeygenOpen, KeygenWrite, KeygenFail, OrphanExits, Exited
<1>5. OtherStep => userKey' = userKey
  BY DEF OtherStep, Reap, Tick, Crash, vars, keyVars
<1> QED
  BY NextCases, <1>1, <1>2, <1>3, <1>4, <1>5

\* Failing and orphaned keygen processes, renames, retries and crashes included,
\* there is one way to lose the complete key of an account: the clean-up after a
\* keygen that was started once more for its address (executeKeygen.js:41).
THEOREM AccountKeys == Spec /\ []CleansBeforeAccount => AccountKeyStays
<1>1. TypeInv /\ CleansBeforeAccount /\ [Next]_vars
        => [\A u \in users :
              userKey[u.email] = "key" => userKey'[u.email] # "absent"]_vars
  BY KeyStaysStep
<1> QED
  BY TypeInit, TypeStep, <1>1, PTL DEF Spec, AccountKeyStays

-----------------------------------------------------------------------------
(* Registration implements Enrolment, and an offer of it is not lost.      *)

HIDE DEF Preparing

Time == 0 .. (MaxTime + OtpLifetime)

\* Times stay in the interval the refinement mapping gives to Enrolment,
\* and the OTP a client submitted is there until it has been compared.
MappingInv ==
    /\ now \in 0 .. MaxTime
    /\ \A p \in pending : p.expiresAt \in Time
    /\ \A r \in Request : pc[r] \in DocAwait => doc[r].expiresAt \in Time
    /\ \A r \in Request : pc[r] \in {"findPending", "check"} => req[r].otp \in OTP

\* Awaits at which a request is a granted offer.
GrantedAwait == KeyAwait \cup {"saveUser"}

Offers  == {OfferOf(p) : p \in pending}
Reviews == {[offer |-> OfferOf(doc[r]), otp |-> req[r].otp] :
                r \in {s \in Request : pc[s] = "check"}}
Granted == {OfferOf(doc[r]) :
                r \in {s \in Request : pc[s] \in GrantedAwait}}

\* Steps that only lose something, or change nothing Enrolment sees.
LEMMA Losing ==
  ASSUME Offers' \subseteq Offers, Reviews' \subseteq Reviews,
         Granted' \subseteq Granted, UNCHANGED <<users, now>>
  PROVE  Enrolment!EnrolmentNext
  BY DEF Enrolment!EnrolmentNext, Enrolment!Forget, Offers, Reviews, Granted,
         GrantedAwait

\* Only request r moves.
Alone(r) == \A s \in Request \ {r} :
                pc'[s] = pc[s] /\ doc'[s] = doc[s] /\ req'[s] = req[s]

LEMMA AloneReviews ==
  ASSUME NEW r \in Request, Alone(r), pc'[r] # "check"
  PROVE  /\ Reviews' \subseteq Reviews
         /\ Reviews \subseteq Reviews' \cup
                {[offer |-> OfferOf(doc[r]), otp |-> req[r].otp]}
  BY DEF Alone, Reviews, OfferOf

LEMMA AloneGranted ==
  ASSUME NEW r \in Request, Alone(r),
         pc'[r] \in GrantedAwait => pc[r] \in GrantedAwait /\ doc'[r] = doc[r]
  PROVE  /\ Granted' \subseteq Granted
         /\ Granted \subseteq Granted' \cup {OfferOf(doc[r])}
  BY DEF Alone, Granted, OfferOf

\* A handler that learns nothing new and writes nothing new.
LEMMA AloneLosing ==
  ASSUME NEW r \in Request, Alone(r),
         pc'[r] # "check",
         pc'[r] \in GrantedAwait => pc[r] \in GrantedAwait /\ doc'[r] = doc[r],
         pending' \subseteq pending, UNCHANGED <<users, now>>
  PROVE  Enrolment!EnrolmentNext
<1>1. Offers' \subseteq Offers
  BY DEF Offers, OfferOf
<1> QED
  BY <1>1, AloneReviews, AloneGranted, Losing

LEMMA MapInitiate ==
  ASSUME TypeInv, MappingInv, NEW r \in Request, InitiateStep(r)
  PROVE  Enrolment!EnrolmentNext
<1> USE DEF TypeInv, TypeOK
<1>1. CASE SavePending(r) /\ pending' # pending
  <2>1. /\ pc[r] = "save" /\ pending' = pending \cup {doc[r]}
        /\ \A p \in pending : p.email # doc[r].email
        /\ pc'[r] \in {"sendEmail", "idle"} /\ Alone(r)
        /\ UNCHANGED <<users, now>>
    BY <1>1 DEF SavePending, Goto, Answer, Alone
  <2>2. doc[r] \in Pending /\ doc[r].expiresAt \in Time
    BY <2>1 DEF LocalsOK, MappingInv
  <2>3. OfferOf(doc[r]) \in Enrolment!Offer
    BY <2>2 DEF OfferOf, Enrolment!Offer, Pending, Time
  <2>4. Offers' = Offers \cup {OfferOf(doc[r])}
    BY <2>1 DEF Offers, OfferOf
  <2>5. \A o \in Offers : o.email # OfferOf(doc[r]).email
    BY <2>1 DEF Offers, OfferOf
  <2>6. Reviews' = Reviews /\ Granted' = Granted
    BY <2>1 DEF Reviews, Granted, GrantedAwait, Alone, OfferOf
  <2>7. Enrolment!MakeOffer(OfferOf(doc[r]))
    BY <2>1, <2>4, <2>5, <2>6 DEF Enrolment!MakeOffer, Offers, Reviews,
       Granted, GrantedAwait
  <2> QED
    BY <2>3, <2>7 DEF Enrolment!EnrolmentNext
<1>2. CASE ~(SavePending(r) /\ pending' # pending)
  <2>1. Alone(r) /\ UNCHANGED <<users, now>>
    BY DEF InitiateStep, StartInitiate, Accept, FindUser, DeletePrevious,
           Prepare, SavePending, SendEmail, Goto, Answer, Alone
  <2>2. pc'[r] # "check" /\ pc'[r] \notin GrantedAwait
    BY DEF InitiateStep, StartInitiate, Accept, FindUser, DeletePrevious,
           Prepare, SavePending, SendEmail, Goto, Answer, GrantedAwait
  <2>3. pending' \subseteq pending
    BY <1>2 DEF InitiateStep, StartInitiate, Accept, FindUser, DeletePrevious,
                Prepare, SendEmail
  <2> QED
    BY <2>1, <2>2, <2>3, AloneLosing
<1> QED
  BY <1>1, <1>2

\* findOne answers: the submitted OTP is compared with this offer.
LEMMA MapFindPending ==
  ASSUME TypeInv, MappingInv, NEW r \in Request, FindPending(r)
  PROVE  Enrolment!EnrolmentNext
<1> USE DEF TypeInv, TypeOK
<1>1. Alone(r) /\ UNCHANGED <<pending, users, now>>
  BY DEF FindPending, Goto, Answer, Alone
<1>2. CASE pc'[r] = "idle"
  BY <1>1, <1>2, AloneLosing DEF GrantedAwait
<1>3. CASE pc'[r] # "idle"
  <2>1. PICK p \in pending : /\ doc' = [doc EXCEPT ![r] = p]
                             /\ pc' = [pc EXCEPT ![r] = "check"]
                             /\ req' = req
    BY <1>3 DEF FindPending, Goto, Answer
  <2>2. PICK o, otp : /\ o = OfferOf(p) /\ otp = req[r].otp
                     /\ otp \in OTP
    BY DEF FindPending, MappingInv
  <2>3. o \in Enrolment!Offer
    BY <2>2 DEF OfferOf, Enrolment!Offer, Pending, Time, MappingInv
  <2>4. Reviews' = Reviews \cup {[offer |-> o, otp |-> otp]}
    BY <2>1, <2>2 DEF Reviews, OfferOf, FindPending
  <2>5. Granted' = Granted
    BY <2>1 DEF Granted, GrantedAwait, OfferOf, FindPending
  <2>6. o \in Offers /\ Offers' = Offers
    BY <1>1, <2>2 DEF Offers, OfferOf
  <2>7. Enrolment!Review(o, otp)
    BY <1>1, <2>4, <2>5, <2>6 DEF Enrolment!Review, Offers, Reviews, Granted,
       GrantedAwait
  <2> QED
    BY <2>2, <2>3, <2>7 DEF Enrolment!EnrolmentNext
<1> QED
  BY <1>2, <1>3

\* The check: a grant when the OTP is the offer's and in time.
LEMMA MapCheckPending ==
  ASSUME TypeInv, MappingInv, NEW r \in Request, CheckPending(r)
  PROVE  Enrolment!EnrolmentNext
<1> USE DEF TypeInv, TypeOK
<1>0. PICK o, otp, v : /\ o = OfferOf(doc[r]) /\ otp = req[r].otp
                      /\ v = [offer |-> o, otp |-> otp]
  OBVIOUS
<1>1. Alone(r) /\ UNCHANGED <<pending, users, now>> /\ pc[r] = "check"
  BY DEF CheckPending, Goto, Answer, Alone
<1>2. CASE pc'[r] # "mkdir"
  <2>1. pc'[r] \in {"deleteExpired", "idle"}
    BY <1>2 DEF CheckPending, Goto, Answer
  <2> QED
    BY <1>1, <2>1, AloneLosing DEF GrantedAwait
<1>3. CASE pc'[r] = "mkdir"
  <2>1. /\ now <= doc[r].expiresAt /\ req[r].otp = doc[r].otp
        /\ pc' = [pc EXCEPT ![r] = "mkdir"] /\ UNCHANGED <<doc, req>>
    BY <1>3 DEF CheckPending, Goto, Answer
  <2>2. otp \in OTP /\ o \in Enrolment!Offer
    BY <1>0, <1>1 DEF MappingInv, LocalsOK, OfferOf, Enrolment!Offer, Pending, Time
  <2>3. v \in Reviews
    BY <1>0, <1>1 DEF Reviews
  <2>4. v.otp = v.offer.otp /\ now <= v.offer.expiresAt
    BY <1>0, <2>1 DEF OfferOf
  <2>5. Reviews' \in {Reviews, Reviews \ {v}}
    BY <1>0, <1>1, <1>3, AloneReviews
  <2>6. Granted' = Granted \cup {v.offer}
    BY <1>0, <1>1, <2>1 DEF Granted, GrantedAwait, OfferOf
  <2>7. Offers' = Offers
    BY <1>1 DEF Offers, OfferOf
  <2>8. Enrolment!Grant(v)
    BY <1>1, <2>3, <2>4, <2>5, <2>6, <2>7
       DEF Enrolment!Grant, Offers, Reviews, Granted, GrantedAwait
  <2> QED
    BY <1>0, <2>2, <2>8 DEF Enrolment!EnrolmentNext
<1> QED
  BY <1>2, <1>3

\* The save: the granted offer becomes the account of its address.
LEMMA MapSaveUser ==
  ASSUME TypeInv, MappingInv, NEW r \in Request, SaveUser(r)
  PROVE  Enrolment!EnrolmentNext
<1> USE DEF TypeInv, TypeOK
<1>0. PICK o : o = OfferOf(doc[r])
  OBVIOUS
<1>1. /\ pc[r] = "saveUser" /\ Alone(r) /\ UNCHANGED <<pending, now>>
      /\ pc'[r] \in {"deleteDuplicate", "deletePending", "idle"}
  BY DEF SaveUser, Goto, Answer, Alone
<1>2. CASE Registered(doc[r].email)
  <2>1. users' = users
    BY <1>2 DEF SaveUser
  <2> QED
    BY <1>1, <2>1, AloneLosing DEF GrantedAwait
<1>3. CASE ~Registered(doc[r].email)
  <2>1. users' = users \cup {[email |-> o.email, password |-> o.password]}
    BY <1>0, <1>3 DEF SaveUser, OfferOf
  <2>2. \A u \in users : u.email # o.email
    BY <1>0, <1>3 DEF Registered, OfferOf
  <2>3. o \in Granted /\ o \in Enrolment!Offer
    BY <1>0, <1>1 DEF Granted, GrantedAwait, LocalsOK, MappingInv, OfferOf,
                Enrolment!Offer, Pending, Time
  <2>4. Granted' \in {Granted, Granted \ {o}}
    BY <1>0, <1>1, AloneGranted DEF GrantedAwait
  <2>5. Reviews' = Reviews /\ Offers' = Offers
    BY <1>1 DEF Reviews, Offers, OfferOf, Alone
  <2>6. Enrolment!Enrol(o)
    BY <1>1, <2>1, <2>2, <2>3, <2>4, <2>5
       DEF Enrolment!Enrol, Offers, Reviews, Granted, GrantedAwait
  <2> QED
    BY <2>3, <2>6 DEF Enrolment!EnrolmentNext
<1> QED
  BY <1>2, <1>3

LEMMA MapVerify ==
  ASSUME TypeInv, MappingInv, NEW r \in Request, VerifyStep(r)
  PROVE  Enrolment!EnrolmentNext
<1> USE DEF TypeInv, TypeOK
<1>1. CASE FindPending(r)
  BY <1>1, MapFindPending
<1>2. CASE CheckPending(r)
  BY <1>2, MapCheckPending
<1>3. CASE SaveUser(r)
  BY <1>3, MapSaveUser
<1>4. CASE \/ StartVerify(r) \/ DeleteExpired(r) \/ DeleteDuplicate(r)
           \/ DeletePending(r) \/ CallRejected(r)
  <2>1. Alone(r) /\ UNCHANGED <<users, now>> /\ pending' \subseteq pending
    BY <1>4 DEF StartVerify, Accept, DeleteExpired, DeleteDuplicate,
                DeletePending, CallRejected, WithoutId, Answer, Alone
  <2>2. pc'[r] \in {"findPending", "idle"}
    BY <1>4 DEF StartVerify, Accept, DeleteExpired, DeleteDuplicate,
                DeletePending, CallRejected, Answer
  <2> QED
    BY <2>1, <2>2, AloneLosing DEF GrantedAwait
<1> QED
  BY <1>1, <1>2, <1>3, <1>4 DEF VerifyStep

LEMMA MapKey ==
  ASSUME TypeInv, MappingInv, NEW r \in Request, KeyStep(r)
  PROVE  Enrolment!EnrolmentNext
<1> USE DEF TypeInv, TypeOK
<1>1. Alone(r) /\ UNCHANGED <<pending, users, now>>
  BY DEF KeyStep, SpawnKeygen, KeygenDone, Exited, Unlink, Access, Install,
         Goto, Answer, Alone
<1>2. pc[r] \in GrantedAwait /\ pc'[r] \in GrantedAwait \cup {"idle"}
  BY DEF KeyStep, SpawnKeygen, KeygenDone, Exited, Unlink, Access, Install,
         Goto, Answer, GrantedAwait
<1>3. pc'[r] \in GrantedAwait => doc'[r] = doc[r]
  BY DEF KeyStep, SpawnKeygen, KeygenDone, Exited, Unlink, Access, Install,
         Goto, Answer, GrantedAwait
<1> QED
  BY <1>1, <1>2, <1>3, AloneLosing DEF GrantedAwait

LEMMA MapKeygen ==
  ASSUME NEW r \in Request, Keygen(r)
  PROVE  Enrolment!EnrolmentNext \/ UNCHANGED Enrolment!enrolmentVars
<1>1. UNCHANGED <<pending, users, now, doc, req>>
  BY DEF Keygen, KeygenOpen, KeygenWrite, KeygenFail, OrphanExits, Exited
<1>2. UNCHANGED pc
  BY DEF Keygen, KeygenOpen, KeygenWrite, KeygenFail, OrphanExits
<1> QED
  BY <1>1, <1>2, Losing DEF Offers, Reviews, Granted, GrantedAwait, OfferOf

LEMMA MapOther ==
  ASSUME TypeInv, MappingInv, OtherStep
  PROVE  Enrolment!EnrolmentNext
<1> USE DEF TypeInv, TypeOK
<1>1. CASE Reap
  <2>1. pending' \subseteq pending /\ UNCHANGED <<users, now, handlerVars>>
    BY <1>1 DEF Reap, WithoutId
  <2> QED
    BY <2>1, Losing DEF Offers, Reviews, Granted, GrantedAwait, OfferOf
<1>2. CASE Tick
  <2>1. /\ now' \in {t \in 0 .. (MaxTime + OtpLifetime) : t > now}
        /\ UNCHANGED <<pending, users, handlerVars>>
    BY <1>2, BoundAssumption DEF Tick
  <2>2. Enrolment!Advance
    BY <2>1 DEF Enrolment!Advance, OfferOf
  <2> QED
    BY <2>2 DEF Enrolment!EnrolmentNext
<1>3. CASE Crash
  <2>1. UNCHANGED <<pending, users, now>> /\ \A r \in Request : pc'[r] = "idle"
    BY <1>3 DEF Crash
  <2>2. Reviews' = {} /\ Granted' = {} /\ Offers' = Offers
    BY <2>1 DEF Reviews, Granted, Offers, GrantedAwait, OfferOf
  <2> QED
    BY <2>1, <2>2, Losing
<1>4. CASE UNCHANGED vars
  BY <1>4, Losing DEF vars, Offers, Reviews, Granted, GrantedAwait, OfferOf
<1> QED
  BY <1>1, <1>2, <1>3, <1>4 DEF OtherStep

-----------------------------------------------------------------------------
(* The mapping invariant, and the refinement.                              *)

\* A handler gets its document from the collection or from Prepare, and
\* keeps it; it keeps the submitted OTP until the check.
LEMMA MappingAlone ==
  ASSUME TypeInv, MappingInv, NEW r \in Request, Alone(r), now' = now,
         pc'[r] \in DocAwait =>
            \/ pc[r] \in DocAwait /\ doc'[r] = doc[r]
            \/ doc'[r].expiresAt \in Time,
         pc'[r] \in {"findPending", "check"} => req'[r].otp \in OTP,
         \/ pending' \subseteq pending
         \/ pc[r] = "save" /\ pending' \subseteq pending \cup {doc[r]}
  PROVE  MappingInv'
  BY DEF MappingInv, Alone, Time

LEMMA MappingInitiate ==
  ASSUME TypeInv, MappingInv, NEW r \in Request, InitiateStep(r)
  PROVE  MappingInv'
<1> USE DEF TypeInv, TypeOK
<1>1. Alone(r) /\ UNCHANGED now
  BY DEF InitiateStep, StartInitiate, Accept, FindUser, DeletePrevious,
         Prepare, SavePending, SendEmail, Goto, Answer, Alone
<1>2. pc'[r] \notin {"findPending", "check"}
  BY DEF InitiateStep, StartInitiate, Accept, FindUser, DeletePrevious,
         Prepare, SavePending, SendEmail, Goto, Answer
<1>3. \/ pending' \subseteq pending
      \/ pc[r] = "save" /\ pending' \subseteq pending \cup {doc[r]}
  BY DEF InitiateStep, StartInitiate, Accept, FindUser, DeletePrevious,
         Prepare, SavePending, SendEmail
<1>4. pc'[r] \in DocAwait =>
            \/ pc[r] \in DocAwait /\ doc'[r] = doc[r]
            \/ doc'[r].expiresAt \in Time
  <2>1. CASE Prepare(r)
    <3>1. doc'[r].expiresAt = now + OtpLifetime
      BY <2>1 DEF Prepare
    <3> QED
      BY <3>1, BoundAssumption DEF MappingInv, Time
  <2>2. CASE ~Prepare(r)
    BY <2>2 DEF InitiateStep, StartInitiate, Accept, FindUser, DeletePrevious,
                SavePending, SendEmail, Goto, Answer
  <2> QED
    BY <2>1, <2>2
<1> QED
  BY <1>1, <1>2, <1>3, <1>4, MappingAlone

LEMMA MappingVerify ==
  ASSUME TypeInv, MappingInv, NEW r \in Request, VerifyStep(r)
  PROVE  MappingInv'
<1> USE DEF TypeInv, TypeOK
<1>1. Alone(r) /\ UNCHANGED now /\ pending' \subseteq pending
  BY DEF VerifyStep, StartVerify, Accept, FindPending, CheckPending,
         DeleteExpired, DeleteDuplicate, DeletePending, CallRejected, SaveUser,
         WithoutId, Goto, Answer, Alone
<1>2. pc'[r] \in {"findPending", "check"} => req'[r].otp \in OTP
  <2>1. CASE StartVerify(r)
    BY <2>1 DEF StartVerify, Accept
  <2>2. CASE FindPending(r)
    BY <2>2 DEF FindPending, Goto, Answer, MappingInv
  <2>3. CASE ~StartVerify(r) /\ ~FindPending(r)
    BY <2>3 DEF VerifyStep, CheckPending, DeleteExpired, DeleteDuplicate,
                DeletePending, CallRejected, SaveUser, Goto, Answer
  <2> QED
    BY <2>1, <2>2, <2>3
<1>3. pc'[r] \in DocAwait =>
            \/ pc[r] \in DocAwait /\ doc'[r] = doc[r]
            \/ doc'[r].expiresAt \in Time
  <2>1. CASE FindPending(r)
    BY <2>1 DEF FindPending, Goto, Answer, MappingInv
  <2>2. CASE ~FindPending(r)
    BY <2>2 DEF VerifyStep, StartVerify, Accept, CheckPending, DeleteExpired,
                DeleteDuplicate, DeletePending, CallRejected, SaveUser, Goto,
                Answer
  <2> QED
    BY <2>1, <2>2
<1> QED
  BY <1>1, <1>2, <1>3, MappingAlone

LEMMA MappingKey ==
  ASSUME TypeInv, MappingInv, NEW r \in Request, KeyStep(r)
  PROVE  MappingInv'
<1> USE DEF TypeInv, TypeOK
<1>1. Alone(r) /\ UNCHANGED <<pending, now>>
  BY DEF KeyStep, SpawnKeygen, KeygenDone, Exited, Unlink, Access, Install,
         Goto, Answer, Alone
<1>2. pc'[r] \notin {"findPending", "check"}
  BY DEF KeyStep, SpawnKeygen, KeygenDone, Exited, Unlink, Access, Install,
         Goto, Answer
<1>3. pc'[r] \in DocAwait => pc[r] \in DocAwait /\ doc'[r] = doc[r]
  BY DEF KeyStep, SpawnKeygen, KeygenDone, Exited, Unlink, Access, Install,
         Goto, Answer
<1> QED
  BY <1>1, <1>2, <1>3, MappingAlone

LEMMA MappingKeygen ==
  ASSUME MappingInv, NEW r \in Request, Keygen(r)
  PROVE  MappingInv'
<1>1. UNCHANGED <<pending, now, doc, req, pc>>
  BY DEF Keygen, KeygenOpen, KeygenWrite, KeygenFail, OrphanExits, Exited
<1> QED
  BY <1>1 DEF MappingInv, Time

LEMMA MappingOther ==
  ASSUME TypeInv, MappingInv, OtherStep
  PROVE  MappingInv'
<1>1. CASE Reap
  BY <1>1 DEF Reap, WithoutId, MappingInv, Time
<1>2. CASE Tick
  BY <1>2, BoundAssumption DEF Tick, MappingInv, Time
<1>3. CASE Crash
  BY <1>3 DEF Crash, MappingInv, Time
<1>4. CASE UNCHANGED vars
  BY <1>4 DEF vars, MappingInv, Time
<1> QED
  BY <1>1, <1>2, <1>3, <1>4 DEF OtherStep

\* Every behaviour of the handlers, the keygen processes, the reaper, the
\* clock and crashes is one that Enrolment allows: an account only from an
\* offer whose OTP was submitted in time, with that offer's password, and
\* only one for an address.
THEOREM Refinement == Spec => ImplementsEnrolment
<1>1. Init => MappingInv
  BY BoundAssumption DEF Init, MappingInv
<1>2. TypeInv /\ MappingInv /\ [Next]_vars => MappingInv'
  BY NextCases, MappingInitiate, MappingVerify, MappingKey, MappingKeygen,
     MappingOther
<1>3. Init => Enrolment!EnrolmentInit
  BY DEF Init, Enrolment!EnrolmentInit, OfferOf
<1>4. TypeInv /\ MappingInv /\ [Next]_vars
        => [Enrolment!EnrolmentNext]_(Enrolment!enrolmentVars)
  BY NextCases, MapInitiate, MapVerify, MapKey, MapKeygen, MapOther
<1> QED
  BY TypeInit, TypeStep, <1>1, <1>2, <1>3, <1>4, PTL
     DEF Spec, ImplementsEnrolment, Enrolment!EnrolmentSpec

-----------------------------------------------------------------------------
(* An OTP is used up by nothing but a newer initiation, its own success or *)
(* its expiry.                                                             *)


\* The documents in the collection or in the hands of a handler.
Docs == pending \cup {doc[r] : r \in {s \in Request : pc[s] \in DocAwait}}

\* An _id names one document, and the next one is new.
IdInv ==
    /\ \A d \in Docs : d.id < nextId
    /\ \A d, e \in Docs : d.id = e.id => d = e

\* Whoever is about to delete a document by its _id has a reason.
ReasonInv ==
    \A r \in Request :
        /\ pc[r] = "deleteExpired" => now > doc[r].expiresAt
        /\ pc[r] \in {"deleteDuplicate", "deletePending"} =>
              Registered(doc[r].email)

LEMMA DocsStep ==
  ASSUME TypeInv, [Next]_vars
  PROVE  \/ Docs' \subseteq Docs /\ nextId' = nextId
         \/ /\ nextId' = nextId + 1
            /\ \E d : d.id = nextId /\ Docs' \subseteq Docs \cup {d}
<1> USE DEF TypeInv, TypeOK
<1>1. ASSUME NEW r \in Request, Prepare(r)
      PROVE  /\ nextId' = nextId + 1
             /\ \E d : d.id = nextId /\ Docs' \subseteq Docs \cup {d}
  <2>1. doc'[r].id = nextId /\ nextId' = nextId + 1
    BY <1>1 DEF Prepare
  <2>2. Docs' \subseteq Docs \cup {doc'[r]}
    BY <1>1 DEF Prepare, Goto, Docs
  <2> QED
    BY <2>1, <2>2
<1>2. ASSUME NEW r \in Request, InitiateStep(r), ~Prepare(r)
      PROVE  Docs' \subseteq Docs /\ nextId' = nextId
  BY <1>2 DEF InitiateStep, StartInitiate, Accept, FindUser, DeletePrevious,
              SavePending, SendEmail, Goto, Answer, Docs
<1>3. ASSUME NEW r \in Request, VerifyStep(r)
      PROVE  Docs' \subseteq Docs /\ nextId' = nextId
  <2>1. CASE FindPending(r)
    BY <2>1 DEF FindPending, Goto, Answer, Docs
  <2>2. CASE ~FindPending(r)
    BY <1>3, <2>2 DEF VerifyStep, StartVerify, Accept, CheckPending,
              DeleteExpired, DeleteDuplicate, DeletePending, CallRejected,
              SaveUser, WithoutId, Goto, Answer, Docs
  <2> QED
    BY <2>1, <2>2
<1>4. ASSUME NEW r \in Request, KeyStep(r)
      PROVE  Docs' \subseteq Docs /\ nextId' = nextId
  BY <1>4 DEF KeyStep, SpawnKeygen, KeygenDone, Exited, Unlink, Access,
              Install, Goto, Answer, Docs
<1>5. ASSUME NEW r \in Request, Keygen(r)
      PROVE  Docs' \subseteq Docs /\ nextId' = nextId
  BY <1>5 DEF Keygen, KeygenOpen, KeygenWrite, KeygenFail, OrphanExits,
              Exited, Docs
<1>6. ASSUME OtherStep
      PROVE  Docs' \subseteq Docs /\ nextId' = nextId
  BY <1>6 DEF OtherStep, Reap, Tick, Crash, WithoutId, vars, Docs
<1> QED
  BY NextCases, <1>1, <1>2, <1>3, <1>4, <1>5, <1>6

LEMMA IdStep ==
  ASSUME TypeInv, IdInv, [Next]_vars
  PROVE  IdInv'
<1>1. \A d \in Docs : d.id \in Nat
  BY DEF Docs, TypeInv, TypeOK, LocalsOK, Pending
<1>2. nextId \in Nat
  BY DEF TypeInv, TypeOK
<1>3. CASE Docs' \subseteq Docs /\ nextId' = nextId
  BY <1>3 DEF IdInv
<1>4. CASE /\ nextId' = nextId + 1
           /\ \E d : d.id = nextId /\ Docs' \subseteq Docs \cup {d}
  <2>1. PICK d : d.id = nextId /\ Docs' \subseteq Docs \cup {d}
    BY <1>4
  <2>2. \A e \in Docs : e.id < nextId /\ e.id # nextId
    BY <1>1, <1>2 DEF IdInv
  <2> QED
    BY <1>1, <1>2, <1>4, <2>1, <2>2 DEF IdInv
<1> QED
  BY <1>3, <1>4, DocsStep

LEMMA ReasonStep ==
  ASSUME TypeInv, ReasonInv, [Next]_vars
  PROVE  ReasonInv'
<1> USE DEF TypeInv, TypeOK
<1>1. users \subseteq users'
  BY AccountsStep
<1>2. now' \in Nat /\ now' >= now
  <2>1. now' = now \/ now' = now + 1
    BY NextCases DEF InitiateStep, StartInitiate, Accept, FindUser,
       DeletePrevious, Prepare, SavePending, SendEmail, VerifyStep,
       StartVerify, FindPending, CheckPending, DeleteExpired,
       DeleteDuplicate, DeletePending, CallRejected, SaveUser, KeyStep,
       SpawnKeygen, KeygenDone, Exited, Unlink, Access, Install, Keygen,
       KeygenOpen, KeygenWrite, KeygenFail, OrphanExits, OtherStep, Reap,
       Tick, Crash, vars
  <2> QED
    BY <2>1
<1>3. ASSUME NEW w \in Request, pc'[w] = "deleteExpired"
      PROVE  now' > doc'[w].expiresAt
  <2>1. /\ doc'[w] = doc[w] /\ doc[w] \in Pending
        /\ pc[w] = "deleteExpired" \/ now > doc[w].expiresAt
    BY <1>3, NextCases DEF InitiateStep, StartInitiate, Accept, FindUser,
       DeletePrevious, Prepare, SavePending, SendEmail, VerifyStep,
       StartVerify, FindPending, CheckPending, DeleteExpired,
       DeleteDuplicate, DeletePending, CallRejected, SaveUser, KeyStep,
       SpawnKeygen, KeygenDone, Exited, Unlink, Access, Install, Keygen,
       KeygenOpen, KeygenWrite, KeygenFail, OrphanExits, OtherStep, Reap,
       Tick, Crash, vars, Goto, Answer, LocalsOK
  <2>2. now > doc[w].expiresAt
    BY <2>1 DEF ReasonInv
  <2> QED
    BY <1>2, <2>1, <2>2 DEF Pending
<1>4. ASSUME NEW w \in Request,
             pc'[w] \in {"deleteDuplicate", "deletePending"}
      PROVE  \E u \in users' : u.email = doc'[w].email
  <2> DEFINE Had == /\ doc'[w] = doc[w]
                    /\ pc[w] \in {"deleteDuplicate", "deletePending"}
             Saves == /\ doc'[w] = doc[w]
                      /\ \E u \in users \cup users' : u.email = doc[w].email
  <2>1. ASSUME NEW r \in Request, InitiateStep(r) PROVE Had
    BY <1>4, <2>1 DEF InitiateStep, StartInitiate, Accept, FindUser,
       DeletePrevious, Prepare, SavePending, SendEmail, Goto, Answer
  <2>2. ASSUME NEW r \in Request, SaveUser(r) PROVE Had \/ Saves
    <3>1. CASE r = w
      <4>1. doc' = doc
        BY <1>4, <2>2, <3>1 DEF SaveUser, Goto, Answer
      <4>2. CASE Registered(doc[w].email)
        BY <4>1, <4>2 DEF Registered
      <4>3. CASE ~Registered(doc[w].email)
        <5>1. [email |-> doc[w].email, password |-> doc[w].password] \in users'
          BY <2>2, <3>1, <4>3 DEF SaveUser
        <5> QED
          BY <4>1, <5>1
      <4> QED
        BY <4>2, <4>3
    <3>2. CASE r # w
      BY <1>4, <2>2, <3>2 DEF SaveUser, Goto, Answer
    <3> QED
      BY <3>1, <3>2
  <2>3. ASSUME NEW r \in Request, VerifyStep(r), ~SaveUser(r) PROVE Had
    BY <1>4, <2>3 DEF VerifyStep, StartVerify, Accept, FindPending,
       CheckPending, DeleteExpired, DeleteDuplicate, DeletePending,
       CallRejected, Goto, Answer
  <2>4. ASSUME NEW r \in Request, KeyStep(r) PROVE Had
    BY <1>4, <2>4 DEF KeyStep, SpawnKeygen, KeygenDone, Exited, Unlink,
       Access, Install, Goto, Answer
  <2>5. ASSUME NEW r \in Request, Keygen(r) PROVE Had
    BY <1>4, <2>5 DEF Keygen, KeygenOpen, KeygenWrite, KeygenFail,
       OrphanExits, Exited
  <2>6. OtherStep => Had
    BY <1>4 DEF OtherStep, Reap, Tick, Crash, vars
  <2>7. Had \/ Saves
    BY NextCases, <2>1, <2>2, <2>3, <2>4, <2>5, <2>6
  <2> QED
    BY <1>1, <2>7 DEF ReasonInv, Registered
<1> QED
  BY <1>3, <1>4 DEF ReasonInv, Registered

\* Why a step removes a document.
LEMMA RemovalStep ==
  ASSUME TypeInv, UniqueInv, IdInv, ReasonInv, TtlDelay > 0, [Next]_vars,
         NEW p \in pending, p \notin pending', now <= p.expiresAt
  PROVE  \E r \in Request :
            \/ pc[r] = "deletePrevious" /\ email(r) = p.email
            \/ /\ pc[r] \in {"deleteDuplicate", "deletePending"}
               /\ doc[r] = p
               /\ Registered(p.email)
<1> USE DEF TypeInv, TypeOK
<1>1. ASSUME NEW r \in Request, pc[r] \in DocAwait, pending' = WithoutId(doc[r].id)
      PROVE  p = doc[r]
  BY <1>1 DEF WithoutId, IdInv, Docs
<1>2. ASSUME NEW r \in Request, InitiateStep(r)
      PROVE  pc[r] = "deletePrevious" /\ email(r) = p.email
  BY <1>2 DEF InitiateStep, StartInitiate, Accept, FindUser, DeletePrevious,
              Prepare, SavePending, SendEmail
<1>3. ASSUME NEW r \in Request, VerifyStep(r)
      PROVE  /\ pc[r] \in {"deleteDuplicate", "deletePending"}
             /\ doc[r] = p
             /\ Registered(p.email)
  <2>1. /\ pc[r] \in {"deleteExpired", "deleteDuplicate", "deletePending"}
        /\ pending' = WithoutId(doc[r].id)
    BY <1>3 DEF VerifyStep, StartVerify, Accept, FindPending, CheckPending,
                DeleteExpired, DeleteDuplicate, DeletePending, CallRejected,
                SaveUser
  <2>2. p = doc[r]
    BY <1>1, <2>1
  <2>3. pc[r] # "deleteExpired"
    BY <2>2 DEF ReasonInv, Pending
  <2> QED
    BY <2>1, <2>2, <2>3 DEF ReasonInv
<1>4. ASSUME NEW r \in Request, KeyStep(r)
      PROVE  FALSE
  BY <1>4 DEF KeyStep, SpawnKeygen, KeygenDone, Exited, Unlink, Access, Install
<1>5. ASSUME NEW r \in Request, Keygen(r)
      PROVE  FALSE
  BY <1>5 DEF Keygen, KeygenOpen, KeygenWrite, KeygenFail, OrphanExits, Exited
<1>6. ~Reap
  <2> SUFFICES ASSUME Reap PROVE FALSE
    OBVIOUS
  <2>1. PICK q \in pending : /\ now >= q.expiresAt + TtlDelay
                             /\ pending' = WithoutId(q.id)
    BY DEF Reap
  <2>2. p = q
    BY <2>1 DEF WithoutId, IdInv, Docs
  <2> QED
    BY <2>1, <2>2, BoundAssumption DEF Pending
<1>7. OtherStep => FALSE
  BY <1>6 DEF OtherStep, Tick, Crash, vars
<1> QED
  BY NextCases, <1>2, <1>3, <1>4, <1>5, <1>7

\* The TTL index removes a document only some time after its OTP stopped
\* counting.  Then an OTP that counts is lost only to a newer initiation
\* for its address, or to the verification it was submitted to, once the
\* address has its account.
THEOREM Redeemable ==
  ASSUME TtlDelay > 0
  PROVE  Spec => OfferStaysRedeemable
<1>1. Init => UniqueInv /\ IdInv /\ ReasonInv
  BY DEF Init, UniqueInv, OneAccountPerAddress, OneOfferPerAddress,
         WinnerOwnsAccount, IdInv, ReasonInv, Docs
<1>2. TypeInv /\ UniqueInv /\ [Next]_vars => UniqueInv'
  BY UniqueStep
<1>3. TypeInv /\ IdInv /\ [Next]_vars => IdInv'
  BY IdStep
<1>4. TypeInv /\ ReasonInv /\ [Next]_vars => ReasonInv'
  BY ReasonStep
<1>5. TypeInv /\ UniqueInv /\ IdInv /\ ReasonInv /\ [Next]_vars
        => [\A p \in pending :
              p \notin pending' /\ now <= p.expiresAt =>
                \E r \in Request :
                   \/ pc[r] = "deletePrevious" /\ email(r) = p.email
                   \/ /\ pc[r] \in {"deleteDuplicate", "deletePending"}
                      /\ doc[r] = p
                      /\ Registered(p.email)]_vars
  BY RemovalStep
<1> QED
  BY TypeInit, TypeStep, <1>1, <1>2, <1>3, <1>4, <1>5, PTL
     DEF Spec, OfferStaysRedeemable
=============================================================================
