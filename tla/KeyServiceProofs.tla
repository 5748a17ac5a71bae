-------------------------- MODULE KeyServiceProofs --------------------------
(***************************************************************************)
(* What holds of KeyService for every value of its constants.  It only     *)
(* reads what registration writes, so it implements Registration, and the  *)
(* invariants proved of Registration can be used here.                     *)
(***************************************************************************)
EXTENDS KeyService, RegistrationProofs

\* A step of the service, slot by slot.
LEMMA ServeReads ==
  ASSUME NEW c \in Client, Serve(c)
  PROVE  UNCHANGED vars
  BY DEF Serve, StartLogin, FindAccount, vars,  ComparePassword, StartGetKey, Receive,
         FindKeyPath, AccessKey, ReadKey, ServiceRejected

\* Login and key requests do nothing to what registration keeps.
THEOREM ServiceImplementsRegistration == ServiceSpec => Spec
<1>1. ServiceInit => Init
  BY DEF ServiceInit
<1>2. [ServiceNext]_serverVars => [Next]_vars
  BY ServeReads DEF ServiceNext, Register, serverVars
<1> QED
  BY <1>1, <1>2, PTL DEF ServiceSpec, Spec

\* The invariant of registration that the service relies on.
RegistrationInv == TypeInv /\ (~KeygenMayFail => KeyInv)

LEMMA RegistrationInvariant == Spec => []RegistrationInv
<1>1. Init => KeyInv
  BY DEF Init, KeyInv, StreamsAreOpen, StreamsHaveFiles, IncompleteHasWriter,
         InstalledStays, NoKeygenFailure
<1>2. TypeInv /\ (~KeygenMayFail => KeyInv) /\ [Next]_vars
        => (~KeygenMayFail => KeyInv)'
  BY KeyInvStep
<1> QED
  BY TypeInit, TypeStep, <1>1, <1>2, PTL DEF Spec, RegistrationInv

\* An account is never removed.
LEMMA AccountsStay == [Next]_vars => users \subseteq users'
<1> SUFFICES ASSUME [Next]_vars PROVE users \subseteq users'
  OBVIOUS
<1>1. CASE \E r \in Request : InitiateStep(r)
  BY <1>1 DEF InitiateStep, StartInitiate, FindUser, DeletePrevious, Prepare,
              SavePending, SendEmail, Accept, dbVars
<1>2. CASE \E r \in Request : VerifyStep(r)
  BY <1>2 DEF VerifyStep, StartVerify, FindPending, CheckPending, DeleteExpired,
              SaveUser, DeleteDuplicate, DeletePending, CallRejected, Accept, dbVars
<1>3. CASE \E r \in Request : KeyStep(r)
  BY <1>3 DEF KeyStep, SpawnKeygen, KeygenDone, Exited, Unlink, Access, Install,
              dbVars
<1>4. CASE \E r \in Request : Keygen(r)
  BY <1>4 DEF Keygen, KeygenOpen, KeygenWrite, KeygenFail, OrphanExits, Exited,
              dbVars
<1>5. CASE OtherStep
  BY <1>5 DEF OtherStep, Reap, Tick, Crash, vars, dbVars
<1> QED
  BY NextCases, <1>1, <1>2, <1>3, <1>4, <1>5

-----------------------------------------------------------------------------
(* The inductive invariant of the service.                                 *)

\* A token and the handlers behind one belong to an account.
TokensHaveAccounts ==
    /\ \A m \in tokens : Registered(m)
    /\ \A c \in Client : At(c, "compare") => service[c].user \in users
    /\ \A c \in Client :
        service[c] # Null /\ service[c].at \in {"findById", "access", "readFile"}
            => Registered(service[c].member)

\* A slot whose handler is running shows no response yet.
RunningIsUnanswered ==
    \A c \in Client : service[c] # Null => response[c] = Null

NotNotFound ==
    \A c \in Client : response[c] # Null => response[c].status # 404

ServiceInv ==
    /\ ServiceTypeOK
    /\ TokensHaveAccounts
    /\ RunningIsUnanswered
    /\ ~KeygenMayFail => NotNotFound

LEMMA ServiceInitInv == ServiceInit => ServiceInv
  BY DEF ServiceInit, ServiceInv, ServiceTypeOK, TokensHaveAccounts, At,
         RunningIsUnanswered, NotNotFound

\* Registration adds accounts and takes handlers away.
LEMMA RegisterInv ==
  ASSUME ServiceInv, Register
  PROVE  ServiceInv'
<1>1. users \subseteq users'
  BY AccountsStay DEF Register
<1>2. \A m \in Member : Registered(m) => Registered(m)'
  BY <1>1 DEF Registered
<1>3. \A c \in Client : service'[c] = Null \/ service'[c] = service[c]
  BY DEF Register, ServiceInv, ServiceTypeOK
<1>4. UNCHANGED <<tokens, response>>
  BY DEF Register
<1>5. service' \in [Client -> LoginCall \cup KeyCall \cup {Null}]
  BY DEF Register, ServiceInv, ServiceTypeOK
<1>6. TokensHaveAccounts'
  <2>1. \A m \in tokens' : Registered(m)'
    BY <1>1, <1>4 DEF ServiceInv, TokensHaveAccounts, Registered
  <2>2. \A c \in Client : At(c, "compare")' => (service[c].user \in users)'
    BY <1>1, <1>3 DEF ServiceInv, TokensHaveAccounts, At
  <2>3. \A c \in Client :
          service'[c] # Null /\ service'[c].at \in {"findById", "access", "readFile"}
            => Registered(service[c].member)'
    BY <1>1, <1>3 DEF ServiceInv, TokensHaveAccounts, Registered
  <2> QED
    BY <2>1, <2>2, <2>3 DEF TokensHaveAccounts
<1> QED
  BY <1>3, <1>4, <1>5, <1>6
     DEF ServiceInv, ServiceTypeOK, RunningIsUnanswered, NotNotFound

LEMMA ReceiveInv ==
  ASSUME ServiceInv, NEW c \in Client, StartLogin(c) \/ StartGetKey(c)
  PROVE  ServiceInv'
<1> USE DEF ServiceInv, ServiceTypeOK, TokensHaveAccounts, RunningIsUnanswered,
            NotNotFound, At, Receive, Registered, vars, dbVars
<1>1. CASE StartLogin(c)
  <2> PICK a \in Address, pw \in Password :
        Receive(c, [at |-> "findOne", email |-> a, password |-> pw, user |-> Null])
    BY <1>1 DEF StartLogin
  <2> DEFINE call == [at |-> "findOne", email |-> a, password |-> pw, user |-> Null]
  <2>1. call \in LoginCall
    BY DEF LoginCall
  <2> QED
    BY <2>1
<1>2. CASE StartGetKey(c)
  <2> PICK m \in tokens : Receive(c, [at |-> "findById", member |-> m])
    BY <1>2 DEF StartGetKey
  <2> DEFINE call == [at |-> "findById", member |-> m]
  <2>1. call \in KeyCall
    BY DEF KeyCall
  <2> QED
    BY <2>1
<1> QED
  BY <1>1, <1>2

\* A response of the service.
LEMMA RespondInv ==
  ASSUME ServiceInv, NEW c \in Client, NEW status \in {200, 400, 404, 500},
         NEW body \in File \cup {Null}, Respond(c, status, body),
         KeygenMayFail \/ status # 404,
         UNCHANGED vars,
         tokens' \subseteq Member, \A m \in tokens' : Registered(m)
  PROVE  ServiceInv'
<1> USE DEF ServiceInv, ServiceTypeOK, TokensHaveAccounts, RunningIsUnanswered,
            NotNotFound, At, Respond, Registered, vars, dbVars
<1>1. [status |-> status, body |-> body] \in Response
  BY DEF Response
<1> QED
  BY <1>1

\* A handler runs on.
LEMMA AwaitInv ==
  ASSUME ServiceInv, NEW c \in Client, NEW call \in LoginCall \cup KeyCall,
         Await(c, call), service[c] # Null, UNCHANGED <<vars, tokens>>,
         call.at = "compare" => call.user \in users,
         call.at \in {"findById", "access", "readFile"} => Registered(call.member)
  PROVE  ServiceInv'
  BY DEF ServiceInv, ServiceTypeOK, TokensHaveAccounts, RunningIsUnanswered,
         NotNotFound, At, Await, Registered, vars, dbVars

\* Which awaits have which handlers.
LEMMA Calls ==
  ASSUME ServiceInv, NEW c \in Client
  PROVE  /\ At(c, "findOne") \/ At(c, "compare") => service[c] \in LoginCall
         /\ At(c, "findById") \/ At(c, "access") \/ At(c, "readFile") =>
                service[c] \in KeyCall /\ Registered(service[c].member)
  BY DEF ServiceInv, ServiceTypeOK, TokensHaveAccounts, At, LoginCall, KeyCall

LEMMA LoginInv ==
  ASSUME TypeOK, ServiceInv, NEW c \in Client, FindAccount(c) \/ ComparePassword(c)
  PROVE  ServiceInv'
<1>1. CASE FindAccount(c)
  <2>1. service[c] \in LoginCall /\ service[c] # Null
    BY <1>1, Calls DEF FindAccount, At
  <2>2. ASSUME NEW u \in users,
               Await(c, [at |-> "compare", email |-> service[c].email,
                         password |-> service[c].password, user |-> u])
        PROVE  ServiceInv'
    <3> DEFINE call == [at |-> "compare", email |-> service[c].email,
                        password |-> service[c].password, user |-> u]
    <3>1. call \in LoginCall
      BY <2>1 DEF LoginCall, TypeOK
    <3>2. UNCHANGED <<vars, tokens>>
      BY <1>1 DEF FindAccount
    <3> HIDE DEF call
    <3>3. Await(c, call) /\ call.at = "compare" /\ call.user \in users
      BY <2>2 DEF call
    <3> QED
      BY <2>1, <3>1, <3>2, <3>3, AwaitInv
  <2>3. CASE Respond(c, 400, Null)
    BY <1>1, <2>3, RespondInv DEF FindAccount, ServiceInv, ServiceTypeOK,
                                  TokensHaveAccounts
  <2> QED
    BY <1>1, <2>2, <2>3 DEF FindAccount
<1>2. CASE ComparePassword(c)
  <2>1. service[c].user \in users
    BY <1>2 DEF ComparePassword, ServiceInv, TokensHaveAccounts
  <2>2. service[c].user.email \in Member /\ Registered(service[c].user.email)
    BY <2>1 DEF TypeOK, User, Registered
  <2>3. tokens' \subseteq Member /\ \A m \in tokens' : Registered(m)
    BY <1>2, <2>2 DEF ComparePassword, ServiceInv, ServiceTypeOK,
                      TokensHaveAccounts
  <2>4. Respond(c, 200, Null) \/ Respond(c, 400, Null)
    BY <1>2 DEF ComparePassword
  <2> QED
    BY <1>2, <2>3, <2>4, RespondInv DEF ComparePassword
<1> QED
  BY <1>1, <1>2

LEMMA GetKeyInv ==
  ASSUME RegistrationInv, ServiceInv, NEW c \in Client,
         FindKeyPath(c) \/ AccessKey(c) \/ ReadKey(c)
  PROVE  ServiceInv'
<1>1. service[c] \in KeyCall /\ Registered(service[c].member) /\ service[c] # Null
  BY Calls DEF FindKeyPath, AccessKey, ReadKey, At
<1>2. UNCHANGED <<vars, tokens>>
  BY DEF FindKeyPath, AccessKey, ReadKey
<1>3. service[c].member \in Member /\ userKey[service[c].member] \in File
  BY <1>1 DEF KeyCall, RegistrationInv, TypeInv, TypeOK
<1>4. ~KeygenMayFail => userKey[service[c].member] # "absent"
  BY <1>1 DEF RegistrationInv, KeyInv, InstalledStays, Registered
<1>5. /\ tokens' \subseteq Member
      /\ \A m \in tokens' : Registered(m)
  BY <1>2 DEF ServiceInv, ServiceTypeOK, TokensHaveAccounts
<1>6. ASSUME NEW await \in {"access", "readFile"},
             Await(c, [at |-> await, member |-> service[c].member])
      PROVE  ServiceInv'
  <2> DEFINE call == [at |-> await, member |-> service[c].member]
  <2>1. call \in KeyCall /\ call.at # "compare" /\ Registered(call.member)
    BY <1>1, <1>3 DEF KeyCall
  <2>2. Await(c, call)
    BY <1>6
  <2> HIDE DEF call
  <2> QED
    BY <1>1, <1>2, <2>1, <2>2, AwaitInv
<1>7. CASE FindKeyPath(c)
  BY <1>1, <1>6, <1>7 DEF FindKeyPath
<1>8. CASE AccessKey(c)
  <2>1. CASE userKey[service[c].member] = "absent"
    BY <1>2, <1>4, <1>5, <1>8, <2>1, RespondInv DEF AccessKey, RegistrationInv
  <2>2. CASE userKey[service[c].member] # "absent"
    BY <1>6, <1>8, <2>2 DEF AccessKey
  <2> QED
    BY <2>1, <2>2
<1>9. CASE ReadKey(c)
  <2>1. Respond(c, 500, Null) \/ Respond(c, 200, userKey[service[c].member])
    BY <1>9 DEF ReadKey
  <2> QED
    BY <1>2, <1>3, <1>5, <2>1, RespondInv
<1> QED
  BY <1>7, <1>8, <1>9

LEMMA ServiceStep ==
  ASSUME RegistrationInv, ServiceInv, [ServiceNext]_serverVars
  PROVE  ServiceInv'
<1>1. CASE Register
  BY <1>1, RegisterInv
<1>2. ASSUME NEW c \in Client, Serve(c) PROVE ServiceInv'
  <2>1. CASE StartLogin(c) \/ StartGetKey(c)
    BY <2>1, ReceiveInv
  <2>2. CASE FindAccount(c) \/ ComparePassword(c)
    BY <2>2, LoginInv DEF RegistrationInv, TypeInv
  <2>3. CASE FindKeyPath(c) \/ AccessKey(c) \/ ReadKey(c)
    BY <2>3, GetKeyInv
  <2>4. CASE ServiceRejected(c)
    BY <2>4, RespondInv DEF ServiceRejected, ServiceInv, ServiceTypeOK,
                            TokensHaveAccounts
  <2> QED
    BY <1>2, <2>1, <2>2, <2>3, <2>4 DEF Serve
<1>3. CASE UNCHANGED serverVars
  BY <1>3 DEF serverVars, serviceVars, vars, dbVars, ServiceInv, ServiceTypeOK,
              TokensHaveAccounts, RunningIsUnanswered, NotNotFound, At, Registered
<1> QED
  BY <1>1, <1>2, <1>3 DEF ServiceNext

LEMMA ServiceInvariant == ServiceSpec => [](RegistrationInv /\ ServiceInv)
<1>1. ServiceSpec => []RegistrationInv
  BY ServiceImplementsRegistration, RegistrationInvariant, PTL
<1>2. RegistrationInv /\ ServiceInv /\ [ServiceNext]_serverVars => ServiceInv'
  BY ServiceStep
<1> QED
  BY <1>1, <1>2, ServiceInitInv, PTL DEF ServiceSpec

-----------------------------------------------------------------------------
\* The types of the service's state: only members have tokens, whatever
\* address they typed.
THEOREM ServiceTypeCorrect == ServiceSpec => []ServiceTypeOK
<1>1. RegistrationInv /\ ServiceInv => ServiceTypeOK
  BY DEF ServiceInv
<1> QED
  BY <1>1, ServiceInvariant, PTL

\* If keygen processes do not fail, whoever holds a token is served a key
\* file, however many registrations of the address are still running.
THEOREM KeyServed == ServiceSpec => [](~KeygenMayFail => KeyIsServed)
<1>1. RegistrationInv /\ ServiceInv => (~KeygenMayFail => KeyIsServed)
  <2> SUFFICES ASSUME RegistrationInv, ServiceInv, ~KeygenMayFail
               PROVE  KeyIsServed
    OBVIOUS
  <2>1. ASSUME NEW c \in Client, At(c, "readFile")
        PROVE  userKey[service[c].member] # "absent"
    BY <2>1, Calls DEF RegistrationInv, KeyInv, InstalledStays, Registered
  <2> QED
    BY <2>1 DEF KeyIsServed, ServiceInv, NotNotFound
<1> QED
  BY <1>1, ServiceInvariant, PTL

\* If keygen processes do not fail, a file that is served before it is
\* complete is one that a running process is about to complete.
THEOREM IncompleteServed ==
  ASSUME ~KeygenMayFail
  PROVE  ServiceSpec => IncompleteIsTransient
<1> DEFINE Transient ==
      \A c \in Client :
         At(c, "readFile") /\ response'[c] # Null
             /\ response'[c].body = "incomplete" =>
                \E r \in Request : /\ ident[r] = service[c].member
                                   /\ child[r] = "opened"
                                   /\ fd[r] = "keys"
<1>1. RegistrationInv /\ ServiceInv /\ [ServiceNext]_serverVars => Transient
  <2> SUFFICES ASSUME RegistrationInv, ServiceInv, [ServiceNext]_serverVars,
                      NEW c \in Client, At(c, "readFile"), response'[c] # Null,
                      response'[c].body = "incomplete"
               PROVE  \E r \in Request : /\ ident[r] = service[c].member
                                         /\ child[r] = "opened"
                                         /\ fd[r] = "keys"
    OBVIOUS
  <2>1. response[c] = Null /\ service[c] \in KeyCall
    BY Calls DEF At, ServiceInv, RunningIsUnanswered
  <2>2. PICK d \in Client : Serve(d)
    BY <2>1 DEF ServiceNext, Register, serverVars, serviceVars
  <2>3. d = c
    BY <2>1, <2>2 DEF Serve, StartLogin, StartGetKey, Receive, FindAccount,
                      ComparePassword, FindKeyPath, AccessKey, ReadKey,
                      ServiceRejected, Await, Respond, ServiceInv, ServiceTypeOK
  <2>4. ReadKey(c) \/ ServiceRejected(c)
    BY <2>2, <2>3, <2>1 DEF Serve, StartLogin, StartGetKey, Receive, FindAccount,
                            ComparePassword, FindKeyPath, AccessKey, At
  <2>5. userKey[service[c].member] = "incomplete"
    BY <2>4, ServiceNullAssumption
       DEF ReadKey, ServiceRejected, Respond, ServiceInv, ServiceTypeOK, File
  <2>6. PICK r \in Request : ident[r] = service[c].member /\ fd[r] = "keys"
    BY <2>1, <2>5 DEF RegistrationInv, KeyInv, IncompleteHasWriter, KeyCall
  <2> QED
    BY <2>6 DEF RegistrationInv, KeyInv, StreamsAreOpen
<1>2. IncompleteIsTransient <=> [][Transient]_serverVars
  BY DEF IncompleteIsTransient
<1> QED
  BY <1>1, <1>2, ServiceInvariant, PTL DEF ServiceSpec
=============================================================================
