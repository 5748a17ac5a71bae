----------------------------- MODULE KeyService -----------------------------
(***************************************************************************)
(* Login and the private key service, beside the registration whose        *)
(* accounts and key files they read: loginUser of                          *)
(* server/controllers/authController.js, server/middleware/                *)
(* authMiddleware.js and getPrivateKey of                                  *)
(* server/controllers/userController.js.                                   *)
(***************************************************************************)
EXTENDS Registration

CONSTANT Client     \* slots for concurrent login and key requests

VARIABLES
    tokens,     \* members for whom a JSON web token was signed
    service,    \* the handler of each slot, at its await
    response    \* the last response on each slot

serviceVars == <<tokens, service, response>>
serverVars  == <<vars, serviceVars>>

\* loginUser: the address and the password as typed, the account read.
LoginCall == [at : {"findOne", "compare"}, email : Address,
              password : Password, user : User \cup {Null}]

\* getPrivateKey: the member the token names.
KeyCall == [at : {"findById", "access", "readFile"}, member : Member]

Response == [status : {200, 400, 404, 500}, body : File \cup {Null}]

ASSUME ServiceNullAssumption ==
    Null \notin LoginCall \cup KeyCall \cup Response \cup File

ServiceTypeOK ==
    /\ tokens \subseteq Member
    /\ service \in [Client -> LoginCall \cup KeyCall \cup {Null}]
    /\ response \in [Client -> Response \cup {Null}]

ServiceInit ==
    /\ Init
    /\ tokens = {}
    /\ service = [c \in Client |-> Null]
    /\ response = [c \in Client |-> Null]

-----------------------------------------------------------------------------
(* Handler bookkeeping.                                                    *)

At(c, await) == service[c] # Null /\ service[c].at = await

Receive(c, handler) ==
    /\ service[c] = Null
    /\ service' = [service EXCEPT ![c] = handler]
    /\ response' = [response EXCEPT ![c] = Null]
    /\ UNCHANGED <<vars, tokens>>

\* The handler runs on to its next await.
Await(c, handler) ==
    /\ service' = [service EXCEPT ![c] = handler]
    /\ UNCHANGED response

\* res.json(..), res.status(status).json(..) or .send(body).
Respond(c, status, body) ==
    /\ service' = [service EXCEPT ![c] = Null]
    /\ response' = [response EXCEPT ![c] = [status |-> status, body |-> body]]

-----------------------------------------------------------------------------
(* POST /api/auth/login                                                    *)

StartLogin(c) ==
    \E a \in Address, pw \in Password :
        Receive(c, [at |-> "findOne", email |-> a, password |-> pw,
                    user |-> Null])

FindAccount(c) ==
    /\ At(c, "findOne")
    /\ \/ \E u \in users :
            /\ u.email = Lower[service[c].email]
            /\ Await(c, [at |-> "compare", email |-> service[c].email,
                         password |-> service[c].password, user |-> u])
       \/ /\ ~Registered(Lower[service[c].email])
          /\ Respond(c, 400, Null)
    /\ UNCHANGED <<vars, tokens>>

\* Mutant: the payload takes the address from the request.
ComparePasswordAsTyped(c) ==
    /\ At(c, "compare")
    /\ IF service[c].password = service[c].user.password
       THEN Respond(c, 200, Null) /\ tokens' = tokens \cup {service[c].email}
       ELSE Respond(c, 400, Null) /\ UNCHANGED tokens
    /\ UNCHANGED vars

\* bcrypt.compare, and the token that jwt.sign makes of the account.
ComparePassword(c) ==
    /\ At(c, "compare")
    /\ IF service[c].password = service[c].user.password
       THEN Respond(c, 200, Null) /\ tokens' = tokens \cup {service[c].user.email}
       ELSE Respond(c, 400, Null) /\ UNCHANGED tokens
    /\ UNCHANGED vars

-----------------------------------------------------------------------------
(* GET /api/users/my-private-key                                           *)

\* authMiddleware lets a request with a token pass; a missing or expired one
\* is answered 401 with no effect, and is not worth a step.
StartGetKey(c) ==
    \E m \in tokens : Receive(c, [at |-> "findById", member |-> m])

FindKeyPath(c) ==
    /\ At(c, "findById")
    /\ IF Registered(service[c].member)
       THEN Await(c, [at |-> "access", member |-> service[c].member])
       ELSE Respond(c, 404, Null)
    /\ UNCHANGED <<vars, tokens>>

\* fs.access fails when the file is missing, and only then.
AccessKey(c) ==
    /\ At(c, "access")
    /\ IF userKey[service[c].member] = "absent"
       THEN Respond(c, 404, Null)
       ELSE Await(c, [at |-> "readFile", member |-> service[c].member])
    /\ UNCHANGED <<vars, tokens>>

\* Whatever the file holds is sent with status 200.
ReadKey(c) ==
    /\ At(c, "readFile")
    /\ IF userKey[service[c].member] = "absent"
       THEN Respond(c, 500, Null)
       ELSE Respond(c, 200, userKey[service[c].member])
    /\ UNCHANGED <<vars, tokens>>

\* An awaited call rejects: the catch of the handler answers 500.
ServiceRejected(c) ==
    /\ service[c] # Null
    /\ service[c].at # "access"
    /\ Respond(c, 500, Null)
    /\ UNCHANGED <<vars, tokens>>

-----------------------------------------------------------------------------
Serve(c) ==
    \/ StartLogin(c) \/ FindAccount(c) \/ ComparePassword(c)
    \/ StartGetKey(c) \/ FindKeyPath(c) \/ AccessKey(c) \/ ReadKey(c)
    \/ ServiceRejected(c)

\* Registration goes on; a crash of the process takes these handlers too.
Register ==
    /\ Next
    /\ service' = IF crashes' # crashes THEN [c \in Client |-> Null] ELSE service
    /\ UNCHANGED <<tokens, response>>

ServiceNext == Register \/ \E c \in Client : Serve(c)

ServiceSpec == ServiceInit /\ [][ServiceNext]_serverVars

\* Every promise a registration handler awaits settles (the driver, bcrypt and
\* nodemailer have time limits, execFile kills its child after 5 s), and the
\* operating system runs the children.  Nothing is assumed of clients, of the
\* clock, of the TTL reaper, of crashes or of the handlers of the service.
FairServiceSpec ==
    /\ ServiceSpec
    /\ \A r \in Request :
        /\ WF_serverVars(Handler(r) /\ UNCHANGED serviceVars)
        /\ WF_serverVars(Keygen(r) /\ UNCHANGED serviceVars)

-----------------------------------------------------------------------------
(* Properties.                                                             *)

\* Whoever can log in has a key to fetch: while registrations of the address
\* race, retry and crash, no request with a token is answered "not found",
\* and a file that was found is still there when it is read, unless a keygen
\* process failed (userController.js:29-58, authController.js:174-192).
KeyIsServed ==
    \A c \in Client :
        /\ response[c] # Null => response[c].status # 404
        /\ At(c, "readFile") => userKey[service[c].member] # "absent"

\* What is served is the key, or at worst the beginning of a key that a
\* running keygen process is about to complete: nobody is served a file that
\* stays damaged.
IncompleteIsTransient ==
    [][\A c \in Client :
         At(c, "readFile") /\ response'[c] # Null
             /\ response'[c].body = "incomplete" =>
                \E r \in Request : /\ ident[r] = service[c].member
                                   /\ child[r] = "opened"
                                   /\ fd[r] = "keys"]_serverVars
=============================================================================
