------------------------------- MODULE Session -------------------------------
(***************************************************************************)
(* Sessions of the React client: client/src/context/AuthContext.jsx.  Every*)
(* tab renders two AuthProviders, one inside the other (main.jsx, App.jsx):*)
(* pages and components use the inner one, both load the session when the  *)
(* tab is opened, and all providers of all tabs share localStorage.token.  *)
(* A token stands for the member it was issued to.                         *)
(***************************************************************************)
EXTENDS Integers, FiniteSets

CONSTANTS
    Tab,            \* browser tabs that share one localStorage
    Member,         \* users who may log in
    Call,           \* slots for concurrent GET /users/my-private-key calls
    Null,           \* null
    Empty,          \* '', the key that is read of an incomplete file
    IncompleteKeys  \* may the key file be served while keygen rewrites it?

Provider == Tab \X {"outer", "inner"}
Inner(t) == <<t, "inner">>
Outer(t) == <<t, "outer">>

\* A call in flight: the provider that awaits it, the token it bears.
Fetch == [by : Provider, token : Member]

ASSUME NullAssumption == Null \notin Member \cup Fetch

ASSUME EmptyAssumption == Empty \notin Member \cup {Null}

ASSUME IncompleteKeysBoolean == IncompleteKeys \in BOOLEAN

VARIABLES
    stored,     \* localStorage.token
    tab,        \* each tab: "closed", "rendered" or "ready"
    ctx,        \* the state of every provider
    call        \* the private key requests in flight

sessionVars == <<stored, tab, ctx, call>>

Context == [token : Member \cup {Null}, user : Member \cup {Null},
            key : Member \cup {Null, Empty}, loading : BOOLEAN, error : BOOLEAN]

TypeOK ==
    /\ stored \in Member \cup {Null}
    /\ tab \in [Tab -> {"closed", "rendered", "ready"}]
    /\ ctx \in [Provider -> Context]
    /\ call \in [Call -> Fetch \cup {Null}]

\* The state that logout leaves, and that of a provider without a token.
LoggedOut == [token |-> Null, user |-> Null, key |-> Null,
              loading |-> FALSE, error |-> FALSE]

\* The state of a provider whose useState initialisers have run.
Rendered(token) == [LoggedOut EXCEPT !.token = token]

\* The state once fetchPrivateKey has been called for the session of `m'.
Fetching(m) == [token |-> m, user |-> m, key |-> Null,
                loading |-> TRUE, error |-> FALSE]

InFlight(p) == {c \in Call : call[c] # Null /\ call[c].by = p}
Free        == {c \in Call : call[c] = Null}

Init ==
    /\ stored \in Member \cup {Null}
    /\ tab = [t \in Tab |-> "closed"]
    /\ ctx = [p \in Provider |-> LoggedOut]
    /\ call = [c \in Call |-> Null]

-----------------------------------------------------------------------------
\* The page is loaded: both providers render with the stored token.
Open(t) ==
    /\ tab[t] = "closed"
    /\ tab' = [tab EXCEPT ![t] = "rendered"]
    /\ ctx' = [ctx EXCEPT ![Inner(t)] = Rendered(stored),
                          ![Outer(t)] = Rendered(stored)]
    /\ UNCHANGED <<stored, call>>

\* The effect of both providers, the inner one's first.  The interceptor
\* takes the token of a call from localStorage in the same task.
Load(t) ==
    /\ tab[t] = "rendered"
    /\ tab' = [tab EXCEPT ![t] = "ready"]
    /\ \/ /\ stored = Null
          /\ UNCHANGED <<stored, ctx, call>>
       \/ \* The token has expired: the inner provider's logout removes it,
          \* and the outer one finds none.
          /\ stored # Null
          /\ stored' = Null
          /\ ctx' = [ctx EXCEPT ![Inner(t)] = LoggedOut]
          /\ UNCHANGED call
       \/ /\ stored # Null
          /\ ctx' = [ctx EXCEPT ![Inner(t)] = Fetching(stored),
                                ![Outer(t)] = Fetching(stored)]
          /\ \E c, d \in Free :
                /\ c # d
                /\ call' = [call EXCEPT
                              ![c] = [by |-> Inner(t), token |-> stored],
                              ![d] = [by |-> Outer(t), token |-> stored]]
          /\ UNCHANGED stored

\* The tab is closed or reloaded: its state and its calls are lost.
Close(t) ==
    /\ tab[t] # "closed"
    /\ tab' = [tab EXCEPT ![t] = "closed"]
    /\ ctx' = [ctx EXCEPT ![Inner(t)] = LoggedOut, ![Outer(t)] = LoggedOut]
    /\ call' = [c \in Call |->
                  IF call[c] # Null /\ call[c].by \in {Inner(t), Outer(t)}
                  THEN Null ELSE call[c]]
    /\ UNCHANGED stored

\* Mutant: the token is stored, and set in the state only on the next load.
LoginNoSetToken(t, m) ==
    /\ tab[t] = "ready"
    /\ stored' = m
    /\ ctx' = [ctx EXCEPT ![Inner(t)] =
                 [@ EXCEPT !.key = Null, !.loading = TRUE, !.error = FALSE]]
    /\ \E c \in Free :
        call' = [call EXCEPT ![c] = [by |-> Inner(t), token |-> m]]
    /\ UNCHANGED tab

\* POST /auth/login was answered with a token for `m': Login.jsx calls login
\* of the inner provider.  It may be logged in already.
Login(t, m) ==
    /\ tab[t] = "ready"
    /\ stored' = m
    /\ ctx' = [ctx EXCEPT ![Inner(t)] = Fetching(m)]
    /\ \E c \in Free :
        call' = [call EXCEPT ![c] = [by |-> Inner(t), token |-> m]]
    /\ UNCHANGED tab

\* Mutant: setItem('token', null) stores a string.
LogoutSetItem(t) ==
    /\ tab[t] = "ready"
    /\ ctx[Inner(t)].token # Null
    /\ stored' = "null"
    /\ ctx' = [ctx EXCEPT ![Inner(t)] = LoggedOut]
    /\ UNCHANGED <<tab, call>>

\* Mutant: the token is removed, and the state is kept until the next load.
LogoutKeepsState(t) ==
    /\ tab[t] = "ready"
    /\ ctx[Inner(t)].token # Null
    /\ stored' = Null
    /\ UNCHANGED <<ctx, tab, call>>

\* The Logout button of Navbar.jsx.
Logout(t) ==
    /\ tab[t] = "ready"
    /\ ctx[Inner(t)].token # Null
    /\ stored' = Null
    /\ ctx' = [ctx EXCEPT ![Inner(t)] = LoggedOut]
    /\ UNCHANGED <<tab, call>>

Done(c) == call' = [call EXCEPT ![c] = Null] /\ UNCHANGED tab

\* A provider's state when its call has ended.
Settled(context, key, error) ==
    [context EXCEPT !.key = key, !.loading = FALSE, !.error = error]

\* Mutant: loading is left on when the key arrives.
KeyArrivesLoading(c) ==
    /\ call[c] # Null
    /\ ctx' = [ctx EXCEPT ![call[c].by] = [@ EXCEPT !.key = call[c].token]]
    /\ UNCHANGED stored
    /\ Done(c)

\* 200: the key of the token's owner, or the empty string that an
\* incomplete file gives, which is stored like a key.
KeyArrives(c) ==
    /\ call[c] # Null
    /\ \E key \in {call[c].token} \cup (IF IncompleteKeys THEN {Empty} ELSE {}) :
        ctx' = [ctx EXCEPT ![call[c].by] = Settled(@, key, @.error)]
    /\ UNCHANGED stored
    /\ Done(c)

\* 401 or 403: logout, and then the error.
FetchDenied(c) ==
    /\ call[c] # Null
    /\ stored' = Null
    /\ ctx' = [ctx EXCEPT ![call[c].by] = [LoggedOut EXCEPT !.error = TRUE]]
    /\ Done(c)

\* Mutant: the key is cleared and the error forgotten.
FetchFailsNoError(c) ==
    /\ call[c] # Null
    /\ ctx' = [ctx EXCEPT ![call[c].by] = Settled(@, Null, @.error)]
    /\ UNCHANGED stored
    /\ Done(c)

\* 404, 500 or no answer.
FetchFails(c) ==
    /\ call[c] # Null
    /\ ctx' = [ctx EXCEPT ![call[c].by] = Settled(@, Null, TRUE)]
    /\ UNCHANGED stored
    /\ Done(c)

Answer(c) == KeyArrives(c) \/ FetchDenied(c) \/ FetchFails(c)

User(t) ==
    \/ Open(t) \/ Load(t) \/ Close(t) \/ Logout(t)
    \/ \E m \in Member : Login(t, m)

SessionNext ==
    \/ \E t \in Tab : User(t)
    \/ \E c \in Call : Answer(c)

SessionSpec == Init /\ [][SessionNext]_sessionVars

\* The browser ends every call, with an answer or with an error.  Nothing is
\* assumed of the user.
FairSessionSpec ==
    SessionSpec /\ \A c \in Call : WF_sessionVars(Answer(c))

-----------------------------------------------------------------------------
(* Properties.                                                             *)

\* A provider that shows "loading" has a call in flight that will end it,
\* however logins, logouts and answers of older calls interleave
\* (AuthContext.jsx:57, 62, 98).
LoadingHasCall ==
    \A p \in Provider : ctx[p].loading => InFlight(p) # {}

\* A key never loads forever.
LoadingEnds ==
    \A p \in Provider : ctx[p].loading ~> ~ctx[p].loading

\* Of one tab: a session that waits for no call shows what its calls came to,
\* a key or an error; it has neither only if the server answered 200 with an
\* incomplete file, whose empty string disables the buttons as a missing key
\* does and sets no error (AuthContext.jsx:62-98, FileUpload.jsx:247).
SettledSession ==
    \A t \in Tab :
        tab[t] = "ready" /\ ctx[Inner(t)].token # Null /\ InFlight(Inner(t)) = {}
            => ctx[Inner(t)].key # Null \/ ctx[Inner(t)].error

\* Of one tab: whatever request the interceptor sends on behalf of the tab
\* bears the token of the session the pages show, or none, so the server
\* never takes it for another user's (AuthContext.jsx:14-19, 40-42, 136-138).
StoredIsSession ==
    \A t \in Tab :
        tab[t] = "ready" /\ stored # Null => stored = ctx[Inner(t)].token

\* Of one tab: the stored token is taken from a session that goes on only by
\* the outer provider, and only when the server refuses a call it made: by the
\* page's own logout, an expired token or a refused call of the inner provider
\* the session ends with its token (AuthContext.jsx:39-48, 80-84).
OnlyOuterDenialStrips ==
    [][\A t \in Tab :
         (/\ tab[t] = "ready" /\ stored # Null /\ stored' = Null
          /\ ctx[Inner(t)].token # Null /\ ctx'[Inner(t)].token # Null)
            => \E c \in InFlight(Outer(t)) : FetchDenied(c)]_sessionVars

\* "Base64 encoded private key of logged-in user" (FileUpload.jsx:58).
KeyMatchesUser ==
    \A t \in Tab :
        LET c == ctx[Inner(t)] IN
        c.user # Null /\ c.key \in Member => c.key = c.user
=============================================================================
