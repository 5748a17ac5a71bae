---------------------------- MODULE SessionProofs ----------------------------
(***************************************************************************)
(* What holds of Session for every number of tabs, members and calls.      *)
(***************************************************************************)
EXTENDS Session, TLAPS

\* A provider is the inner or the outer one of a tab.
LEMMA Providers ==
  /\ \A t \in Tab : Inner(t) \in Provider /\ Outer(t) \in Provider
  /\ \A t, u \in Tab : Inner(t) # Outer(u)
  /\ \A t, u \in Tab : t # u => Inner(t) # Inner(u) /\ Outer(t) # Outer(u)
  BY DEF Provider, Inner, Outer

\* The contexts that the steps build are contexts.
LEMMA Contexts ==
  /\ LoggedOut \in Context
  /\ [LoggedOut EXCEPT !.error = TRUE] \in Context
  /\ \A m \in Member \cup {Null} : Rendered(m) \in Context
  /\ \A m \in Member : Fetching(m) \in Context
  BY DEF LoggedOut, Context, Rendered, Fetching

LEMMA SettledContext ==
  ASSUME NEW x \in Context, NEW k \in Member \cup {Null, Empty}, NEW e \in BOOLEAN
  PROVE  Settled(x, k, e) \in Context
  BY DEF Settled, Context

LEMMA SettledEnds ==
  ASSUME NEW x \in Context, NEW k \in Member \cup {Null, Empty}, NEW e \in BOOLEAN
  PROVE  /\ ~Settled(x, k, e).loading
         /\ Settled(x, k, e).token = x.token
         /\ Settled(x, k, e).key = k
         /\ Settled(x, k, e).error = e
  BY DEF Settled, Context

\* The call that is answered is one of a provider.
LEMMA Caller ==
  ASSUME TypeOK, NEW c \in Call, call[c] # Null
  PROVE  /\ call[c].by \in Provider
         /\ call[c].token \in Member
         /\ ctx[call[c].by] \in Context
         /\ ctx[call[c].by].error \in BOOLEAN
  BY DEF TypeOK, Fetch, Context

LEMMA TypeInit == Init => TypeOK
  BY Contexts DEF Init, TypeOK

LEMMA TypeStep == TypeOK /\ [SessionNext]_sessionVars => TypeOK'
<1> SUFFICES ASSUME TypeOK, [SessionNext]_sessionVars PROVE TypeOK'
  OBVIOUS
<1> USE Providers, Contexts DEF TypeOK
<1>1. ASSUME NEW t \in Tab, Open(t) PROVE TypeOK'
  BY <1>1 DEF Open
<1>2. ASSUME NEW t \in Tab, Load(t) PROVE TypeOK'
  BY <1>2 DEF Load, Free, Fetch
<1>3. ASSUME NEW t \in Tab, Close(t) PROVE TypeOK'
  BY <1>3 DEF Close
<1>4. ASSUME NEW t \in Tab, Logout(t) PROVE TypeOK'
  BY <1>4 DEF Logout
<1>5. ASSUME NEW t \in Tab, NEW m \in Member, Login(t, m) PROVE TypeOK'
  BY <1>5 DEF Login, Free, Fetch
<1>6. ASSUME NEW c \in Call, KeyArrives(c) PROVE TypeOK'
  <2>1. PICK key \in Member \cup {Null, Empty} :
          ctx' = [ctx EXCEPT ![call[c].by] =
                    Settled(ctx[call[c].by], key, ctx[call[c].by].error)]
    BY <1>6, Caller DEF KeyArrives
  <2>2. Settled(ctx[call[c].by], key, ctx[call[c].by].error) \in Context
    BY <1>6, Caller, SettledContext DEF KeyArrives
  <2> QED
    BY <1>6, <2>1, <2>2 DEF KeyArrives, Done
<1>7. ASSUME NEW c \in Call, FetchDenied(c) PROVE TypeOK'
  BY <1>7 DEF FetchDenied, Done
<1>8. ASSUME NEW c \in Call, FetchFails(c) PROVE TypeOK'
  <2>1. Settled(ctx[call[c].by], Null, TRUE) \in Context
    BY <1>8, Caller, SettledContext DEF FetchFails
  <2> QED
    BY <1>8, <2>1 DEF FetchFails, Done
<1>9. CASE UNCHANGED sessionVars
  BY <1>9 DEF sessionVars
<1> QED
  BY <1>1, <1>2, <1>3, <1>4, <1>5, <1>6, <1>7, <1>8, <1>9
     DEF SessionNext, User, Answer

\* Type correctness of the client's session state.
THEOREM TypeCorrect == SessionSpec => []TypeOK
<1>1. Init => TypeOK
  BY TypeInit
<1>2. TypeOK /\ [SessionNext]_sessionVars => TypeOK'
  BY TypeStep
<1> QED
  BY <1>1, <1>2, PTL DEF SessionSpec
-----------------------------------------------------------------------------
(* Loading.                                                                *)

LEMMA LoadingInit == Init => LoadingHasCall
  BY Providers DEF Init, LoadingHasCall, LoggedOut

\* A step that ends call c and settles its provider keeps LoadingHasCall:
\* every other provider keeps its state and its calls.
LEMMA LoadingAnswer ==
  ASSUME TypeOK, LoadingHasCall, NEW c \in Call, call[c] # Null,
         NEW x \in Context, ~x.loading, Done(c),
         ctx' = [ctx EXCEPT ![call[c].by] = x]
  PROVE  LoadingHasCall'
<1> SUFFICES ASSUME NEW p \in Provider, ctx'[p].loading
             PROVE  InFlight(p)' # {}
  BY DEF LoadingHasCall
<1>1. p # call[c].by /\ ctx[p].loading
  BY Caller DEF TypeOK
<1>2. PICK d \in Call : call[d] # Null /\ call[d].by = p
  BY <1>1 DEF LoadingHasCall, InFlight
<1>3. call'[d] = call[d]
  BY <1>1, <1>2 DEF Done, TypeOK
<1> QED
  BY <1>2, <1>3 DEF InFlight

LEMMA LoadingStep ==
  TypeOK /\ LoadingHasCall /\ [SessionNext]_sessionVars => LoadingHasCall'
<1> SUFFICES ASSUME TypeOK, LoadingHasCall, [SessionNext]_sessionVars
             PROVE  LoadingHasCall'
  OBVIOUS
<1> USE Providers
<1>1. ASSUME NEW t \in Tab, Open(t) PROVE LoadingHasCall'
  BY <1>1 DEF Open, LoadingHasCall, InFlight, Rendered, LoggedOut, TypeOK
<1>2. ASSUME NEW t \in Tab, Load(t) PROVE LoadingHasCall'
  <2>1. CASE UNCHANGED <<ctx, call>>
    BY <2>1 DEF LoadingHasCall, InFlight
  <2>2. CASE /\ ctx' = [ctx EXCEPT ![Inner(t)] = LoggedOut]
             /\ UNCHANGED call
    BY <2>2 DEF LoadingHasCall, InFlight, LoggedOut, TypeOK
  <2>3. CASE /\ stored # Null
             /\ ctx' = [ctx EXCEPT ![Inner(t)] = Fetching(stored),
                                   ![Outer(t)] = Fetching(stored)]
             /\ \E c, d \in Free :
                  /\ c # d
                  /\ call' = [call EXCEPT
                                ![c] = [by |-> Inner(t), token |-> stored],
                                ![d] = [by |-> Outer(t), token |-> stored]]
    <3>1. PICK c \in Call, d \in Call :
            /\ call[c] = Null /\ call[d] = Null /\ c # d
            /\ call' = [call EXCEPT
                          ![c] = [by |-> Inner(t), token |-> stored],
                          ![d] = [by |-> Outer(t), token |-> stored]]
      BY <2>3 DEF Free
    <3>2. SUFFICES ASSUME NEW p \in Provider, ctx'[p].loading
                   PROVE  \E e \in Call : call'[e] # Null /\ call'[e].by = p
      BY <3>2 DEF LoadingHasCall, InFlight
    <3>3. call'[c] = [by |-> Inner(t), token |-> stored]
          /\ call'[d] = [by |-> Outer(t), token |-> stored]
      BY <3>1 DEF TypeOK
    <3>4. call'[c] # Null /\ call'[d] # Null
      <4>1. Null \notin [by : Provider, token : Member]
        BY NullAssumption DEF Fetch
      <4>2. stored \in Member
        BY <2>3 DEF TypeOK
      <4> QED
        BY <3>3, <4>1, <4>2
    <3>5. CASE p = Inner(t)
      BY <3>3, <3>4, <3>5
    <3>6. CASE p = Outer(t)
      BY <3>3, <3>4, <3>6
    <3>7. CASE p # Inner(t) /\ p # Outer(t)
      <4>1. ctx[p].loading
        BY <2>3, <3>2, <3>7 DEF TypeOK
      <4>2. PICK e \in Call : call[e] # Null /\ call[e].by = p
        BY <4>1 DEF LoadingHasCall, InFlight
      <4> QED
        BY <3>1, <4>2 DEF TypeOK
    <3> QED
      BY <3>5, <3>6, <3>7
  <2> QED
    BY <1>2, <2>1, <2>2, <2>3 DEF Load
<1>3. ASSUME NEW t \in Tab, Close(t) PROVE LoadingHasCall'
  <2>1. SUFFICES ASSUME NEW p \in Provider, ctx'[p].loading
                 PROVE  InFlight(p)' # {}
    BY <2>1 DEF LoadingHasCall
  <2>2. p \notin {Inner(t), Outer(t)} /\ ctx[p].loading
    BY <1>3, <2>1 DEF Close, LoggedOut, TypeOK
  <2>3. PICK e \in Call : call[e] # Null /\ call[e].by = p
    BY <2>2 DEF LoadingHasCall, InFlight
  <2> QED
    BY <1>3, <2>2, <2>3 DEF Close, InFlight
<1>4. ASSUME NEW t \in Tab, Logout(t) PROVE LoadingHasCall'
  BY <1>4 DEF Logout, LoadingHasCall, InFlight, LoggedOut, TypeOK
<1>5. ASSUME NEW t \in Tab, NEW m \in Member, Login(t, m)
      PROVE  LoadingHasCall'
  <2>1. PICK c \in Call :
          /\ call[c] = Null
          /\ call' = [call EXCEPT ![c] = [by |-> Inner(t), token |-> m]]
    BY <1>5 DEF Login, Free
  <2>2. SUFFICES ASSUME NEW p \in Provider, ctx'[p].loading
                 PROVE  \E e \in Call : call'[e] # Null /\ call'[e].by = p
    BY <2>2 DEF LoadingHasCall, InFlight
  <2>3. CASE p = Inner(t)
    <3>1. call'[c] = [by |-> Inner(t), token |-> m]
      BY <2>1 DEF TypeOK
    <3> QED
      BY <2>3, <3>1, NullAssumption DEF Fetch
  <2>4. CASE p # Inner(t)
    <3>1. ctx[p].loading
      BY <1>5, <2>2, <2>4 DEF Login, TypeOK
    <3>2. PICK e \in Call : call[e] # Null /\ call[e].by = p
      BY <3>1 DEF LoadingHasCall, InFlight
    <3> QED
      BY <2>1, <3>2 DEF TypeOK
  <2> QED
    BY <2>3, <2>4
<1>6. ASSUME NEW c \in Call, KeyArrives(c) PROVE LoadingHasCall'
  <2>1. PICK key \in Member \cup {Null, Empty} :
          ctx' = [ctx EXCEPT ![call[c].by] =
                    Settled(ctx[call[c].by], key, ctx[call[c].by].error)]
    BY <1>6, Caller DEF KeyArrives
  <2>2. /\ Settled(ctx[call[c].by], key, ctx[call[c].by].error) \in Context
        /\ ~Settled(ctx[call[c].by], key, ctx[call[c].by].error).loading
    BY <1>6, Caller, SettledContext, SettledEnds DEF KeyArrives
  <2> QED
    BY <1>6, <2>1, <2>2, LoadingAnswer DEF KeyArrives
<1>7. ASSUME NEW c \in Call, FetchDenied(c) PROVE LoadingHasCall'
  <2>1. ~[LoggedOut EXCEPT !.error = TRUE].loading
    BY DEF LoggedOut
  <2> QED
    BY <1>7, <2>1, Contexts, LoadingAnswer DEF FetchDenied
<1>8. ASSUME NEW c \in Call, FetchFails(c) PROVE LoadingHasCall'
  <2>1. /\ Settled(ctx[call[c].by], Null, TRUE) \in Context
        /\ ~Settled(ctx[call[c].by], Null, TRUE).loading
    BY <1>8, Caller, SettledContext, SettledEnds DEF FetchFails
  <2> QED
    BY <1>8, <2>1, LoadingAnswer DEF FetchFails
<1>9. CASE UNCHANGED sessionVars
  BY <1>9 DEF sessionVars, LoadingHasCall, InFlight
<1> QED
  BY <1>1, <1>2, <1>3, <1>4, <1>5, <1>6, <1>7, <1>8, <1>9
     DEF SessionNext, User, Answer

\* However logins, logouts, reloads and answers interleave, in any number of
\* tabs, a provider that is loading has a call in flight.
THEOREM LoadingCorrect == SessionSpec => []LoadingHasCall
<1>1. Init => LoadingHasCall
  BY LoadingInit
<1>2. TypeOK /\ LoadingHasCall /\ [SessionNext]_sessionVars => LoadingHasCall'
  BY LoadingStep
<1> QED
  BY <1>1, <1>2, TypeCorrect, PTL DEF SessionSpec

-----------------------------------------------------------------------------
(* One tab.                                                                *)

\* Between its first render and its effects, the inner provider shows the
\* stored token.
RenderedShowsStored ==
    \A t \in Tab : tab[t] = "rendered" => ctx[Inner(t)].token = stored

\* Only the effects and the pages they enable start calls.
CallsAreOfReadyTabs ==
    \A t \in Tab : tab[t] # "ready" =>
        InFlight(Inner(t)) = {} /\ InFlight(Outer(t)) = {}

OneTabInv ==
    /\ StoredIsSession
    /\ SettledSession
    /\ RenderedShowsStored
    /\ CallsAreOfReadyTabs

LEMMA OneTabInit == Init => OneTabInv
  BY Providers DEF Init, OneTabInv, StoredIsSession, SettledSession,
     RenderedShowsStored, CallsAreOfReadyTabs, InFlight

LEMMA OneTabStep ==
  ASSUME \A t, u \in Tab : t = u,
         TypeOK, OneTabInv, [SessionNext]_sessionVars
  PROVE  OneTabInv'
<1> USE Providers DEF TypeOK, OneTabInv, StoredIsSession, SettledSession,
        RenderedShowsStored, CallsAreOfReadyTabs, InFlight
<1>1. ASSUME NEW t \in Tab, Open(t) PROVE OneTabInv'
  BY <1>1, Contexts DEF Open, Rendered, LoggedOut
<1>2. ASSUME NEW t \in Tab, Load(t) PROVE OneTabInv'
  <2>1. CASE stored = Null /\ UNCHANGED <<stored, ctx, call>>
    BY <1>2, <2>1 DEF Load
  <2>2. CASE /\ stored' = Null
             /\ ctx' = [ctx EXCEPT ![Inner(t)] = LoggedOut]
             /\ UNCHANGED call
    BY <1>2, <2>2 DEF Load, LoggedOut
  <2>3. CASE /\ ctx' = [ctx EXCEPT ![Inner(t)] = Fetching(stored),
                                   ![Outer(t)] = Fetching(stored)]
             /\ \E c, d \in Free :
                  /\ c # d
                  /\ call' = [call EXCEPT
                                ![c] = [by |-> Inner(t), token |-> stored],
                                ![d] = [by |-> Outer(t), token |-> stored]]
             /\ stored # Null
             /\ UNCHANGED stored
    <3>1. ctx'[Inner(t)].token = stored
      BY <2>3 DEF Fetching
    <3>2. InFlight(Inner(t))' # {}
      <4>1. PICK c \in Call, d \in Call :
              /\ c # d
              /\ call' = [call EXCEPT
                            ![c] = [by |-> Inner(t), token |-> stored],
                            ![d] = [by |-> Outer(t), token |-> stored]]
        BY <2>3 DEF Free
      <4>2. call'[c] = [by |-> Inner(t), token |-> stored]
        BY <4>1
      <4>3. call'[c] # Null
        BY <2>3, <4>2, NullAssumption DEF Fetch
      <4> QED
        BY <4>2, <4>3
    <3> QED
      BY <1>2, <2>3, <3>1, <3>2 DEF Load
  <2> QED
    BY <1>2, <2>1, <2>2, <2>3 DEF Load
<1>3. ASSUME NEW t \in Tab, Close(t) PROVE OneTabInv'
  BY <1>3, Contexts DEF Close
<1>4. ASSUME NEW t \in Tab, Logout(t) PROVE OneTabInv'
  BY <1>4 DEF Logout, LoggedOut
<1>5. ASSUME NEW t \in Tab, NEW m \in Member, Login(t, m) PROVE OneTabInv'
  <2>1. ctx'[Inner(t)].token = m /\ stored' = m /\ tab'[t] = "ready"
    BY <1>5 DEF Login, Fetching
  <2>2. InFlight(Inner(t))' # {}
    <3>1. PICK c \in Call :
            call' = [call EXCEPT ![c] = [by |-> Inner(t), token |-> m]]
      BY <1>5 DEF Login, Free
    <3>2. call'[c] = [by |-> Inner(t), token |-> m] /\ call'[c] # Null
      BY <3>1, NullAssumption DEF Fetch
    <3> QED
      BY <3>2
  <2> QED
    BY <1>5, <2>1, <2>2 DEF Login
<1>6. ASSUME NEW c \in Call, call[c] # Null, Done(c),
             \/ /\ UNCHANGED stored
                /\ \E x \in Context :
                     /\ x.token = ctx[call[c].by].token
                     /\ x.key # Null \/ x.error
                     /\ ctx' = [ctx EXCEPT ![call[c].by] = x]
             \/ /\ stored' = Null
                /\ ctx' = [ctx EXCEPT ![call[c].by] =
                             [LoggedOut EXCEPT !.error = TRUE]]
      PROVE  OneTabInv'
  <2>1. PICK t \in Tab : call[c].by \in {Inner(t), Outer(t)}
    BY <1>6, Caller DEF Provider, Inner, Outer
  <2>2. tab[t] = "ready" /\ tab' = tab
    BY <1>6, <2>1 DEF Done
  <2>3. CASE call[c].by = Inner(t)
    BY <1>6, <2>2, <2>3, Contexts DEF Done, LoggedOut
  <2>4. CASE call[c].by = Outer(t)
    <3>1. ctx'[Inner(t)] = ctx[Inner(t)]
      BY <1>6, <2>4
    <3>2. InFlight(Inner(t))' = InFlight(Inner(t))
      BY <1>6, <2>4 DEF Done
    <3>3. stored' \in {stored, Null}
      BY <1>6
    <3> QED
      BY <2>2, <3>1, <3>2, <3>3
  <2> QED
    BY <2>1, <2>3, <2>4
<1>7. ASSUME NEW c \in Call, Answer(c) PROVE OneTabInv'
  <2>1. CASE KeyArrives(c)
    <3>1. PICK key \in Member \cup {Null, Empty} :
            /\ key # Null
            /\ ctx' = [ctx EXCEPT ![call[c].by] =
                         Settled(ctx[call[c].by], key, ctx[call[c].by].error)]
      <4>1. call[c].token \in Member /\ {call[c].token, Empty} \subseteq Member \cup {Null, Empty}
        BY <2>1, Caller DEF KeyArrives
      <4>2. call[c].token # Null /\ Empty # Null
        BY <4>1, NullAssumption, EmptyAssumption
      <4> HIDE DEF TypeOK
      <4> QED
        BY <2>1, <4>1, <4>2, ZenonT(60) DEF KeyArrives
    <3> DEFINE x == Settled(ctx[call[c].by], key, ctx[call[c].by].error)
    <3>2. /\ x \in Context /\ x.token = ctx[call[c].by].token
          /\ x.key # Null
      <4>1. /\ ctx[call[c].by] \in Context /\ ctx[call[c].by].error \in BOOLEAN
            /\ key \in Member \cup {Null, Empty} /\ key # Null
        BY <2>1, <3>1, Caller DEF KeyArrives
      <4> HIDE DEF TypeOK
      <4> QED
        BY <4>1, SettledContext, SettledEnds
    <3>3. /\ UNCHANGED stored /\ ctx' = [ctx EXCEPT ![call[c].by] = x]
          /\ call[c] # Null /\ Done(c)
      BY <2>1, <3>1 DEF KeyArrives
    <3> HIDE DEF x
    <3> QED
      BY <1>6, <3>2, <3>3
  <2>2. CASE FetchDenied(c)
    BY <1>6, <2>2 DEF FetchDenied
  <2>3. CASE FetchFails(c)
    <3> DEFINE x == Settled(ctx[call[c].by], Null, TRUE)
    <3>1. x \in Context /\ x.error /\ x.token = ctx[call[c].by].token
      <4>1. ctx[call[c].by] \in Context
        BY <2>3, Caller DEF FetchFails
      <4> HIDE DEF TypeOK
      <4> QED
        BY <4>1, SettledContext, SettledEnds
    <3>2. UNCHANGED stored /\ ctx' = [ctx EXCEPT ![call[c].by] = x]
      BY <2>3 DEF FetchFails
    <3>3. call[c] # Null /\ Done(c)
      BY <2>3 DEF FetchFails
    <3> HIDE DEF x
    <3> QED
      BY <1>6, <3>1, <3>2, <3>3
  <2> QED
    BY <1>7, <2>1, <2>2, <2>3 DEF Answer
<1>8. CASE UNCHANGED sessionVars
  BY <1>8 DEF sessionVars
<1> QED
  BY <1>1, <1>2, <1>3, <1>4, <1>5, <1>7, <1>8 DEF SessionNext, User

\* In a browser with one tab the interceptor never sends a token of another
\* user than the page shows.
THEOREM OneTabStored ==
  ASSUME \A t, u \in Tab : t = u
  PROVE  SessionSpec => []StoredIsSession
<1>1. Init => OneTabInv
  BY OneTabInit
<1>2. TypeOK /\ OneTabInv /\ [SessionNext]_sessionVars => OneTabInv'
  BY OneTabStep
<1>3. OneTabInv => StoredIsSession
  BY DEF OneTabInv
<1> QED
  BY <1>1, <1>2, <1>3, TypeCorrect, PTL DEF SessionSpec

\* A session in the only tab that waits for nothing has a key, be it the empty
\* string, or an error.
THEOREM OneTabSettled ==
  ASSUME \A t, u \in Tab : t = u
  PROVE  SessionSpec => []SettledSession
<1>1. Init => OneTabInv
  BY OneTabInit
<1>2. TypeOK /\ OneTabInv /\ [SessionNext]_sessionVars => OneTabInv'
  BY OneTabStep
<1>3. OneTabInv => SettledSession
  BY DEF OneTabInv
<1> QED
  BY <1>1, <1>2, <1>3, TypeCorrect, PTL DEF SessionSpec

\* No provider holds the empty string for a key.
NoEmptyKey == \A p \in Provider : ctx[p].key # Empty

LEMMA NoEmptyStep ==
  ASSUME ~IncompleteKeys, TypeOK, NoEmptyKey, [SessionNext]_sessionVars
  PROVE  NoEmptyKey'
<1> USE Providers, EmptyAssumption DEF TypeOK, NoEmptyKey
<1>1. ASSUME NEW t \in Tab, User(t) PROVE NoEmptyKey'
  BY <1>1 DEF User, Open, Load, Close, Logout, Login, Rendered, Fetching,
              LoggedOut
<1>2. ASSUME NEW c \in Call, Answer(c) PROVE NoEmptyKey'
  <2>1. CASE KeyArrives(c)
    <3>1. ctx' = [ctx EXCEPT ![call[c].by] =
                    Settled(ctx[call[c].by], call[c].token, ctx[call[c].by].error)]
      BY <2>1, Caller DEF KeyArrives
    <3>2. call[c].token \in Member
      BY <2>1, Caller DEF KeyArrives
    <3>3. Settled(ctx[call[c].by], call[c].token, ctx[call[c].by].error).key
            = call[c].token
      BY <2>1, <3>2, Caller, SettledEnds DEF KeyArrives
    <3> QED
      BY <3>1, <3>2, <3>3
  <2>2. CASE FetchDenied(c)
    BY <2>2 DEF FetchDenied, LoggedOut
  <2>3. CASE FetchFails(c)
    <3>1. Settled(ctx[call[c].by], Null, TRUE).key = Null
      <4>1. ctx[call[c].by] \in Context
        BY <2>3, Caller DEF FetchFails
      <4> HIDE DEF TypeOK
      <4> QED
        BY <4>1, SettledEnds
    <3> QED
      BY <2>3, <3>1 DEF FetchFails
  <2> QED
    BY <1>2, <2>1, <2>2, <2>3 DEF Answer
<1>3. CASE UNCHANGED sessionVars
  BY <1>3 DEF sessionVars
<1> QED
  BY <1>1, <1>2, <1>3 DEF SessionNext

\* If key files are not read while they are written, that is a key that the
\* buttons take for one, or an error.
THEOREM OneTabReady ==
  ASSUME \A t, u \in Tab : t = u
  PROVE  SessionSpec =>
           [](~IncompleteKeys =>
                \A t \in Tab :
                   tab[t] = "ready" /\ ctx[Inner(t)].token # Null
                                   /\ InFlight(Inner(t)) = {}
                      => ctx[Inner(t)].key \in Member \/ ctx[Inner(t)].error)
<1>1. Init => (~IncompleteKeys => NoEmptyKey)
  BY EmptyAssumption DEF Init, NoEmptyKey, LoggedOut
<1>2. TypeOK /\ (~IncompleteKeys => NoEmptyKey) /\ [SessionNext]_sessionVars
        => (~IncompleteKeys => NoEmptyKey)'
  BY NoEmptyStep
<1>3. TypeOK /\ SettledSession /\ (~IncompleteKeys => NoEmptyKey)
        => (~IncompleteKeys =>
              \A t \in Tab :
                 tab[t] = "ready" /\ ctx[Inner(t)].token # Null
                                 /\ InFlight(Inner(t)) = {}
                    => ctx[Inner(t)].key \in Member \/ ctx[Inner(t)].error)
  BY Providers DEF TypeOK, Context, SettledSession, NoEmptyKey
<1> QED
  BY <1>1, <1>2, <1>3, TypeCorrect, OneTabSettled, PTL DEF SessionSpec

\* What takes the stored token from a session that goes on.
LEMMA StripStep ==
  ASSUME \A t, u \in Tab : t = u,
         TypeOK, OneTabInv, [SessionNext]_sessionVars,
         NEW t \in Tab, tab[t] = "ready", stored # Null, stored' = Null,
         ctx[Inner(t)].token # Null, ctx'[Inner(t)].token # Null
  PROVE  \E c \in InFlight(Outer(t)) : FetchDenied(c)
<1> USE Providers DEF TypeOK
<1>1. ASSUME NEW u \in Tab, User(u) PROVE FALSE
  <2>1. u = t
    OBVIOUS
  <2> QED
    BY <1>1, <2>1, NullAssumption DEF User, Open, Load, Close, Logout, Login, LoggedOut
<1>2. ASSUME NEW c \in Call, Answer(c)
      PROVE  c \in InFlight(Outer(t)) /\ FetchDenied(c)
  <2>1. FetchDenied(c)
    BY <1>2 DEF Answer, KeyArrives, FetchFails
  <2>2. /\ call[c] # Null /\ call[c].by \in Provider
        /\ ctx' = [ctx EXCEPT ![call[c].by] = [LoggedOut EXCEPT !.error = TRUE]]
    BY <2>1, Caller DEF FetchDenied
  <2>3. [LoggedOut EXCEPT !.error = TRUE].token = Null
    BY DEF LoggedOut
  <2>4. call[c].by # Inner(t)
    BY <2>2, <2>3
  <2>5. call[c].by = Outer(t)
    BY <2>2, <2>4 DEF Provider, Inner, Outer
  <2> QED
    BY <2>1, <2>2, <2>5 DEF InFlight
<1>3. ~UNCHANGED sessionVars
  BY DEF sessionVars
<1> QED
  BY <1>1, <1>2, <1>3 DEF SessionNext

\* In a browser with one tab only a refused call of the outer provider takes
\* the token from a session that goes on.
THEOREM OneTabStripped ==
  ASSUME \A t, u \in Tab : t = u
  PROVE  SessionSpec => OnlyOuterDenialStrips
<1>1. Init => OneTabInv
  BY OneTabInit
<1>2. TypeOK /\ OneTabInv /\ [SessionNext]_sessionVars => OneTabInv'
  BY OneTabStep
<1>3. TypeOK /\ OneTabInv /\ [SessionNext]_sessionVars
        => [\A t \in Tab :
              (/\ tab[t] = "ready" /\ stored # Null /\ stored' = Null
               /\ ctx[Inner(t)].token # Null /\ ctx'[Inner(t)].token # Null)
                 => \E c \in InFlight(Outer(t)) : FetchDenied(c)]_sessionVars
  BY StripStep
<1> QED
  BY <1>1, <1>2, <1>3, TypeCorrect, PTL DEF SessionSpec, OnlyOuterDenialStrips

\* The user whose name a page shows is the one its session's token is of.
UserShown ==
    \A t \in Tab : tab[t] = "ready" /\ ctx[Inner(t)].token # Null
                     => ctx[Inner(t)].user = ctx[Inner(t)].token

LEMMA UserShownStep ==
  ASSUME TypeOK, RenderedShowsStored, UserShown, [SessionNext]_sessionVars
  PROVE  UserShown'
<1> USE Providers DEF TypeOK, UserShown
<1>1. ASSUME NEW t \in Tab, Open(t) \/ Close(t) \/ Logout(t) PROVE UserShown'
  BY <1>1 DEF Open, Close, Logout, LoggedOut
<1>2. ASSUME NEW t \in Tab, Load(t) PROVE UserShown'
  <2>1. CASE UNCHANGED ctx /\ stored = Null
    BY <1>2, <2>1 DEF Load, RenderedShowsStored
  <2>2. CASE ctx' = [ctx EXCEPT ![Inner(t)] = LoggedOut]
    BY <1>2, <2>2 DEF Load, LoggedOut
  <2>3. CASE ctx' = [ctx EXCEPT ![Inner(t)] = Fetching(stored),
                                ![Outer(t)] = Fetching(stored)]
    BY <1>2, <2>3 DEF Load, Fetching
  <2> QED
    BY <1>2, <2>1, <2>2, <2>3 DEF Load
<1>3. ASSUME NEW t \in Tab, NEW m \in Member, Login(t, m) PROVE UserShown'
  BY <1>3 DEF Login, Fetching
<1>4. ASSUME NEW c \in Call, Answer(c) PROVE UserShown'
  <2>1. /\ call[c] # Null /\ call[c].by \in Provider
        /\ tab' = tab
        /\ \A p \in Provider : p # call[c].by => ctx'[p] = ctx[p]
    BY <1>4, Caller DEF Answer, KeyArrives, FetchDenied, FetchFails, Done
  <2>2. LET x == ctx[call[c].by]  y == ctx'[call[c].by]
        IN  \/ y.token = Null
            \/ y.token = x.token /\ y.user = x.user
    <3>1. CASE FetchDenied(c)
      <4>1. [LoggedOut EXCEPT !.error = TRUE].token = Null
        BY DEF LoggedOut
      <4> QED
        BY <2>1, <3>1, <4>1 DEF FetchDenied
    <3>2. CASE FetchFails(c)
      BY <3>2, <2>1 DEF FetchFails, Settled, Context
    <3>3. CASE KeyArrives(c)
      BY <3>3, <2>1 DEF KeyArrives, Settled, Context
    <3> QED
      BY <1>4, <3>1, <3>2, <3>3 DEF Answer
  <2> QED
    BY <2>1, <2>2
<1>5. CASE UNCHANGED sessionVars
  BY <1>5 DEF sessionVars
<1> QED
  BY <1>1, <1>2, <1>3, <1>4, <1>5 DEF SessionNext, User

LEMMA OneTabUser ==
  ASSUME \A t, u \in Tab : t = u
  PROVE  SessionSpec => []UserShown
<1>1. Init => OneTabInv /\ UserShown
  BY OneTabInit DEF Init, UserShown
<1>2. TypeOK /\ OneTabInv /\ [SessionNext]_sessionVars => OneTabInv'
  BY OneTabStep
<1>3. TypeOK /\ OneTabInv /\ UserShown /\ [SessionNext]_sessionVars => UserShown'
  BY UserShownStep DEF OneTabInv
<1> QED
  BY <1>1, <1>2, <1>3, TypeCorrect, PTL DEF SessionSpec

-----------------------------------------------------------------------------
(* The key of another user: the one way to it.                             *)

\* The calls a provider awaits bear the token of one user.
CallsAgree ==
    \A c, d \in Call :
        call[c] # Null /\ call[d] # Null /\ call[c].by = call[d].by
            => call[c].token = call[d].token

\* Every key, there or still to come, is of the user the provider shows.
KeysOfUser ==
    /\ \A p \in Provider :
         ctx[p].user # Null /\ ctx[p].key \in Member => ctx[p].key = ctx[p].user
    /\ \A c \in Call :
         call[c] # Null /\ ctx[call[c].by].user # Null
            => ctx[call[c].by].user = call[c].token

\* A provider starts to fetch for m: what it already awaits is for m, too.
LEMMA KeysFetching ==
  ASSUME TypeOK, KeysOfUser, CallsAgree', NEW m \in Member, NEW P \in SUBSET Provider,
         ctx' \in [Provider -> Context],
         \A p \in P : /\ ctx'[p] = Fetching(m)
                      /\ \E c \in Call : /\ call'[c] # Null /\ call'[c].by = p
                                         /\ call'[c].token = m,
         \A p \in Provider \ P : ctx'[p] = ctx[p],
         \A c \in Call : \/ call'[c] = Null \/ call'[c] = call[c]
                         \/ call'[c].by \in P
  PROVE  KeysOfUser'
<1>1. ASSUME NEW c \in Call, call'[c] # Null, call'[c].by \in P
      PROVE  call'[c].token = m
  BY <1>1 DEF CallsAgree
<1>2. ASSUME NEW c \in Call, call'[c] # Null, ctx'[call'[c].by].user # Null
      PROVE  ctx'[call'[c].by].user = call'[c].token
  <2>1. CASE call'[c].by \in P
    BY <1>1, <1>2, <2>1 DEF Fetching
  <2>2. CASE call'[c].by \notin P
    BY <1>2, <2>2, Caller DEF KeysOfUser
  <2> QED
    BY <2>1, <2>2
<1>3. ASSUME NEW p \in Provider, ctx'[p].user # Null, ctx'[p].key \in Member
      PROVE  ctx'[p].key = ctx'[p].user
  BY <1>3, NullAssumption DEF KeysOfUser, Fetching
<1> QED
  BY <1>2, <1>3 DEF KeysOfUser

\* Some providers lose their user or their key, or get what they wait for, and
\* no call is added.
LEMMA KeysSettling ==
  ASSUME TypeOK, KeysOfUser,
         \A p \in Provider :
            \/ ctx'[p] = ctx[p] \/ ctx'[p].user = Null
            \/ ctx'[p].user = ctx[p].user /\ ctx'[p].key \in {Null, Empty, ctx[p].user},
         \A c \in Call : call'[c] = Null \/ call'[c] = call[c]
  PROVE  KeysOfUser'
  BY Caller, NullAssumption, EmptyAssumption DEF KeysOfUser

LEMMA KeysStep ==
  ASSUME TypeOK, KeysOfUser, CallsAgree', [SessionNext]_sessionVars
  PROVE  KeysOfUser'
<1> USE Providers, Contexts
<1>0. ctx' \in [Provider -> Context]
  BY TypeStep DEF TypeOK
<1>1. ASSUME NEW t \in Tab, Open(t) PROVE KeysOfUser'
  <2>1. \A p \in Provider : ctx'[p] = ctx[p] \/ ctx'[p].user = Null
    BY <1>1 DEF Open, TypeOK, Rendered, LoggedOut
  <2>2. call' = call
    BY <1>1 DEF Open
  <2> QED
    BY <2>1, <2>2, KeysSettling
<1>2. ASSUME NEW t \in Tab, Load(t) PROVE KeysOfUser'
  <2> DEFINE Fetches == \E c, d \in Free :
          /\ c # d
          /\ call' = [call EXCEPT ![c] = [by |-> Inner(t), token |-> stored],
                                  ![d] = [by |-> Outer(t), token |-> stored]]
  <2>1. CASE ~Fetches
    <3>0. UNCHANGED call
      BY <1>2, <2>1 DEF Load
    <3>1. \A p \in Provider : ctx'[p] = ctx[p] \/ ctx'[p].user = Null
      BY <1>2, <2>1 DEF Load, TypeOK, LoggedOut
    <3> QED
      BY <3>0, <3>1, KeysSettling
  <2>2. CASE Fetches
    <3>1. PICK m \in Member, c \in Call, d \in Call :
             /\ c # d
             /\ ctx' = [ctx EXCEPT ![Inner(t)] = Fetching(m), ![Outer(t)] = Fetching(m)]
             /\ call' = [call EXCEPT ![c] = [by |-> Inner(t), token |-> m],
                                     ![d] = [by |-> Outer(t), token |-> m]]
      <4>1. stored # Null /\ stored \in Member
        BY <1>2, <2>2, NullAssumption DEF Load, TypeOK, Free, Fetch
      <4>2. ctx' = [ctx EXCEPT ![Inner(t)] = Fetching(stored),
                               ![Outer(t)] = Fetching(stored)]
        BY <1>2, <2>2, <4>1, NullAssumption DEF Load, TypeOK, Free, Fetch
      <4> QED
        BY <2>2, <4>1, <4>2 DEF Free
    <3>2. /\ ctx'[Inner(t)] = Fetching(m) /\ ctx'[Outer(t)] = Fetching(m)
          /\ \A p \in Provider \ {Inner(t), Outer(t)} : ctx'[p] = ctx[p]
      BY <3>1 DEF TypeOK
    <3>3. /\ call'[c] = [by |-> Inner(t), token |-> m] /\ call'[c] # Null
          /\ call'[d] = [by |-> Outer(t), token |-> m] /\ call'[d] # Null
          /\ \A e \in Call \ {c, d} : call'[e] = call[e]
      BY <3>1, NullAssumption DEF TypeOK, Fetch
    <3> DEFINE P == {Inner(t), Outer(t)}
    <3>4. /\ P \in SUBSET Provider
          /\ \A p \in P : /\ ctx'[p] = Fetching(m)
                          /\ \E e \in Call : /\ call'[e] # Null /\ call'[e].by = p
                                             /\ call'[e].token = m
          /\ \A p \in Provider \ P : ctx'[p] = ctx[p]
          /\ \A e \in Call : \/ call'[e] = Null \/ call'[e] = call[e]
                             \/ call'[e].by \in P
      BY <3>2, <3>3
    <3> HIDE DEF P
    <3> QED
      BY <1>0, <3>4, KeysFetching
  <2> QED
    BY <2>1, <2>2
<1>3. ASSUME NEW t \in Tab, Close(t) PROVE KeysOfUser'
  <2>1. \A p \in Provider : ctx'[p] = ctx[p] \/ ctx'[p].user = Null
    BY <1>3 DEF Close, TypeOK, LoggedOut
  <2>2. \A c \in Call : call'[c] = Null \/ call'[c] = call[c]
    BY <1>3 DEF Close
  <2> QED
    BY <2>1, <2>2, KeysSettling
<1>4. ASSUME NEW t \in Tab, Logout(t) PROVE KeysOfUser'
  <2>1. \A p \in Provider : ctx'[p] = ctx[p] \/ ctx'[p].user = Null
    BY <1>4 DEF Logout, TypeOK, LoggedOut
  <2>2. call' = call
    BY <1>4 DEF Logout
  <2> QED
    BY <2>1, <2>2, KeysSettling
<1>5. ASSUME NEW t \in Tab, NEW m \in Member, Login(t, m) PROVE KeysOfUser'
  <2>1. PICK c \in Call : call' = [call EXCEPT ![c] = [by |-> Inner(t), token |-> m]]
    BY <1>5 DEF Login, Free
  <2>2. /\ call'[c] = [by |-> Inner(t), token |-> m] /\ call'[c] # Null
        /\ \A e \in Call \ {c} : call'[e] = call[e]
    BY <2>1, NullAssumption DEF TypeOK, Fetch
  <2>3. /\ ctx'[Inner(t)] = Fetching(m)
        /\ \A p \in Provider \ {Inner(t)} : ctx'[p] = ctx[p]
    BY <1>5 DEF Login, TypeOK
  <2> DEFINE P == {Inner(t)}
  <2>4. /\ P \in SUBSET Provider
        /\ \A p \in P : /\ ctx'[p] = Fetching(m)
                        /\ \E e \in Call : /\ call'[e] # Null /\ call'[e].by = p
                                           /\ call'[e].token = m
        /\ \A p \in Provider \ P : ctx'[p] = ctx[p]
        /\ \A e \in Call : \/ call'[e] = Null \/ call'[e] = call[e]
                           \/ call'[e].by \in P
    BY <2>2, <2>3
  <2> HIDE DEF P
  <2> QED
    BY <1>0, <2>4, KeysFetching
<1>6. ASSUME NEW c \in Call, Answer(c) PROVE KeysOfUser'
  <2>1. call[c] # Null /\ \A d \in Call : call'[d] = Null \/ call'[d] = call[d]
    BY <1>6 DEF Answer, KeyArrives, FetchDenied, FetchFails, Done, TypeOK
  <2>2. \A p \in Provider \ {call[c].by} : ctx'[p] = ctx[p]
    BY <1>6 DEF Answer, KeyArrives, FetchDenied, FetchFails, TypeOK
  <2>3. LET x == ctx[call[c].by]  y == ctx'[call[c].by] IN
           \/ y.user = Null
           \/ y.user = x.user /\ y.key \in {Null, Empty, call[c].token}
    <3>1. CASE FetchDenied(c)
      BY <3>1, <2>1, Caller DEF FetchDenied, TypeOK, LoggedOut
    <3>2. CASE FetchFails(c)
      BY <3>2, <2>1, Caller DEF FetchFails, TypeOK, Settled, Context
    <3>3. CASE KeyArrives(c)
      BY <3>3, <2>1, Caller DEF KeyArrives, TypeOK, Settled, Context
    <3> QED
      BY <1>6, <3>1, <3>2, <3>3 DEF Answer
  <2>4. LET x == ctx[call[c].by] IN x.user = Null \/ x.user = call[c].token
    BY <2>1 DEF KeysOfUser
  <2> QED
    BY <2>1, <2>2, <2>3, <2>4, KeysSettling
<1>7. CASE UNCHANGED sessionVars
  BY <1>7 DEF sessionVars, KeysOfUser
<1> QED
  BY <1>1, <1>2, <1>3, <1>4, <1>5, <1>6, <1>7 DEF SessionNext, User

\* A key that is not the user's comes in one way only: a provider awaits calls that
\* bear the tokens of two users, as when a login overtakes the answer to an
\* earlier session's call (AuthContext.jsx:57-98).
THEOREM KeyOfUser == SessionSpec /\ []CallsAgree => []KeyMatchesUser
<1>1. Init => KeysOfUser
  BY Providers, NullAssumption DEF Init, KeysOfUser, LoggedOut
<1>2. TypeOK /\ KeysOfUser /\ CallsAgree' /\ [SessionNext]_sessionVars => KeysOfUser'
  BY KeysStep
<1>3. KeysOfUser => KeyMatchesUser
  BY Providers DEF KeysOfUser, KeyMatchesUser
<1> QED
  BY <1>1, <1>2, <1>3, TypeCorrect, PTL DEF SessionSpec
=============================================================================
