------------------------ MODULE AccountSessionsProofs ------------------------
(***************************************************************************)
(* Theorems about AccountSessions: every property of the run "sessions",   *)
(* for any number of sign-ins, requests, sessions and tokens.              *)
(*                                                                         *)
(* What the code relies on is that a session's mutex is held from the      *)
(* check of "closed" to the answer: while a page calls, nobody closes its  *)
(* session and nobody replaces its refresh token (Holding); and that a     *)
(* session is closed before its token is revoked and before it leaves the  *)
(* table (SigningOut, EndedClosed).                                        *)
(***************************************************************************)
EXTENDS AccountSessions, FiniteSetTheorems, TLAPS

Calls(h) == At(h, "page", "exchange") \/ At(h, "page", "profile")
SignsIn(h) == handler[h] # Idle /\ handler[h].kind = "callback"
SignsOut(h) == At(h, "logout", "revoke") \/ At(h, "logout", "delete")
Uses(h) == handler[h] # Idle /\ handler[h].kind # "callback"

\* A session in a request's hands was made before.
Requests == \A h \in Handlers : Uses(h) => handler[h].session \in Made

\* A token was issued before it is held.
Issues ==
  /\ \A s \in Made : session[s].refresh <= issued
  /\ \A h \in Handlers : At(h, "callback", "profile") \/ At(h, "logout", "revoke") =>
       handler[h].token <= issued

\* A page that calls holds an open session, alone, and its refresh token.
Holding ==
  \A h \in Handlers : Calls(h) =>
    LET s == handler[h].session
    IN /\ ~session[s].closed
       /\ At(h, "page", "exchange") => session[s].refresh = handler[h].token
       /\ \A g \in Handlers : Calls(g) /\ handler[g].session = s => g = h

\* A sign-out goes on with a session that is closed and holds no token.
SigningOut ==
  \A h \in Handlers : SignsOut(h) =>
    session[handler[h].session].closed /\ session[handler[h].session].refresh = 0

\* What is over is closed, if anybody can still reach it.
EndedClosed == \A s \in (ended \cup strayed) \cap Reachable : session[s].closed

\* A sign-in is used up before it makes a session, and by one callback.
SignIns ==
  /\ \A s \in Made : login[session[s].login] = "over"
  /\ \A h \in Handlers : SignsIn(h) =>
       /\ login[handler[h].login] = "over"
       /\ \A s \in Made : session[s].login # handler[h].login
       /\ \A g \in Handlers : SignsIn(g) /\ handler[g].login = handler[h].login => g = h

Sound ==
  /\ TypeOK /\ Requests /\ Issues
  /\ Holding /\ SigningOut /\ EndedClosed
  /\ TokensAccounted
  /\ SignIns /\ OneSessionPerLogin
  /\ WithinCapacity

-----------------------------------------------------------------------------
\* What a request holds, by where it stands.
LEMMA Shape ==
  ASSUME NEW r \in Request
  PROVE  /\ r # Idle
         /\ r.kind \in {"callback", "page", "logout"}
         /\ r.kind = "callback" =>
              r.at \in {"exchange", "profile"} /\ r.login \in Logins /\ r.cookie \in 0..MaxSessions
         /\ r.kind = "callback" /\ r.at = "profile" => r.token \in 0..MaxTokens
         /\ r.kind = "page" => r.at \in {"wait", "exchange", "profile"}
         /\ r.kind = "logout" => r.at \in {"wait", "revoke", "delete"}
         /\ r.kind # "callback" => r.session \in Sessions
         /\ r.at \in {"exchange", "revoke"} /\ r.kind # "callback" => r.token \in Tokens
  BY IdleAssumption DEF Request

\* There is a place for every session.
LEMMA Places ==
  ASSUME TypeOK
  PROVE  Made \subseteq Sessions
<1>1. made \in 0..MaxSessions
  BY DEF TypeOK
<1> QED
  BY <1>1, SessionsAssumption DEF Made, Sessions

\* The same, of the requests under way.
LEMMA Shapes ==
  ASSUME TypeOK, NEW h \in Handlers, handler[h] # Idle
  PROVE  handler[h] \in Request
  BY DEF TypeOK

\* Tables that only lose entries keep their bounds.
LEMMA FewerSessions ==
  ASSUME TypeOK, WithinCapacity, table' \subseteq table
  PROVE  Cardinality(table') <= Capacity
<1>1. IsFiniteSet(table)
  <2>1. made \in Int /\ 1 \in Int /\ table \in SUBSET (1..made)
    BY SessionsAssumption DEF TypeOK, Made
  <2> QED
    BY <2>1, FS_Interval, FS_Subset
<1>2. Cardinality(table') <= Cardinality(table) /\ Cardinality(table') \in Nat /\ Cardinality(table) \in Nat
  BY <1>1, FS_Subset, FS_CardinalityType
<1> QED
  BY <1>2, SessionsAssumption DEF WithinCapacity

LEMMA Smaller ==
  ASSUME TypeOK, WithinCapacity, table' \subseteq table, UnderWay' \subseteq UnderWay
  PROVE  WithinCapacity'
<1>1. IsFiniteSet(UnderWay)
  BY SessionsAssumption, FS_Subset DEF UnderWay
<1>2. Cardinality(UnderWay') <= Cardinality(UnderWay) /\ Cardinality(UnderWay') \in Nat
      /\ Cardinality(UnderWay) \in Nat
  BY <1>1, FS_Subset, FS_CardinalityType
<1> QED
  BY <1>2, FewerSessions, SessionsAssumption DEF WithinCapacity

\* A sign-in that is over stays so, and no callback takes another one up.
LEMMA SameSignIns ==
  ASSUME TypeOK, SignIns, OneSessionPerLogin,
         made' = made,
         \A s \in Made : session'[s].login = session[s].login,
         \A l \in Logins : login[l] = "over" => login'[l] = "over",
         \A g \in Handlers : SignsIn(g)' => SignsIn(g) /\ handler'[g].login = handler[g].login
  PROVE  SignIns' /\ OneSessionPerLogin'
<1>1. Made' = Made
  BY DEF Made
<1>2. \A s \in Made : session[s].login \in Logins
  BY DEF TypeOK, Session
<1>3. \A g \in Handlers : SignsIn(g) => handler[g].login \in Logins
  BY Shapes, Shape DEF SignsIn
<1> QED
  BY <1>1, <1>2, <1>3 DEF SignIns, OneSessionPerLogin

\* The pages that call are left alone, with their sessions.
LEMMA SamePages ==
  ASSUME Holding,
         \A g \in Handlers : Calls(g)' =>
           /\ Calls(g) /\ handler'[g] = handler[g]
           /\ session'[handler[g].session].closed = session[handler[g].session].closed
           /\ session'[handler[g].session].refresh = session[handler[g].session].refresh
  PROVE  Holding'
  BY DEF Holding, Calls, At

\* So are the sign-outs, whose sessions stay closed.
LEMMA SameSignOuts ==
  ASSUME SigningOut,
         \A g \in Handlers : SignsOut(g)' =>
           LET s == handler[g].session
           IN /\ SignsOut(g) /\ handler'[g].session = s
              /\ session[s].closed => session'[s].closed
              /\ session[s].closed /\ session[s].refresh = 0 => session'[s].refresh = 0
  PROVE  SigningOut'
  BY DEF SigningOut

\* Nobody gets to reach a session that is over, and what is closed stays so.
LEMMA SameEnds ==
  ASSUME EndedClosed,
         \A s \in (ended \cup strayed)' \cap Reachable' :
           /\ s \in (ended \cup strayed) \cap Reachable
           /\ session[s].closed => session'[s].closed
  PROVE  EndedClosed'
  BY DEF EndedClosed

LEMMA SameIssues ==
  ASSUME TypeOK, Issues, made' = made, issued' \in Nat, issued <= issued',
         \A s \in Made : session'[s].refresh \in {0, session[s].refresh},
         \A g \in Handlers : At(g, "callback", "profile")' \/ At(g, "logout", "revoke")' =>
           /\ At(g, "callback", "profile") \/ At(g, "logout", "revoke")
           /\ handler'[g] = handler[g]
  PROVE  Issues'
<1>1. Made' = Made
  BY DEF Made
<1>2. \A s \in Made : session[s].refresh \in Nat
  BY SessionsAssumption DEF TypeOK, Session
<1>3. \A g \in Handlers : At(g, "callback", "profile") \/ At(g, "logout", "revoke") =>
        handler[g].token \in Nat
  BY Shapes, Shape, SessionsAssumption DEF At, Tokens
<1>4. issued \in Nat
  BY SessionsAssumption DEF TypeOK
<1>5. \A s \in Made : session'[s].refresh <= issued'
  BY <1>2, <1>4 DEF Issues
<1>6. \A g \in Handlers : At(g, "callback", "profile")' \/ At(g, "logout", "revoke")' =>
        handler'[g].token <= issued'
  BY <1>3, <1>4 DEF Issues
<1> QED
  BY <1>1, <1>5, <1>6 DEF Issues

\* Refresh tokens stay where they are.
LEMMA SameTokens ==
  ASSUME TokensAccounted, made' = made, ended' = ended,
         alive' \ abandoned' \subseteq alive \ abandoned,
         \A s \in Made \ ended : session'[s].refresh = session[s].refresh,
         \A g \in Handlers : At(g, "callback", "profile") \/ At(g, "logout", "revoke") =>
           handler'[g] = handler[g]
  PROVE  TokensAccounted'
<1>1. Made' = Made
  BY DEF Made
<1> QED
  BY <1>1 DEF TokensAccounted, At

LEMMA TokenTypes ==
  ASSUME TypeOK
  PROVE  /\ issued \in Nat /\ issued \in 0..MaxTokens
         /\ alive \subseteq 1..issued /\ abandoned \subseteq 1..issued
  BY SessionsAssumption DEF TypeOK

\* The provider issues a token that is above all others.
LEMMA Issuing ==
  ASSUME TypeOK, NEW dead, Issue(dead)
  PROVE  /\ issued' = issued + 1 /\ issued' \in 1..MaxTokens
         /\ alive' \subseteq 1..issued' /\ alive' = (alive \ dead) \cup {issued'}
         /\ abandoned \subseteq 1..issued' /\ issued' \notin alive
<1>1. /\ issued \in Nat /\ issued' = issued + 1 /\ issued' \in 1..MaxTokens
      /\ alive' = (alive \ dead) \cup {issued'}
  BY SessionsAssumption, TokenTypes DEF Issue
<1>2. \A t \in 1..issued : t \in 1..issued' /\ t # issued'
  BY <1>1
<1>3. issued' \in 1..issued'
  BY <1>1
<1> QED
  BY <1>1, <1>2, <1>3, TokenTypes

\* A token whose answer is lost is nobody's.
LEMMA InVain ==
  ASSUME TypeOK, NEW dead, IssuedInVain(dead) \/ UNCHANGED provider
  PROVE  /\ issued' \in 0..MaxTokens /\ alive' \subseteq 1..issued' /\ abandoned' \subseteq 1..issued'
         /\ alive' \ abandoned' \subseteq alive \ abandoned
<1>1. CASE IssuedInVain(dead)
  BY <1>1, Issuing, SessionsAssumption DEF IssuedInVain
<1>2. CASE UNCHANGED provider
  BY <1>2 DEF provider, TypeOK
<1> QED
  BY <1>1, <1>2

-----------------------------------------------------------------------------
(* Each action keeps the invariant.                                        *)

LEMMA LoginStep ==
  ASSUME Sound, NEW l \in Logins, Login(l)
  PROVE  Sound'
<1>1. /\ UNCHANGED <<session, made, handler, provider, history>>
      /\ table' \subseteq table
      /\ login[l] = "none"
  BY DEF Login, provider, history
<1>2. login' \in [Logins -> {"none", "open", "over"}]
      /\ \A k \in Logins : login[k] = "over" => login'[k] = "over"
  BY DEF Login, Without, Sound, TypeOK
<1>3. TypeOK'
  BY <1>1, <1>2 DEF Sound, TypeOK, Made, provider, history
<1>4. Requests' /\ Holding' /\ SigningOut' /\ TokensAccounted' /\ Issues'
  BY <1>1 DEF Sound, Issues, Requests, Uses, Made, Holding, Calls, SigningOut, SignsOut, At,
              TokensAccounted, provider, history
<1>5. EndedClosed'
  BY <1>1 DEF Sound, EndedClosed, Reachable, Made, provider, history
<1>6. SignIns' /\ OneSessionPerLogin'
  BY <1>1, <1>2, SameSignIns DEF Sound, SignsIn
<1>7. WithinCapacity'
  <2>1. PICK late \in SUBSET UnderWay, past \in SUBSET table :
          /\ table' = table \ past
          /\ login' = IF FullTable(UnderWay \ late) \/ FullTable(table \ past)
                      THEN Without(late)
                      ELSE [Without(late) EXCEPT ![l] = "open"]
    BY DEF Login
  <2>2. CASE UnderWay' \subseteq UnderWay
    BY <1>1, <2>2, Smaller DEF Sound
  <2>3. CASE ~(UnderWay' \subseteq UnderWay)
    <3>1. ~FullTable(UnderWay \ late)
          /\ login' = [Without(late) EXCEPT ![l] = "open"]
      BY <2>1, <2>3 DEF UnderWay, Without
    <3>2. UnderWay' \subseteq (UnderWay \ late) \cup {l}
      BY <3>1 DEF UnderWay, Without
    <3>3. IsFiniteSet(UnderWay \ late) /\ IsFiniteSet((UnderWay \ late) \cup {l})
      BY SessionsAssumption, FS_Subset, FS_AddElement DEF UnderWay
    <3>4. /\ Cardinality(UnderWay') <= Cardinality((UnderWay \ late) \cup {l})
          /\ Cardinality((UnderWay \ late) \cup {l}) <= Cardinality(UnderWay \ late) + 1
          /\ Cardinality(UnderWay \ late) \in Nat
          /\ Cardinality((UnderWay \ late) \cup {l}) \in Nat
          /\ Cardinality(UnderWay') \in Nat
      BY <3>2, <3>3, FS_Subset, FS_AddElement, FS_CardinalityType
    <3>5. Cardinality(UnderWay') <= Capacity
      BY <3>1, <3>4, SessionsAssumption DEF FullTable
    <3>6. Cardinality(table') <= Capacity
      BY <1>1, FewerSessions DEF Sound
    <3> QED
      BY <3>5, <3>6 DEF WithinCapacity
  <2> QED
    BY <2>2, <2>3
<1> QED
  BY <1>3, <1>4, <1>5, <1>6, <1>7 DEF Sound

LEMMA CallbackStep ==
  ASSUME Sound, NEW h \in Handlers, NEW l \in Logins, NEW good \in BOOLEAN,
         NEW cookie \in {0} \cup Made, Callback(h, l, good, cookie)
  PROVE  Sound'
<1> DEFINE r == [kind |-> "callback", at |-> "exchange", login |-> l, cookie |-> cookie]
<1>1. /\ UNCHANGED <<table, session, made, provider, history>>
      /\ handler[h] = Idle /\ login[l] = "open"
      /\ login' = [login EXCEPT ![l] = "over"]
  BY DEF Callback, Consumed, provider, history
<1>2. handler' = [handler EXCEPT ![h] = r] \/ handler' = handler
  BY DEF Callback, Goes
<1>3. r \in Request /\ r # Idle
  BY SessionsAssumption, IdleAssumption DEF Request, Made, Sound, TypeOK
<1>4. TypeOK'
  BY <1>1, <1>2, <1>3 DEF Sound, TypeOK, Made, provider, history
<1>5. \A g \in Handlers : Uses(g)' \/ Calls(g)' \/ SignsOut(g)' => g # h /\ handler'[g] = handler[g]
  BY <1>1, <1>2 DEF Sound, TypeOK, Uses, Calls, SignsOut, At
<1>6. Requests' /\ Holding' /\ SigningOut'
  BY <1>1, <1>5 DEF Sound, Requests, Uses, Made, Holding, Calls, SigningOut, SignsOut, At
<1>7. EndedClosed'
  BY <1>1, <1>5 DEF Sound, EndedClosed, Reachable, Uses, Made, provider, history
<1>8. TokensAccounted'
  BY <1>1, <1>2, SameTokens DEF Sound, At, provider, history, TypeOK
<1>9. Issues'
  <2>1. \A g \in Handlers : ~(g = h /\ At(g, "callback", "profile")') /\ ~(g = h /\ At(g, "logout", "revoke")')
    BY <1>1, <1>2 DEF Sound, TypeOK, At
  <2>2. \A g \in Handlers : g # h => handler'[g] = handler[g]
    BY <1>2 DEF Sound, TypeOK
  <2>3. \A g \in Handlers : At(g, "callback", "profile")' \/ At(g, "logout", "revoke")' =>
           /\ At(g, "callback", "profile") \/ At(g, "logout", "revoke")
           /\ handler'[g] = handler[g]
    BY <2>1, <2>2 DEF At
  <2>4. issued' \in Nat /\ issued <= issued'
    BY <1>1, TokenTypes DEF Sound, provider
  <2> QED
    BY <1>1, <2>3, <2>4, SameIssues DEF Sound
<1>10. SignIns' /\ OneSessionPerLogin'
  <2>1. \A s \in Made : session[s].login # l
    BY <1>1 DEF Sound, SignIns
  <2>2. \A g \in Handlers : SignsIn(g) => handler[g].login # l
    BY <1>1 DEF Sound, SignIns
  <2>3. /\ \A s \in Made : session[s].login \in Logins
        /\ \A g \in Handlers : SignsIn(g) => handler[g].login \in Logins
    BY Shapes, Shape DEF Sound, TypeOK, Session, SignsIn
  <2>4. \A k \in Logins : login[k] = "over" \/ k = l => login'[k] = "over"
    BY <1>1 DEF Sound, TypeOK
  <2>5. \A g \in Handlers : SignsIn(g)' =>
          \/ g = h /\ handler'[g].login = l
          \/ g # h /\ SignsIn(g) /\ handler'[g].login = handler[g].login
    BY <1>1, <1>2 DEF Sound, TypeOK, SignsIn
  <2>6. Made' = Made
    BY <1>1 DEF Made
  <2> QED
    BY <1>1, <2>1, <2>2, <2>3, <2>4, <2>5, <2>6 DEF Sound, SignIns, OneSessionPerLogin
<1>11. WithinCapacity'
  <2>1. UnderWay' \subseteq UnderWay
    BY <1>1 DEF UnderWay, Sound, TypeOK
  <2> QED
    BY <1>1, <2>1, Smaller DEF Sound
<1> QED
  BY <1>4, <1>6, <1>7, <1>8, <1>9, <1>10, <1>11 DEF Sound

\* A callback that calls, returns or gives up leaves the sessions alone.
LEMMA CallbackGoesOn ==
  ASSUME Sound, TypeOK', NEW h \in Handlers, SignsIn(h),
         UNCHANGED <<memory, history>>,
         NEW r \in {q \in Request : q.kind = "callback"} \cup {Idle},
         handler' = [handler EXCEPT ![h] = r],
         r # Idle => r.login = handler[h].login,
         TokensAccounted', Issues'
  PROVE  Sound'
<1>1. UNCHANGED <<login, table, session, made, ended, strayed>>
  BY DEF memory, history
<1>2. \A g \in Handlers : Uses(g)' \/ Calls(g)' \/ SignsOut(g)' => g # h /\ handler'[g] = handler[g]
  BY IdleAssumption DEF Sound, TypeOK, Uses, Calls, SignsOut, At
<1>3. Requests' /\ Holding' /\ SigningOut'
  BY <1>1, <1>2 DEF Sound, Requests, Uses, Made, Holding, Calls, SigningOut, SignsOut, At
<1>4. EndedClosed'
  BY <1>1, <1>2 DEF Sound, EndedClosed, Reachable, Uses, Made
<1>5. SignIns' /\ OneSessionPerLogin'
  <2>1. \A g \in Handlers : SignsIn(g)' => SignsIn(g) /\ handler'[g].login = handler[g].login
    BY DEF Sound, TypeOK, SignsIn
  <2> QED
    BY <1>1, <2>1, SameSignIns DEF Sound
<1>6. WithinCapacity'
  BY <1>1, Smaller DEF Sound, UnderWay
<1> QED
  BY <1>3, <1>4, <1>5, <1>6 DEF Sound

LEMMA ExchangedStep ==
  ASSUME Sound, NEW h \in Handlers, Exchanged(h)
  PROVE  Sound'
<1>1. PICK token \in {0, issued + 1} :
        /\ IF token = 0 THEN UNCHANGED <<issued, alive>> ELSE Issue({})
        /\ Goes(h, [kind |-> "callback", at |-> "profile", login |-> handler[h].login,
                    cookie |-> handler[h].cookie, token |-> token])
  BY DEF Exchanged
<1> DEFINE r == [kind |-> "callback", at |-> "profile", login |-> handler[h].login,
                 cookie |-> handler[h].cookie, token |-> token]
<1>2. /\ UNCHANGED <<memory, abandoned, history>>
      /\ At(h, "callback", "exchange") /\ SignsIn(h)
      /\ handler' = [handler EXCEPT ![h] = r]
  BY <1>1 DEF Exchanged, Goes, At, SignsIn
<1>3. handler[h] \in Request /\ handler[h].login \in Logins /\ handler[h].cookie \in 0..MaxSessions
  BY <1>2, Shapes, Shape DEF Sound, At
<1>4. /\ token \in 0..MaxTokens
      /\ issued' \in 0..MaxTokens /\ alive' \subseteq 1..issued' /\ abandoned \subseteq 1..issued'
      /\ alive' \subseteq alive \cup ({token} \ {0})
  <2>1. CASE token = 0
    BY <1>1, <2>1, TokenTypes, SessionsAssumption DEF Sound
  <2>2. CASE token # 0
    BY <1>1, <2>2, Issuing DEF Sound
  <2> QED
    BY <2>1, <2>2
<1>5. r \in Request /\ r # Idle
  BY <1>3, <1>4, IdleAssumption DEF Request
<1>6. TypeOK'
  BY <1>2, <1>4, <1>5 DEF Sound, TypeOK, Made, memory, history
<1>7. TokensAccounted'
  <2>1. UNCHANGED <<session, made, ended, abandoned>> /\ Made' = Made
    BY <1>2 DEF memory, history, Made
  <2>2. handler'[h] = r /\ \A g \in Handlers : g # h => handler'[g] = handler[g]
    BY <1>2 DEF Sound, TypeOK
  <2>3. \A g \in Handlers : (At(g, "callback", "profile") \/ At(g, "logout", "revoke")) => g # h
    BY <1>2 DEF At
  <2>4. At(h, "callback", "profile")' /\ handler'[h].token = token
    BY <1>5, <2>2 DEF At
  <2>5. \A g \in Handlers : g # h =>
          /\ At(g, "callback", "profile") => At(g, "callback", "profile")'
          /\ At(g, "logout", "revoke") => At(g, "logout", "revoke")'
    BY <2>2 DEF At
  <2> QED
    BY <1>4, <2>1, <2>2, <2>3, <2>4, <2>5 DEF Sound, TokensAccounted
<1>8. Issues'
  <2>1. UNCHANGED <<session, made>> /\ Made' = Made
    BY <1>2 DEF memory, Made
  <2>2. handler'[h] = r /\ \A g \in Handlers : g # h => handler'[g] = handler[g]
    BY <1>2 DEF Sound, TypeOK
  <2>3. issued \in Nat /\ issued' \in Nat /\ issued <= issued' /\ token <= issued'
    <3>1. CASE token = 0
      BY <1>1, <3>1, TokenTypes DEF Sound
    <3>2. CASE token # 0
      BY <1>1, <3>2, TokenTypes, Issuing DEF Sound
    <3> QED
      BY <3>1, <3>2
  <2>4. \A s \in Made : session[s].refresh <= issued'
    <3>1. \A s \in Made : session[s].refresh \in Nat
      BY SessionsAssumption DEF Sound, TypeOK, Session
    <3> QED
      BY <2>3, <3>1 DEF Sound, Issues
  <2>5. \A g \in Handlers : At(g, "callback", "profile")' \/ At(g, "logout", "revoke")' =>
          handler'[g].token <= issued'
    <3> SUFFICES ASSUME NEW g \in Handlers, At(g, "callback", "profile")' \/ At(g, "logout", "revoke")'
                 PROVE  handler'[g].token <= issued'
      OBVIOUS
    <3>1. CASE g = h
      BY <2>2, <2>3, <3>1
    <3>2. CASE g # h
      <4>1. At(g, "callback", "profile") \/ At(g, "logout", "revoke")
        BY <2>2, <3>2 DEF At
      <4>2. handler[g].token \in Nat /\ handler[g].token <= issued
        BY <4>1, Shapes, Shape, SessionsAssumption DEF Sound, Issues, At, Tokens
      <4> QED
        BY <2>2, <2>3, <3>2, <4>2
    <3> QED
      BY <3>1, <3>2
  <2> QED
    BY <2>1, <2>4, <2>5 DEF Issues
<1> QED
  BY <1>2, <1>5, <1>6, <1>7, <1>8, CallbackGoesOn

LEMMA ExchangeFailsStep ==
  ASSUME Sound, NEW h \in Handlers, ExchangeFails(h)
  PROVE  Sound'
<1>1. /\ UNCHANGED <<memory, history>>
      /\ At(h, "callback", "exchange") /\ SignsIn(h)
      /\ handler' = [handler EXCEPT ![h] = Idle]
      /\ IssuedInVain({}) \/ UNCHANGED provider
  BY DEF ExchangeFails, Ends, Goes, At, SignsIn
<1>2. TypeOK'
  BY <1>1, InVain DEF Sound, TypeOK, Made, memory, history
<1>3. TokensAccounted'
  <2>1. \A g \in Handlers : At(g, "callback", "profile") \/ At(g, "logout", "revoke") =>
          handler'[g] = handler[g]
    BY <1>1 DEF Sound, TypeOK, At
  <2> QED
    BY <1>1, <2>1, InVain, SameTokens DEF Sound, memory, history
<1>4. Issues'
  <2>1. issued' \in Nat /\ issued <= issued'
    BY <1>1, InVain, Issuing, TokenTypes DEF Sound, IssuedInVain, provider
  <2>2. \A g \in Handlers : At(g, "callback", "profile")' \/ At(g, "logout", "revoke")' =>
           /\ At(g, "callback", "profile") \/ At(g, "logout", "revoke")
           /\ handler'[g] = handler[g]
    BY <1>1 DEF Sound, TypeOK, At
  <2> QED
    BY <1>1, <2>1, <2>2, SameIssues DEF Sound, memory
<1> QED
  BY <1>1, <1>2, <1>3, <1>4, CallbackGoesOn

\* What a callback holds is abandoned, and everything else stays.
LEMMA Dropped ==
  ASSUME Sound, NEW h \in Handlers, At(h, "callback", "profile"),
         handler' = [handler EXCEPT ![h] = Idle],
         made' = made, ended' = ended, alive' = alive,
         \A s \in Made : session'[s] = session[s],
         Abandon(handler[h].token)
  PROVE  TokensAccounted' /\ abandoned' \subseteq 1..issued
<1>1. handler[h].token \in 0..MaxTokens
  BY Shapes, Shape DEF Sound, At
<1>2. \A t \in alive' \ abandoned' : t \in alive \ abandoned /\ t # handler[h].token
  BY DEF Abandon, Sound, TypeOK
<1>3. \A g \in Handlers : g # h => handler'[g] = handler[g]
  BY DEF Sound, TypeOK
<1>4. Made' = Made
  BY DEF Made
<1>5. TokensAccounted'
  <2> SUFFICES ASSUME NEW t \in alive' \ abandoned',
                      ~ \E s \in Made' \ ended' : session'[s].refresh = t
               PROVE  \E g \in Handlers :
                        /\ At(g, "callback", "profile")' \/ At(g, "logout", "revoke")'
                        /\ handler'[g].token = t
    BY DEF TokensAccounted
  <2>1. PICK g \in Handlers : /\ At(g, "callback", "profile") \/ At(g, "logout", "revoke")
                              /\ handler[g].token = t
    BY <1>2, <1>4 DEF Sound, TokensAccounted
  <2>2. g # h
    BY <1>2, <2>1
  <2> QED
    BY <1>3, <2>1, <2>2 DEF At
<1> QED
  <2>1. handler[h].token = 0 \/ handler[h].token \in 1..issued
    BY <1>1, TokenTypes DEF Sound, Issues
  <2> QED
    BY <1>5, <2>1, TokenTypes DEF Sound, Abandon

LEMMA SignInFailsStep ==
  ASSUME Sound, NEW h \in Handlers, SignInFails(h)
  PROVE  Sound'
<1>1. /\ UNCHANGED <<memory, issued, alive, history>>
      /\ At(h, "callback", "profile") /\ SignsIn(h)
      /\ handler' = [handler EXCEPT ![h] = Idle]
      /\ Abandon(handler[h].token)
  BY DEF SignInFails, Ends, Goes, At, SignsIn
<1>2. TokensAccounted' /\ abandoned' \subseteq 1..issued
  BY <1>1, Dropped DEF memory, history
<1>3. TypeOK'
  BY <1>1, <1>2 DEF Sound, TypeOK, Made, memory, history
<1>4. Issues'
  <2>1. issued' \in Nat /\ issued <= issued'
    BY <1>1, TokenTypes DEF Sound
  <2>2. \A g \in Handlers : At(g, "callback", "profile")' \/ At(g, "logout", "revoke")' =>
           /\ At(g, "callback", "profile") \/ At(g, "logout", "revoke")
           /\ handler'[g] = handler[g]
    BY <1>1 DEF Sound, TypeOK, At
  <2> QED
    BY <1>1, <2>1, <2>2, SameIssues DEF Sound, memory
<1> QED
  BY <1>1, <1>2, <1>3, <1>4, CallbackGoesOn

LEMMA SignedInStep ==
  ASSUME Sound, NEW h \in Handlers, SignedIn(h)
  PROVE  Sound'
<1>1. /\ At(h, "callback", "profile") /\ SignsIn(h)
      /\ handler' = [handler EXCEPT ![h] = Idle]
      /\ UNCHANGED <<issued, alive, ended, strayed>>
  BY DEF SignedIn, Ends, Goes, At, SignsIn, history
<1>2. PICK late \in SUBSET UnderWay, past \in SUBSET table :
        /\ login' = Without(late)
        /\ \/ /\ ~Room(past)
              /\ table' = table \ past
              /\ Abandon(handler[h].token)
              /\ UNCHANGED <<session, made>>
           \/ /\ Room(past)
              /\ made < MaxSessions
              /\ made' = made + 1
              /\ table' = (table \ (past \cup {handler[h].cookie})) \cup {made'}
              /\ session' = [s \in 1..made' |->
                   IF s = made'
                   THEN [login |-> handler[h].login, refresh |-> handler[h].token,
                         stale |-> FALSE, closed |-> FALSE]
                   ELSE session[s]]
              /\ UNCHANGED abandoned
  BY DEF SignedIn
<1>3. /\ login' \in [Logins -> {"none", "open", "over"}]
      /\ \A l \in Logins : login[l] = "over" => login'[l] = "over"
      /\ UnderWay' \subseteq UnderWay
  BY <1>2 DEF Without, UnderWay, Sound, TypeOK
<1>4. \A g \in Handlers : handler'[g] # Idle => g # h /\ handler'[g] = handler[g]
  BY <1>1 DEF Sound, TypeOK
<1>5. \A g \in Handlers : handler'[g] # Idle => handler[g] # Idle
  BY <1>4
<1>6. handler' \in [Handlers -> Request \cup {Idle}]
  BY <1>1 DEF Sound, TypeOK
<1>7. /\ handler[h].token \in 0..MaxTokens /\ handler[h].token <= issued
      /\ handler[h].login \in Logins
  BY <1>1, Shapes, Shape DEF Sound, Issues, At
<1>8. CASE /\ table' = table \ past
           /\ Abandon(handler[h].token)
           /\ UNCHANGED <<session, made>>
  <2>1. TokensAccounted' /\ abandoned' \subseteq 1..issued
    BY <1>1, <1>8, Dropped
  <2>2. TypeOK'
    BY <1>1, <1>3, <1>6, <1>8, <2>1 DEF Sound, TypeOK, Made
  <2>3. Requests' /\ Holding' /\ SigningOut'
    BY <1>4, <1>8 DEF Sound, Requests, Uses, Made, Holding, Calls, SigningOut, SignsOut, At
  <2>4. EndedClosed'
    BY <1>1, <1>4, <1>8 DEF Sound, EndedClosed, Reachable, Made
  <2>5. SignIns' /\ OneSessionPerLogin'
    BY <1>3, <1>4, <1>8, SameSignIns DEF Sound, SignsIn
  <2>6. WithinCapacity'
    BY <1>3, <1>8, Smaller DEF Sound
  <2>7. Issues'
    BY <1>1, <1>4, <1>8, TokenTypes, SameIssues DEF Sound, At
  <2> QED
    BY <2>1, <2>2, <2>3, <2>4, <2>5, <2>6, <2>7 DEF Sound
<1>9. CASE /\ Room(past)
           /\ made < MaxSessions
           /\ made' = made + 1
           /\ table' = (table \ (past \cup {handler[h].cookie})) \cup {made'}
           /\ session' = [s \in 1..made' |->
                IF s = made'
                THEN [login |-> handler[h].login, refresh |-> handler[h].token,
                      stale |-> FALSE, closed |-> FALSE]
                ELSE session[s]]
           /\ UNCHANGED abandoned
  <2> DEFINE new == [login |-> handler[h].login, refresh |-> handler[h].token,
                     stale |-> FALSE, closed |-> FALSE]
  <2>1. /\ made \in Nat /\ made' \in 0..MaxSessions
        /\ Made' = Made \cup {made'} /\ made' \notin Made
    BY <1>9, SessionsAssumption DEF Sound, TypeOK, Made
  <2>2. session'[made'] = new /\ \A s \in Made : session'[s] = session[s]
    BY <1>9, <2>1 DEF Made
  <2>3. session' \in [Made' -> Session]
    <3>1. new \in Session
      BY <1>7 DEF Session
    <3>2. \A s \in Made' : session'[s] \in Session
      BY <2>1, <2>2, <3>1 DEF Sound, TypeOK
    <3> HIDE DEF new
    <3> QED
      BY <1>9, <3>2 DEF Made
  <2>4. TypeOK'
    BY <1>1, <1>3, <1>6, <1>9, <2>1, <2>3 DEF Sound, TypeOK
  <2>5. \A g \in Handlers : Uses(g)' => /\ g # h /\ Uses(g) /\ handler'[g] = handler[g]
                                        /\ handler[g].session \in Made
    BY <1>4, <1>5 DEF Sound, Requests, Uses
  <2>6. Requests' /\ Holding' /\ SigningOut'
    <3>1. Requests'
      BY <2>1, <2>5 DEF Requests
    <3>2. Holding'
      BY <2>2, <2>5, SamePages DEF Sound, Calls, At, Uses
    <3>3. SigningOut'
      BY <2>2, <2>5, SameSignOuts DEF Sound, SignsOut, At, Uses
    <3> QED
      BY <3>1, <3>2, <3>3
  <2>7. EndedClosed'
    <3>1. \A s \in (ended \cup strayed)' \cap Reachable' :
            s \in Made /\ s \in (ended \cup strayed) \cap Reachable
      BY <1>1, <1>9, <2>1, <2>5 DEF Sound, TypeOK, Reachable, Uses
    <3> QED
      BY <2>2, <3>1, SameEnds DEF Sound
  <2>8. TokensAccounted'
    <3> SUFFICES ASSUME NEW t \in alive' \ abandoned'
                 PROVE  \/ \E s \in Made' \ ended' : session'[s].refresh = t
                        \/ \E g \in Handlers :
                             /\ At(g, "callback", "profile")' \/ At(g, "logout", "revoke")'
                             /\ handler'[g].token = t
      BY DEF TokensAccounted
    <3>1. t \in alive \ abandoned
      BY <1>1, <1>9
    <3>2. CASE \E s \in Made \ ended : session[s].refresh = t
      BY <1>1, <2>1, <2>2, <3>2
    <3>3. ASSUME NEW g \in Handlers, At(g, "callback", "profile") \/ At(g, "logout", "revoke"),
                 handler[g].token = t
          PROVE  \/ \E s \in Made' \ ended' : session'[s].refresh = t
                 \/ \E k \in Handlers :
                      /\ At(k, "callback", "profile")' \/ At(k, "logout", "revoke")'
                      /\ handler'[k].token = t
      <4>1. CASE g = h
        <5>1. made' \in Made' \ ended' /\ session'[made'].refresh = t
          BY <1>1, <2>1, <2>2, <3>3, <4>1 DEF Sound, TypeOK
        <5> QED
          BY <5>1
      <4>2. CASE g # h
        <5>1. handler'[g] = handler[g]
          BY <1>1, <4>2
        <5> QED
          BY <3>3, <5>1 DEF At
      <4> QED
        BY <4>1, <4>2
    <3> QED
      BY <3>1, <3>2, <3>3 DEF Sound, TokensAccounted
  <2>9. SignIns' /\ OneSessionPerLogin'
    <3>1. /\ login[handler[h].login] = "over"
          /\ \A s \in Made : session[s].login # handler[h].login
          /\ \A g \in Handlers : SignsIn(g) /\ handler[g].login = handler[h].login => g = h
      BY <1>1 DEF Sound, SignIns
    <3>2. /\ \A s \in Made : session[s].login \in Logins
          /\ \A g \in Handlers : SignsIn(g) => handler[g].login \in Logins
      BY Shapes, Shape DEF Sound, TypeOK, Session, SignsIn
    <3>3. \A g \in Handlers : SignsIn(g)' => g # h /\ SignsIn(g) /\ handler'[g] = handler[g]
      BY <1>4, <1>5 DEF SignsIn
    <3>4. session'[made'].login = handler[h].login
      BY <2>2
    <3> HIDE DEF new
    <3>5. \A s \in Made' : login'[session'[s].login] = "over"
      BY <1>3, <1>7, <2>1, <2>2, <3>1, <3>2, <3>4 DEF Sound, SignIns
    <3>6. \A g \in Handlers : SignsIn(g)' =>
            /\ login'[handler'[g].login] = "over"
            /\ \A s \in Made' : session'[s].login # handler'[g].login
            /\ \A k \in Handlers : SignsIn(k)' /\ handler'[k].login = handler'[g].login => k = g
      BY <1>1, <1>3, <2>1, <2>2, <3>1, <3>2, <3>3, <3>4 DEF Sound, SignIns
    <3>7. OneSessionPerLogin'
      BY <2>1, <2>2, <3>1, <3>4 DEF Sound, OneSessionPerLogin
    <3> QED
      BY <3>5, <3>6, <3>7 DEF SignIns
  <2>10. WithinCapacity'
    <3>1. Cardinality(UnderWay') <= Capacity
      <4>1. IsFiniteSet(UnderWay)
        BY SessionsAssumption, FS_Subset DEF UnderWay
      <4>2. Cardinality(UnderWay') <= Cardinality(UnderWay) /\ Cardinality(UnderWay') \in Nat
            /\ Cardinality(UnderWay) \in Nat
        BY <1>3, <4>1, FS_Subset, FS_CardinalityType
      <4> QED
        BY <4>2, SessionsAssumption DEF Sound, WithinCapacity
    <3>2. IsFiniteSet(table \ past) /\ IsFiniteSet((table \ past) \cup {made'})
      <4>1. made \in Int /\ 1 \in Int /\ (table \ past) \in SUBSET (1..made)
        BY <2>1 DEF Sound, TypeOK, Made
      <4> QED
        BY <4>1, FS_Interval, FS_Subset, FS_AddElement
    <3>3. table' \subseteq (table \ past) \cup {made'}
      BY <1>9
    <3>4. /\ Cardinality(table') <= Cardinality((table \ past) \cup {made'})
          /\ Cardinality((table \ past) \cup {made'}) <= Cardinality(table \ past) + 1
          /\ Cardinality(table \ past) \in Nat
          /\ Cardinality((table \ past) \cup {made'}) \in Nat
          /\ Cardinality(table') \in Nat
      BY <3>2, <3>3, FS_Subset, FS_AddElement, FS_CardinalityType
    <3>5. Cardinality(table') <= Capacity
      BY <1>9, <3>4, SessionsAssumption DEF Room, FullTable
    <3> QED
      BY <3>1, <3>5 DEF WithinCapacity
  <2>11. Issues'
    <3>1. \A s \in Made' : session'[s].refresh <= issued'
      BY <1>1, <1>7, <2>1, <2>2 DEF Sound, Issues
    <3>2. \A g \in Handlers : At(g, "callback", "profile")' \/ At(g, "logout", "revoke")' =>
            handler'[g].token <= issued'
      BY <1>1, <1>4, <1>5 DEF Sound, Issues, At
    <3> QED
      BY <3>1, <3>2 DEF Issues
  <2> QED
    BY <2>4, <2>6, <2>7, <2>8, <2>9, <2>10, <2>11 DEF Sound
<1> QED
  BY <1>2, <1>8, <1>9

-----------------------------------------------------------------------------
(* The requests that have a session.                                       *)

\* A request that takes up a session somebody can reach, or goes on with
\* its own, or ends: what it leaves alone, and what it may only close.
LEMMA UseGoesOn ==
  ASSUME Sound, NEW h \in Handlers, ~SignsIn(h),
         NEW s \in Reachable, Uses(h) => handler[h].session = s,
         NEW r \in {q \in Request : q.kind # "callback" /\ q.session = s} \cup {Idle},
         handler' = [handler EXCEPT ![h] = r],
         UNCHANGED <<login, made>>, table' \subseteq table,
         \A t \in Made : /\ session'[t].login = session[t].login
                         /\ session[t].closed => session'[t].closed,
         \A t \in (ended \cup strayed)' :
           t \in ended \cup strayed \/ (t \in Made /\ session'[t].closed)
  PROVE  Requests' /\ EndedClosed' /\ SignIns' /\ OneSessionPerLogin' /\ WithinCapacity'
<1>1. Made' = Made /\ s \in Made
  BY DEF Made, Reachable, Sound, TypeOK
<1>2. \A g \in Handlers : Uses(g)' =>
        \/ g = h /\ handler'[g].session = s
        \/ g # h /\ Uses(g) /\ handler'[g] = handler[g]
  BY DEF Sound, TypeOK, Uses
<1>3. Requests'
  BY <1>1, <1>2 DEF Sound, Requests
<1>4. Reachable' \subseteq Reachable
  BY <1>1, <1>2 DEF Reachable, Uses
<1>5. EndedClosed'
  BY <1>1, <1>4 DEF Sound, EndedClosed, Reachable, TypeOK
<1>6. \A g \in Handlers : SignsIn(g)' => SignsIn(g) /\ handler'[g].login = handler[g].login
  BY DEF Sound, TypeOK, SignsIn
<1>7. SignIns' /\ OneSessionPerLogin'
  BY <1>6, SameSignIns DEF Sound
<1>8. WithinCapacity'
  BY Smaller DEF Sound, UnderWay
<1> QED
  BY <1>3, <1>5, <1>7, <1>8

\* The session of a request can be reached.
LEMMA Reached ==
  ASSUME Sound, NEW h \in Handlers, Uses(h)
  PROVE  handler[h].session \in Made /\ handler[h].session \in Reachable
  BY DEF Sound, Requests, Reachable, Uses

LEMMA LookupStep ==
  ASSUME Sound, NEW h \in Handlers, NEW s \in Made, NEW kind \in {"page", "logout"},
         Lookup(h, s, kind)
  PROVE  Sound'
<1> DEFINE w == [kind |-> kind, at |-> "wait", session |-> s]
<1>1. /\ handler[h] = Idle /\ s \in table /\ s \in Reachable
      /\ UNCHANGED <<login, session, made, provider, history>>
      /\ table' \subseteq table
  BY DEF Lookup, Goes, Reachable
<1>2. w \in Request /\ w.kind # "callback" /\ w.session = s /\ w.at = "wait"
  BY Places DEF Request, Sound
<1> HIDE DEF w
<1>3. PICK r \in {q \in Request : q.kind # "callback" /\ q.session = s} \cup {Idle} :
        /\ handler' = [handler EXCEPT ![h] = r]
        /\ r = Idle \/ r.at = "wait"
  <2>1. handler' = [handler EXCEPT ![h] = Idle] \/ handler' = [handler EXCEPT ![h] = w]
    BY <1>1 DEF Lookup, Goes, w, Sound, TypeOK
  <2> QED
    BY <1>2, <2>1
<1>4. TypeOK'
  BY <1>1, <1>3 DEF Sound, TypeOK, Made, provider, history
<1>5. ~SignsIn(h) /\ ~Uses(h)
  BY <1>1 DEF SignsIn, Uses
<1>6. Requests' /\ EndedClosed' /\ SignIns' /\ OneSessionPerLogin' /\ WithinCapacity'
  BY <1>1, <1>3, <1>5, UseGoesOn DEF history
<1>7. /\ handler'[h] = r
      /\ \A g \in Handlers : g # h => handler'[g] = handler[g]
  BY <1>3 DEF Sound, TypeOK
<1>8. /\ Holding' /\ SigningOut' /\ Issues'
  <2>1. \A g \in Handlers :
          Calls(g)' \/ SignsOut(g)' \/ At(g, "callback", "profile")' \/ At(g, "logout", "revoke")' =>
            g # h /\ handler'[g] = handler[g]
    BY <1>3, <1>7 DEF Calls, SignsOut, At
  <2>2. issued' = issued /\ Made' = Made
    BY <1>1 DEF provider, Made
  <2> QED
    BY <1>1, <2>1, <2>2 DEF Sound, Holding, SigningOut, Issues, Calls, SignsOut, At
<1>9. TokensAccounted'
  <2>1. \A g \in Handlers : At(g, "callback", "profile") \/ At(g, "logout", "revoke") =>
          handler'[g] = handler[g]
    BY <1>1, <1>7 DEF At
  <2> QED
    BY <1>1, <2>1, SameTokens DEF Sound, provider, history
<1> QED
  BY <1>4, <1>6, <1>8, <1>9 DEF Sound

\* A page calls with an open session that no other page calls with.
LEMMA CheckStep ==
  ASSUME Sound, NEW h \in Handlers, Check(h)
  PROVE  Sound'
<1> DEFINE s == handler[h].session
<1>1. /\ At(h, "page", "wait") /\ Uses(h) /\ ~SignsIn(h) /\ ~Locked(s)
      /\ UNCHANGED <<memory, provider, history>>
  BY DEF Check, Obtains, At, Uses, SignsIn
<1>2. s \in Made /\ s \in Reachable /\ session[s] \in Session
  BY <1>1, Reached DEF Sound, TypeOK
<1>3. PICK r \in {q \in Request : q.kind # "callback" /\ q.session = s} \cup {Idle} :
        /\ handler' = [handler EXCEPT ![h] = r]
        /\ r # Idle => /\ r.kind = "page" /\ r.at \in {"exchange", "profile"}
                       /\ ~session[s].closed
                       /\ r.at = "exchange" => r.token = session[s].refresh
  <2> DEFINE p == [kind |-> "page", at |-> "profile", session |-> s]
             e == [kind |-> "page", at |-> "exchange", session |-> s, token |-> session[s].refresh]
  <2>1. \/ handler' = [handler EXCEPT ![h] = Idle]
        \/ ~session[s].closed /\ handler' = [handler EXCEPT ![h] = p]
        \/ /\ ~session[s].closed /\ session[s].refresh # 0
           /\ handler' = [handler EXCEPT ![h] = e]
    BY DEF Check, Open, AsksProfile, Ends, Goes
  <2>2. p \in Request /\ p.kind = "page" /\ p.at = "profile" /\ p.session = s
    BY <1>2, Places DEF Request, Sound
  <2>3. session[s].refresh # 0 => e \in Request
    BY <1>2, Places, SessionsAssumption DEF Request, Sound, Session, Tokens
  <2>4. e.kind = "page" /\ e.at = "exchange" /\ e.session = s /\ e.token = session[s].refresh
    OBVIOUS
  <2> HIDE DEF p, e
  <2> QED
    BY <2>1, <2>2, <2>3, <2>4
<1>4. TypeOK'
  BY <1>1, <1>3 DEF Sound, TypeOK, Made, memory, provider, history
<1>5. Requests' /\ EndedClosed' /\ SignIns' /\ OneSessionPerLogin' /\ WithinCapacity'
  BY <1>1, <1>2, <1>3, UseGoesOn DEF memory, history
<1>6. /\ handler'[h] = r
      /\ \A g \in Handlers : g # h => handler'[g] = handler[g]
  BY <1>3 DEF Sound, TypeOK
<1>7. Holding'
  <2>1. \A g \in Handlers : Calls(g) => handler[g].session # s
    BY <1>1 DEF Locked, Calls
  <2>2. \A g \in Handlers : g # h /\ Calls(g)' => Calls(g)
    BY <1>6 DEF Calls, At
  <2>3. Calls(h)' => /\ handler'[h].session = s /\ ~session[s].closed
                     /\ At(h, "page", "exchange")' => handler'[h].token = session[s].refresh
    BY <1>3, <1>6 DEF Calls, At
  <2>4. session' = session
    BY <1>1 DEF memory
  <2> QED
    BY <1>6, <2>1, <2>2, <2>3, <2>4 DEF Sound, Holding, At
<1>8. SigningOut' /\ Issues'
  <2>1. \A g \in Handlers :
          SignsOut(g)' \/ At(g, "callback", "profile")' \/ At(g, "logout", "revoke")' =>
            g # h /\ handler'[g] = handler[g]
    BY <1>3, <1>6 DEF SignsOut, At
  <2>2. session' = session /\ issued' = issued /\ Made' = Made
    BY <1>1 DEF memory, provider, Made
  <2> QED
    BY <2>1, <2>2 DEF Sound, SigningOut, Issues, SignsOut, At
<1>9. TokensAccounted'
  <2>1. \A g \in Handlers : At(g, "callback", "profile") \/ At(g, "logout", "revoke") =>
          handler'[g] = handler[g]
    BY <1>1, <1>6 DEF At
  <2> QED
    BY <1>1, <2>1, SameTokens DEF Sound, memory, provider, history
<1> QED
  BY <1>4, <1>5, <1>7, <1>8, <1>9 DEF Sound

\* No other page, and no sign-out, has the session of a page that calls.
LEMMA Alone ==
  ASSUME Sound, NEW h \in Handlers, Calls(h), NEW g \in Handlers, g # h,
         Calls(g) \/ SignsOut(g)
  PROVE  handler[g].session # handler[h].session
  BY DEF Sound, Holding, SigningOut

\* The page holds the newest token, and nobody else's token dies.
LEMMA RefreshStep ==
  ASSUME Sound, NEW h \in Handlers, Refresh(h)
  PROVE  Sound'
<1> DEFINE s == handler[h].session
           old == handler[h].token
           p == [kind |-> "page", at |-> "profile", session |-> s]
<1>1. /\ At(h, "page", "exchange") /\ Calls(h) /\ Uses(h) /\ ~SignsIn(h)
      /\ UNCHANGED <<login, table, made, abandoned, history>>
      /\ handler' = [handler EXCEPT ![h] = p]
  BY DEF Refresh, AsksProfile, Goes, At, Calls, Uses, SignsIn
<1>2. PICK token \in {old, issued + 1} :
        /\ IF token = old THEN UNCHANGED <<issued, alive>> ELSE Issue({old})
        /\ session' = [session EXCEPT ![s].refresh = token, ![s].stale = FALSE]
  BY DEF Refresh
<1>3. /\ s \in Made /\ s \in Reachable /\ session[s] \in Session
      /\ ~session[s].closed /\ session[s].refresh = old
      /\ old \in Tokens
  BY <1>1, Reached, Shapes, Shape DEF Sound, TypeOK, Holding, At
<1>4. p \in Request /\ p.kind = "page" /\ p.at = "profile" /\ p.session = s /\ p # Idle
  BY <1>3, Places, IdleAssumption DEF Request, Sound
<1> HIDE DEF s, old, p
<1>5. /\ issued \in Nat /\ issued' \in 0..MaxTokens /\ issued <= issued'
      /\ alive' \subseteq 1..issued' /\ abandoned' \subseteq 1..issued'
      /\ token \in 0..MaxTokens /\ token <= issued'
      /\ alive' \subseteq (alive \ {old}) \cup {token}
  <2>1. old <= issued
    BY <1>3 DEF Sound, Issues
  <2>2. CASE token = old
    BY <1>1, <1>2, <1>3, <2>1, <2>2, TokenTypes, SessionsAssumption DEF Sound, Tokens
  <2>3. CASE token # old
    BY <1>1, <1>2, <2>3, TokenTypes, Issuing, SessionsAssumption DEF Sound
  <2> QED
    BY <2>2, <2>3
<1>6. /\ session' \in [Made -> Session]
      /\ session'[s].refresh = token
      /\ session'[s].login = session[s].login /\ session'[s].closed = session[s].closed
      /\ \A t \in Made : t # s => session'[t] = session[t]
  <2>1. [session[s] EXCEPT !.refresh = token, !.stale = FALSE] \in Session
    BY <1>3, <1>5 DEF Session
  <2>2. session' = [session EXCEPT ![s] = [session[s] EXCEPT !.refresh = token, !.stale = FALSE]]
    BY <1>2, <1>3 DEF Sound, TypeOK
  <2>3. session'[s] = [session[s] EXCEPT !.refresh = token, !.stale = FALSE]
    BY <1>3, <2>2 DEF Sound, TypeOK
  <2> QED
    BY <1>3, <2>1, <2>2, <2>3 DEF Sound, TypeOK, Session
<1>7. /\ handler'[h] = p
      /\ \A g \in Handlers : g # h => handler'[g] = handler[g]
  BY <1>1 DEF Sound, TypeOK
<1>8. TypeOK'
  BY <1>1, <1>4, <1>5, <1>6 DEF Sound, TypeOK, Made, history
<1>9. Requests' /\ EndedClosed' /\ SignIns' /\ OneSessionPerLogin' /\ WithinCapacity'
  <2>1. \A t \in Made : /\ session'[t].login = session[t].login
                        /\ session[t].closed => session'[t].closed
    BY <1>6
  <2>2. /\ p \in {q \in Request : q.kind # "callback" /\ q.session = s}
        /\ Uses(h) => handler[h].session = s
    BY <1>4 DEF s
  <2> QED
    BY <1>1, <1>3, <2>1, <2>2, UseGoesOn DEF history
<1>10. Holding'
  <2>1. \A g \in Handlers : Calls(g)' => Calls(g)
    BY <1>1, <1>7 DEF Calls, At
  <2>2. \A g \in Handlers : g # h /\ Calls(g)' =>
          /\ handler'[g] = handler[g] /\ handler[g].session # s
          /\ handler[g].session \in Made
    BY <1>1, <1>7, <2>1, Alone DEF Sound, Requests, Calls, Uses, At, s
  <2>3. ~At(h, "page", "exchange")' /\ handler'[h].session = s
    BY <1>4, <1>7 DEF At
  <2> QED
    BY <1>3, <1>6, <2>1, <2>2, <2>3 DEF Sound, Holding, At
<1>11. SigningOut'
  <2>1. \A g \in Handlers : SignsOut(g)' => g # h /\ SignsOut(g) /\ handler'[g] = handler[g]
    BY <1>4, <1>7 DEF SignsOut, At
  <2>2. \A g \in Handlers : SignsOut(g)' => handler[g].session # s /\ handler[g].session \in Made
    BY <1>1, <2>1, Alone DEF Sound, Requests, SignsOut, Uses, At, s
  <2> QED
    BY <1>6, <2>1, <2>2 DEF Sound, SigningOut
<1>12. Issues'
  <2>1. \A t \in Made : session'[t].refresh <= issued'
    <3>1. \A t \in Made : session[t].refresh \in Nat /\ session[t].refresh <= issued
      BY SessionsAssumption DEF Sound, Issues, TypeOK, Session
    <3> QED
      BY <1>5, <1>6, <3>1, SessionsAssumption
  <2>2. \A g \in Handlers : At(g, "callback", "profile")' \/ At(g, "logout", "revoke")' =>
          /\ At(g, "callback", "profile") \/ At(g, "logout", "revoke")
          /\ handler'[g] = handler[g]
    BY <1>4, <1>7 DEF At
  <2>3. \A g \in Handlers : At(g, "callback", "profile") \/ At(g, "logout", "revoke") =>
          handler[g].token \in Nat /\ handler[g].token <= issued
    BY Shapes, Shape, SessionsAssumption DEF Sound, Issues, At, Tokens
  <2>4. issued' \in Nat /\ Made' = Made
    BY <1>1, <1>5, SessionsAssumption DEF Made
  <2> QED
    BY <1>5, <2>1, <2>2, <2>3, <2>4 DEF Issues
<1>13. TokensAccounted'
  <2>1. s \notin ended /\ ended' = ended /\ Made' = Made /\ abandoned' = abandoned
    BY <1>1, <1>3 DEF Sound, EndedClosed, history, Made
  <2>2. \A g \in Handlers : At(g, "callback", "profile") \/ At(g, "logout", "revoke") =>
          handler'[g] = handler[g]
    BY <1>1, <1>7 DEF At
  <2> SUFFICES ASSUME NEW t \in alive' \ abandoned'
               PROVE  \/ \E k \in Made' \ ended' : session'[k].refresh = t
                      \/ \E g \in Handlers :
                           /\ At(g, "callback", "profile")' \/ At(g, "logout", "revoke")'
                           /\ handler'[g].token = t
    BY DEF TokensAccounted
  <2>3. CASE t = token
    BY <1>3, <1>6, <2>1, <2>3
  <2>4. CASE t # token
    <3>1. t \in alive \ abandoned /\ t # session[s].refresh
      BY <1>3, <1>5, <2>1, <2>4
    <3> QED
      BY <1>6, <2>1, <2>2, <3>1 DEF Sound, TokensAccounted, At
  <2> QED
    BY <2>3, <2>4
<1> QED
  BY <1>8, <1>9, <1>10, <1>11, <1>12, <1>13 DEF Sound

LEMMA RefreshFailsStep ==
  ASSUME Sound, NEW h \in Handlers, RefreshFails(h)
  PROVE  Sound'
<1> DEFINE dead == {handler[h].token}
<1>1. /\ At(h, "page", "exchange") /\ Uses(h) /\ ~SignsIn(h)
      /\ UNCHANGED <<memory, history>>
      /\ handler' = [handler EXCEPT ![h] = Idle]
      /\ IssuedInVain(dead) \/ UNCHANGED provider
  BY DEF RefreshFails, Ends, Goes, At, Uses, SignsIn
<1>2. /\ issued' \in 0..MaxTokens /\ alive' \subseteq 1..issued' /\ abandoned' \subseteq 1..issued'
      /\ alive' \ abandoned' \subseteq alive \ abandoned
      /\ issued' \in Nat /\ issued <= issued'
  <2> HIDE DEF dead
  <2>1. issued' \in Nat /\ issued <= issued'
    BY <1>1, Issuing, TokenTypes DEF Sound, IssuedInVain, provider
  <2> QED
    BY <1>1, <2>1, InVain DEF Sound
<1> HIDE DEF dead
<1>3. TypeOK'
  BY <1>1, <1>2 DEF Sound, TypeOK, Made, memory, history
<1>4. \A g \in Handlers : handler'[g] = handler[g] \/ (g = h /\ handler'[g] = Idle)
  BY <1>1 DEF Sound, TypeOK
<1>5. Requests' /\ EndedClosed' /\ SignIns' /\ OneSessionPerLogin' /\ WithinCapacity'
  BY <1>1, Reached, UseGoesOn DEF memory, history
<1>6. Holding' /\ SigningOut'
  BY <1>1, <1>4 DEF Sound, Holding, Calls, SigningOut, SignsOut, At, memory
<1>7. TokensAccounted'
  <2>1. \A g \in Handlers : At(g, "callback", "profile") \/ At(g, "logout", "revoke") =>
          handler'[g] = handler[g]
    BY <1>1, <1>4 DEF At
  <2> QED
    BY <1>1, <1>2, <2>1, SameTokens DEF Sound, memory, history
<1>8. Issues'
  <2>1. \A g \in Handlers : At(g, "callback", "profile")' \/ At(g, "logout", "revoke")' =>
           /\ At(g, "callback", "profile") \/ At(g, "logout", "revoke")
           /\ handler'[g] = handler[g]
    BY <1>4 DEF At
  <2> QED
    BY <1>1, <1>2, <2>1, SameIssues DEF Sound, memory
<1> QED
  BY <1>3, <1>5, <1>6, <1>7, <1>8 DEF Sound

LEMMA AnswerStep ==
  ASSUME Sound, NEW h \in Handlers, Answer(h)
  PROVE  Sound'
<1> DEFINE s == handler[h].session
<1>1. /\ At(h, "page", "profile") /\ Calls(h) /\ Uses(h) /\ ~SignsIn(h)
      /\ UNCHANGED <<login, table, made, provider, ended>>
      /\ handler' = [handler EXCEPT ![h] = Idle]
      /\ \/ UNCHANGED <<session, strayed>>
         \/ session' = [session EXCEPT ![s].closed = TRUE] /\ strayed' = strayed \cup {s}
  BY DEF Answer, Ends, Goes, At, Calls, Uses, SignsIn
<1>2. s \in Made /\ s \in Reachable /\ session[s] \in Session
  BY <1>1, Reached DEF Sound, TypeOK
<1> HIDE DEF s
<1>3. /\ session' \in [Made -> Session]
      /\ \A t \in Made : /\ session'[t].login = session[t].login
                         /\ session'[t].refresh = session[t].refresh
                         /\ session[t].closed => session'[t].closed
                         /\ t # s => session'[t] = session[t]
      /\ \A t \in strayed' : t \in strayed \/ (t = s /\ session'[s].closed)
  <2>1. CASE UNCHANGED <<session, strayed>>
    BY <2>1 DEF Sound, TypeOK
  <2>2. CASE session' = [session EXCEPT ![s].closed = TRUE] /\ strayed' = strayed \cup {s}
    <3>1. [session[s] EXCEPT !.closed = TRUE] \in Session
      BY <1>2 DEF Session
    <3>2. /\ session' = [session EXCEPT ![s] = [session[s] EXCEPT !.closed = TRUE]]
          /\ session'[s] = [session[s] EXCEPT !.closed = TRUE]
      BY <1>2, <2>2 DEF Sound, TypeOK
    <3> QED
      BY <1>2, <2>2, <3>1, <3>2 DEF Sound, TypeOK, Session
  <2> QED
    BY <1>1, <2>1, <2>2
<1>4. \A g \in Handlers : (handler'[g] = handler[g] /\ g # h) \/ (g = h /\ handler'[g] = Idle)
  BY <1>1 DEF Sound, TypeOK
<1>5. TypeOK'
  BY <1>1, <1>2, <1>3 DEF Sound, TypeOK, Made, provider
<1>6. Requests' /\ EndedClosed' /\ SignIns' /\ OneSessionPerLogin' /\ WithinCapacity'
  <2>1. Uses(h) => handler[h].session = s
    BY DEF s
  <2> QED
    BY <1>1, <1>2, <1>3, <2>1, UseGoesOn
<1>7. Holding'
  <2>1. \A g \in Handlers : Calls(g)' => g # h /\ Calls(g) /\ handler'[g] = handler[g]
    BY <1>4 DEF Calls, At
  <2>2. \A g \in Handlers : Calls(g)' => handler[g].session # s /\ handler[g].session \in Made
    BY <1>1, <2>1, Alone DEF Sound, Requests, Calls, Uses, At, s
  <2> QED
    BY <1>3, <2>1, <2>2, SamePages DEF Sound
<1>8. SigningOut'
  <2>1. \A g \in Handlers : SignsOut(g)' =>
          SignsOut(g) /\ handler'[g] = handler[g] /\ handler[g].session \in Made
    BY <1>4 DEF Sound, Requests, SignsOut, Uses, At
  <2> QED
    BY <1>3, <2>1, SameSignOuts DEF Sound
<1>9. TokensAccounted'
  <2>1. \A g \in Handlers : At(g, "callback", "profile") \/ At(g, "logout", "revoke") =>
          handler'[g] = handler[g]
    BY <1>1, <1>4 DEF At
  <2> QED
    BY <1>1, <1>3, <2>1, SameTokens DEF Sound, provider
<1>10. Issues'
  <2>1. \A g \in Handlers : At(g, "callback", "profile")' \/ At(g, "logout", "revoke")' =>
           /\ At(g, "callback", "profile") \/ At(g, "logout", "revoke")
           /\ handler'[g] = handler[g]
    BY <1>4 DEF At
  <2>2. issued' \in Nat /\ issued <= issued'
    BY <1>1, TokenTypes DEF Sound, provider
  <2> QED
    BY <1>1, <1>3, <2>1, <2>2, SameIssues DEF Sound
<1> QED
  BY <1>5, <1>6, <1>7, <1>8, <1>9, <1>10 DEF Sound

\* No page calls with the session, and the token is in the sign-out's hands.
LEMMA CloseStep ==
  ASSUME Sound, NEW h \in Handlers, Close(h)
  PROVE  Sound'
<1> DEFINE s == handler[h].session
           token == session[s].refresh
           v == [kind |-> "logout", at |-> "revoke", session |-> s, token |-> token]
           d == [kind |-> "logout", at |-> "delete", session |-> s]
<1>1. /\ At(h, "logout", "wait") /\ Uses(h) /\ ~SignsIn(h) /\ ~Locked(s)
      /\ UNCHANGED <<login, table, made, provider, history>>
  BY DEF Close, Obtains, At, Uses, SignsIn
<1>2. /\ s \in Made /\ s \in Reachable /\ session[s] \in Session
      /\ token \in 0..MaxTokens /\ token <= issued
  BY <1>1, Reached DEF Sound, TypeOK, Session, Issues
<1>3. /\ d \in Request /\ d.kind = "logout" /\ d.at = "delete" /\ d.session = s
      /\ token # 0 => v \in Request
      /\ v.kind = "logout" /\ v.at = "revoke" /\ v.session = s /\ v.token = token
  <2>1. s \in Sessions /\ (token # 0 => token \in Tokens)
    BY <1>2, Places, SessionsAssumption DEF Sound, Tokens
  <2> HIDE DEF s, token
  <2> QED
    BY <2>1 DEF Request
<1>4. \/ session' = session /\ handler' = [handler EXCEPT ![h] = Idle]
      \/ /\ session' = [session EXCEPT ![s].closed = TRUE, ![s].refresh = 0]
         /\ \/ token = 0 /\ handler' = [handler EXCEPT ![h] = d]
            \/ token # 0 /\ handler' = [handler EXCEPT ![h] = v]
  BY DEF Close, Revocation, Ends, Goes
<1>5. s = handler[h].session /\ token = session[s].refresh
  OBVIOUS
<1> HIDE DEF s, token, v, d
<1>6. PICK r \in {q \in Request : q.kind # "callback" /\ q.session = s} \cup {Idle} :
        /\ handler' = [handler EXCEPT ![h] = r]
        /\ r = Idle => session' = session
        /\ r # Idle => /\ r.kind = "logout"
                       /\ session' = [session EXCEPT ![s].closed = TRUE, ![s].refresh = 0]
                       /\ \/ r.at = "delete" /\ token = 0
                          \/ r.at = "revoke" /\ r.token = token /\ token # 0
  <2>1. CASE session' = session /\ handler' = [handler EXCEPT ![h] = Idle]
    BY <2>1
  <2>2. CASE /\ session' = [session EXCEPT ![s].closed = TRUE, ![s].refresh = 0]
             /\ token = 0 /\ handler' = [handler EXCEPT ![h] = d]
    BY <1>3, <2>2, IdleAssumption
  <2>3. CASE /\ session' = [session EXCEPT ![s].closed = TRUE, ![s].refresh = 0]
             /\ token # 0 /\ handler' = [handler EXCEPT ![h] = v]
    BY <1>3, <2>3, IdleAssumption
  <2> QED
    BY <1>4, <2>1, <2>2, <2>3
<1>7. /\ session' \in [Made -> Session]
      /\ \A t \in Made : /\ session'[t].login = session[t].login
                         /\ session'[t].refresh \in {0, session[t].refresh}
                         /\ session[t].closed => session'[t].closed
                         /\ t # s => session'[t] = session[t]
      /\ r # Idle => session'[s].closed /\ session'[s].refresh = 0
  <2>1. CASE session' = session /\ r = Idle
    BY <2>1 DEF Sound, TypeOK
  <2>2. CASE session' = [session EXCEPT ![s].closed = TRUE, ![s].refresh = 0]
    <3>1. [session[s] EXCEPT !.closed = TRUE, !.refresh = 0] \in Session
      <4>1. 0 \in 0..MaxTokens
        BY SessionsAssumption
      <4> QED
        BY <1>2, <4>1 DEF Session
    <3>2. /\ session' = [session EXCEPT ![s] = [session[s] EXCEPT !.closed = TRUE, !.refresh = 0]]
          /\ session'[s] = [session[s] EXCEPT !.closed = TRUE, !.refresh = 0]
      BY <1>2, <2>2 DEF Sound, TypeOK
    <3> QED
      BY <1>2, <2>2, <3>1, <3>2 DEF Sound, TypeOK, Session
  <2> QED
    BY <1>6, <2>1, <2>2
<1>8. handler'[h] = r /\ \A g \in Handlers : g # h => handler'[g] = handler[g]
  BY <1>6 DEF Sound, TypeOK
<1>9. TypeOK'
  BY <1>1, <1>6, <1>7 DEF Sound, TypeOK, Made, provider, history
<1>10. Requests' /\ EndedClosed' /\ SignIns' /\ OneSessionPerLogin' /\ WithinCapacity'
  BY <1>1, <1>2, <1>5, <1>6, <1>7, UseGoesOn DEF history
<1>11. Holding'
  <2>1. \A g \in Handlers : Calls(g)' => g # h /\ Calls(g) /\ handler'[g] = handler[g]
    BY <1>6, <1>8 DEF Calls, At
  <2>2. \A g \in Handlers : Calls(g) => handler[g].session # s /\ handler[g].session \in Made
    BY <1>1 DEF Sound, Requests, Calls, Uses, At, Locked
  <2> QED
    BY <1>7, <2>1, <2>2, SamePages DEF Sound
<1>12. SigningOut'
  <2>1. \A g \in Handlers : SignsOut(g)' =>
          \/ g = h /\ handler'[g].session = s /\ r # Idle
          \/ SignsOut(g) /\ handler'[g] = handler[g] /\ handler[g].session \in Made
    BY <1>6, <1>8 DEF Sound, Requests, SignsOut, Uses, At
  <2> QED
    BY <1>7, <2>1 DEF Sound, SigningOut
<1>13. Issues'
  <2>1. \A t \in Made : session'[t].refresh <= issued
    BY <1>7, TokenTypes DEF Sound, Issues
  <2>2. \A g \in Handlers : At(g, "callback", "profile")' \/ At(g, "logout", "revoke")' =>
           \/ handler'[g].token = token
           \/ /\ At(g, "callback", "profile") \/ At(g, "logout", "revoke")
              /\ handler'[g] = handler[g]
    BY <1>6, <1>8 DEF At
  <2> QED
    BY <1>1, <1>2, <2>1, <2>2 DEF Sound, Issues, provider, Made
<1>14. TokensAccounted'
  <2>1. /\ UNCHANGED <<ended, alive, abandoned>> /\ Made' = Made
        /\ \A g \in Handlers : At(g, "callback", "profile") \/ At(g, "logout", "revoke") =>
             handler'[g] = handler[g]
    BY <1>1, <1>8 DEF provider, history, At, Made
  <2> SUFFICES ASSUME NEW t \in alive \ abandoned
               PROVE  \/ \E k \in Made \ ended : session'[k].refresh = t
                      \/ \E g \in Handlers :
                           /\ At(g, "callback", "profile")' \/ At(g, "logout", "revoke")'
                           /\ handler'[g].token = t
    BY <2>1 DEF TokensAccounted
  <2>2. CASE \E k \in Made \ ended : session[k].refresh = t
    <3>1. PICK k \in Made \ ended : session[k].refresh = t
      BY <2>2
    <3>2. CASE k # s \/ r = Idle
      <4>1. session'[k] = session[k]
        BY <1>6, <1>7, <3>2
      <4> QED
        BY <3>1, <4>1
    <3>3. CASE k = s /\ r # Idle
      <4>1. t = token /\ t # 0
        BY <1>5, <3>1, <3>3, TokenTypes DEF Sound
      <4>2. At(h, "logout", "revoke")' /\ handler'[h].token = t
        BY <1>6, <1>8, <3>3, <4>1 DEF At
      <4> QED
        BY <4>2
    <3> QED
      BY <3>2, <3>3
  <2>3. CASE \E g \in Handlers : /\ At(g, "callback", "profile") \/ At(g, "logout", "revoke")
                                 /\ handler[g].token = t
    BY <2>1, <2>3 DEF At
  <2> QED
    BY <2>2, <2>3 DEF Sound, TokensAccounted
<1> QED
  BY <1>9, <1>10, <1>11, <1>12, <1>13, <1>14 DEF Sound

\* The token of the sign-out dies, or is left behind.
LEMMA RevokeStep ==
  ASSUME Sound, NEW h \in Handlers, Revoke(h)
  PROVE  Sound'
<1> DEFINE s == handler[h].session
           token == handler[h].token
           d == [kind |-> "logout", at |-> "delete", session |-> s]
<1>1. /\ At(h, "logout", "revoke") /\ SignsOut(h) /\ Uses(h) /\ ~SignsIn(h)
      /\ UNCHANGED <<memory, issued, history>>
      /\ handler' = [handler EXCEPT ![h] = d]
      /\ \/ alive' = alive \ {token} /\ UNCHANGED abandoned
         \/ abandoned' = abandoned \cup ({token} \ {0}) /\ UNCHANGED alive
  BY DEF Revoke, Abandon, Goes, At, SignsOut, Uses, SignsIn
<1>2. /\ s \in Made /\ s \in Reachable /\ s = handler[h].session
      /\ session[s].closed /\ session[s].refresh = 0
      /\ token = handler[h].token /\ token \in Tokens /\ token <= issued
  BY <1>1, Reached, Shapes, Shape DEF Sound, SigningOut, Issues, At
<1> HIDE DEF s, token
<1>3. d \in Request /\ d.kind = "logout" /\ d.at = "delete" /\ d.session = s
  BY <1>2, Places DEF Request, Sound
<1> HIDE DEF d
<1>4. /\ alive' \subseteq 1..issued /\ abandoned' \subseteq 1..issued
      /\ alive' \ abandoned' \subseteq (alive \ abandoned) \ {token}
  <2>1. token \in 1..issued
    BY <1>2, TokenTypes DEF Sound, Tokens
  <2>2. token # 0
    BY <2>1
  <2> QED
    BY <1>1, <2>1, <2>2, TokenTypes DEF Sound
<1>5. handler'[h] = d /\ \A g \in Handlers : g # h => handler'[g] = handler[g]
  BY <1>1 DEF Sound, TypeOK
<1>6. TypeOK'
  BY <1>1, <1>3, <1>4 DEF Sound, TypeOK, Made, memory, history
<1>7. Requests' /\ EndedClosed' /\ SignIns' /\ OneSessionPerLogin' /\ WithinCapacity'
  BY <1>1, <1>2, <1>3, UseGoesOn DEF memory, history
<1>8. Holding' /\ Issues'
  <2>1. \A g \in Handlers :
          Calls(g)' \/ At(g, "callback", "profile")' \/ At(g, "logout", "revoke")' =>
            g # h /\ handler'[g] = handler[g]
    BY <1>3, <1>5 DEF Calls, At
  <2>2. UNCHANGED <<session, issued>> /\ Made' = Made
    BY <1>1 DEF memory, Made
  <2> QED
    BY <2>1, <2>2 DEF Sound, Holding, Issues, Calls, At
<1>9. SigningOut'
  <2>1. \A g \in Handlers : SignsOut(g)' => SignsOut(g) /\ handler'[g].session = handler[g].session
    BY <1>1, <1>2, <1>3, <1>5 DEF SignsOut, At
  <2>2. session' = session
    BY <1>1 DEF memory
  <2> QED
    BY <2>1, <2>2 DEF Sound, SigningOut
<1>10. TokensAccounted'
  <2>1. UNCHANGED <<session, ended>> /\ Made' = Made
    BY <1>1 DEF memory, history, Made
  <2>2. \A g \in Handlers : g # h => /\ At(g, "callback", "profile")' <=> At(g, "callback", "profile")
                                     /\ At(g, "logout", "revoke")' <=> At(g, "logout", "revoke")
                                     /\ handler'[g] = handler[g]
    BY <1>5 DEF At
  <2> QED
    BY <1>2, <1>4, <2>1, <2>2 DEF Sound, TokensAccounted
<1> QED
  BY <1>6, <1>7, <1>8, <1>9, <1>10 DEF Sound

\* The session that leaves the table is closed and holds no token.
LEMMA DeleteStep ==
  ASSUME Sound, NEW h \in Handlers, Delete(h)
  PROVE  Sound'
<1> DEFINE s == handler[h].session
<1>1. /\ At(h, "logout", "delete") /\ SignsOut(h) /\ Uses(h) /\ ~SignsIn(h)
      /\ UNCHANGED <<login, session, made, provider, strayed>>
      /\ handler' = [handler EXCEPT ![h] = Idle]
      /\ table' = table \ {s} /\ ended' = ended \cup {s}
  BY DEF Delete, Ends, Goes, At, SignsOut, Uses, SignsIn
<1>2. /\ s \in Made /\ s \in Reachable /\ s = handler[h].session
      /\ session[s].closed /\ session[s].refresh = 0
  BY <1>1, Reached DEF Sound, SigningOut
<1> HIDE DEF s
<1>3. \A g \in Handlers : (handler'[g] = handler[g] /\ g # h) \/ (g = h /\ handler'[g] = Idle)
  BY <1>1 DEF Sound, TypeOK
<1>4. TypeOK'
  BY <1>1, <1>2 DEF Sound, TypeOK, Made, provider
<1>5. Requests' /\ EndedClosed' /\ SignIns' /\ OneSessionPerLogin' /\ WithinCapacity'
  BY <1>1, <1>2, UseGoesOn
<1>6. Holding' /\ SigningOut' /\ Issues'
  <2>1. \A g \in Handlers :
          /\ Calls(g)' => Calls(g) /\ handler'[g] = handler[g]
          /\ SignsOut(g)' => SignsOut(g) /\ handler'[g] = handler[g]
          /\ At(g, "callback", "profile")' \/ At(g, "logout", "revoke")' =>
               /\ At(g, "callback", "profile") \/ At(g, "logout", "revoke")
               /\ handler'[g] = handler[g]
    BY <1>3 DEF Calls, SignsOut, At
  <2>2. UNCHANGED <<session, issued>> /\ Made' = Made
    BY <1>1 DEF provider, Made
  <2>3. Holding'
    BY <2>1, <2>2, SamePages DEF Sound
  <2>4. SigningOut'
    BY <2>1, <2>2, SameSignOuts DEF Sound
  <2>5. Issues'
    BY <2>1, <2>2 DEF Sound, Issues
  <2> QED
    BY <2>3, <2>4, <2>5
<1>7. TokensAccounted'
  <2>1. \A g \in Handlers : At(g, "callback", "profile") \/ At(g, "logout", "revoke") =>
          /\ At(g, "callback", "profile")' \/ At(g, "logout", "revoke")'
          /\ handler'[g] = handler[g]
    BY <1>1, <1>3 DEF At
  <2>2. \A t \in alive \ abandoned : t # 0
    BY TokenTypes DEF Sound
  <2>3. UNCHANGED <<session, alive, abandoned>> /\ Made' = Made
    BY <1>1 DEF provider, Made
  <2> QED
    BY <1>1, <1>2, <2>1, <2>2, <2>3 DEF Sound, TokensAccounted
<1> QED
  BY <1>4, <1>5, <1>6, <1>7 DEF Sound

LEMMA AccessExpiresStep ==
  ASSUME Sound, NEW s \in Reachable, AccessExpires(s)
  PROVE  Sound'
<1>1. /\ UNCHANGED <<login, table, made, handler, provider, history>>
      /\ session' = [session EXCEPT ![s].stale = TRUE]
      /\ s \in Made /\ session[s] \in Session
  BY DEF AccessExpires, Reachable, Sound, TypeOK
<1>2. /\ session' \in [Made -> Session]
      /\ \A t \in Made : /\ session'[t].login = session[t].login
                         /\ session'[t].refresh = session[t].refresh
                         /\ session'[t].closed = session[t].closed
  <2>1. [session[s] EXCEPT !.stale = TRUE] \in Session
    BY <1>1 DEF Session
  <2>2. /\ session' = [session EXCEPT ![s] = [session[s] EXCEPT !.stale = TRUE]]
        /\ session'[s] = [session[s] EXCEPT !.stale = TRUE]
    BY <1>1 DEF Sound, TypeOK
  <2> QED
    BY <1>1, <2>1, <2>2 DEF Sound, TypeOK, Session
<1>3. TypeOK'
  BY <1>1, <1>2 DEF Sound, TypeOK, Made, provider, history
<1>4. \A g \in Handlers : Calls(g) \/ SignsOut(g) => handler[g].session \in Made
  BY DEF Sound, Requests, Calls, SignsOut, Uses, At
<1>5. Requests' /\ SignIns' /\ OneSessionPerLogin' /\ WithinCapacity'
  <2>1. SignIns' /\ OneSessionPerLogin'
    BY <1>1, <1>2, SameSignIns DEF Sound, SignsIn
  <2> QED
    BY <1>1, <2>1 DEF Sound, Requests, Uses, Made, WithinCapacity, UnderWay
<1>6. Holding' /\ SigningOut'
  <2>1. \A g \in Handlers : (Calls(g)' <=> Calls(g)) /\ (SignsOut(g)' <=> SignsOut(g))
    BY <1>1 DEF Calls, SignsOut, At
  <2> QED
    BY <1>1, <1>2, <1>4, <2>1, SamePages, SameSignOuts DEF Sound
<1>7. EndedClosed'
  BY <1>1, <1>2 DEF Sound, EndedClosed, Reachable, Made, TypeOK, history
<1>8. TokensAccounted' /\ Issues'
  <2>1. UNCHANGED <<issued, alive, abandoned, ended, handler>> /\ Made' = Made
    BY <1>1 DEF provider, history, Made
  <2> QED
    BY <1>2, <2>1 DEF Sound, TokensAccounted, Issues, At
<1> QED
  BY <1>3, <1>5, <1>6, <1>7, <1>8 DEF Sound

\* Whatever was in memory is gone, and so is every token left behind.
LEMMA RestartStep ==
  ASSUME Sound, Restart
  PROVE  Sound'
<1>1. /\ login' = [l \in Logins |-> IF login[l] = "none" THEN "none" ELSE "over"]
      /\ table' = {} /\ handler' = [h \in Handlers |-> Idle]
      /\ abandoned' = abandoned \cup alive /\ ended' = Made
      /\ UNCHANGED <<session, made, issued, alive, strayed>>
      /\ Made' = Made
  BY DEF Restart, Made
<1>2. TypeOK'
  BY <1>1 DEF Sound, TypeOK
<1>3. \A g \in Handlers : ~Uses(g)' /\ ~Calls(g)' /\ ~SignsOut(g)' /\ ~SignsIn(g)'
                          /\ ~At(g, "callback", "profile")' /\ ~At(g, "logout", "revoke")'
  BY <1>1 DEF Uses, Calls, SignsOut, SignsIn, At
<1>4. Requests' /\ Holding' /\ SigningOut'
  BY <1>3 DEF Requests, Holding, SigningOut
<1>5. EndedClosed'
  BY <1>1 DEF EndedClosed, Reachable
<1>6. TokensAccounted' /\ Issues'
  BY <1>1, <1>3 DEF Sound, TokensAccounted, Issues
<1>7. SignIns' /\ OneSessionPerLogin'
  BY <1>1, <1>3, SameSignIns DEF Sound, TypeOK
<1>8. WithinCapacity'
  <2>1. table' \subseteq table /\ UnderWay' \subseteq UnderWay
    BY <1>1 DEF UnderWay
  <2> QED
    BY <2>1, Smaller DEF Sound
<1> QED
  BY <1>2, <1>4, <1>5, <1>6, <1>7, <1>8 DEF Sound

-----------------------------------------------------------------------------
(* The theorems.                                                           *)

LEMMA InitSound == Init => Sound
<1> SUFFICES ASSUME Init PROVE Sound
  OBVIOUS
<1>1. made = 0 /\ Made = {}
  BY DEF Init, Made
<1>2. session \in [Made -> Session]
  BY <1>1 DEF Init
<1>3. TypeOK
  BY <1>1, <1>2, SessionsAssumption DEF Init, TypeOK
<1>4. \A h \in Handlers : handler[h] = Idle
  BY DEF Init
<1>5. Requests /\ Issues /\ Holding /\ SigningOut /\ EndedClosed /\ TokensAccounted
      /\ SignIns /\ OneSessionPerLogin
  BY <1>1, <1>4 DEF Init, Requests, Uses, Issues, Holding, Calls, SigningOut, SignsOut, At,
                    EndedClosed, Reachable, TokensAccounted, SignIns, SignsIn, OneSessionPerLogin
<1>6. WithinCapacity
  <2>1. UnderWay = {} /\ table = {}
    BY DEF Init, UnderWay
  <2> QED
    BY <2>1, FS_EmptySet, SessionsAssumption DEF WithinCapacity
<1> QED
  BY <1>3, <1>5, <1>6 DEF Sound

LEMMA NextSound == Sound /\ [Next]_vars => Sound'
<1> SUFFICES ASSUME Sound, [Next]_vars PROVE Sound'
  OBVIOUS
<1>1. ASSUME NEW l \in Logins, Login(l) PROVE Sound'
  BY <1>1, LoginStep
<1>2. ASSUME NEW h \in Handlers, NEW l \in Logins, NEW good \in BOOLEAN,
             NEW cookie \in {0} \cup Made, Callback(h, l, good, cookie)
      PROVE  Sound'
  BY <1>2, CallbackStep
<1>3. ASSUME NEW h \in Handlers,
             Exchanged(h) \/ ExchangeFails(h) \/ SignedIn(h) \/ SignInFails(h)
      PROVE  Sound'
  BY <1>3, ExchangedStep, ExchangeFailsStep, SignedInStep, SignInFailsStep
<1>4. ASSUME NEW h \in Handlers, NEW s \in Made, NEW kind \in {"page", "logout"},
             Lookup(h, s, kind)
      PROVE  Sound'
  BY <1>4, LookupStep
<1>5. ASSUME NEW h \in Handlers, Check(h) \/ Refresh(h) \/ RefreshFails(h) \/ Answer(h)
      PROVE  Sound'
  BY <1>5, CheckStep, RefreshStep, RefreshFailsStep, AnswerStep
<1>6. ASSUME NEW h \in Handlers, Close(h) \/ Revoke(h) \/ Delete(h) PROVE Sound'
  BY <1>6, CloseStep, RevokeStep, DeleteStep
<1>7. ASSUME NEW s \in Reachable, AccessExpires(s) PROVE Sound'
  BY <1>7, AccessExpiresStep
<1>8. CASE Restart
  BY <1>8, RestartStep
<1>9. CASE UNCHANGED vars
  BY <1>9 DEF vars, memory, provider, history, Sound, TypeOK, Made, Requests, Uses, Issues,
              Holding, Calls, SigningOut, SignsOut, At, EndedClosed, Reachable, TokensAccounted,
              SignIns, SignsIn, OneSessionPerLogin, WithinCapacity, UnderWay
<1> QED
  BY <1>1, <1>2, <1>3, <1>4, <1>5, <1>6, <1>7, <1>8, <1>9 DEF Next

\* The invariant holds in every reachable state.
THEOREM AlwaysSound == Spec => []Sound
  BY InitSound, NextSound, PTL DEF Spec

\* Every variable of the sessions has its type: no request uses a session
\* that was not made, or a token that was not issued.
THEOREM SessionTypes == Spec => []TypeOK
<1>1. Sound => TypeOK
  BY DEF Sound
<1> QED
  BY <1>1, AlwaysSound, PTL

\* However many callbacks end at a time, finishCallback counts the sessions
\* under the lock that adds one, and so neither table outgrows its bound.
THEOREM BoundsKept == Spec => []WithinCapacity
<1>1. Sound => WithinCapacity
  BY DEF Sound
<1> QED
  BY <1>1, AlwaysSound, PTL

\* A callback takes its sign-in out of the table under the lock that finds
\* it, and so a sign-in makes at most one session.
THEOREM OneEach == Spec => []OneSessionPerLogin
<1>1. Sound => OneSessionPerLogin
  BY DEF Sound
<1> QED
  BY <1>1, AlwaysSound, PTL

\* A refresh holds the session's mutex to its end and a sign-out waits for
\* it, and so every token the provider accepts is where somebody will use or
\* revoke it, unless an error path dropped it.
THEOREM TokensOwned == Spec => []TokensAccounted
<1>1. Sound => TokensAccounted
  BY DEF Sound
<1> QED
  BY <1>1, AlwaysSound, PTL

\* Authenticate checks "closed" again once it has the session's mutex, and
\* so nobody calls with a session that is over.
THEOREM EndedMeansEnded == Spec => []EndedStaysEnded
<1>1. ASSUME Sound, NEW h \in Handlers, Calls(h)
      PROVE  handler[h].session \notin ended \cup strayed
  <2>1. Uses(h)
    BY <1>1 DEF Calls, Uses, At
  <2>2. handler[h].session \in Reachable /\ ~session[handler[h].session].closed
    BY <1>1, <2>1, Reached DEF Sound, Holding
  <2> QED
    BY <1>1, <2>2 DEF Sound, EndedClosed
<1>2. Sound => EndedStaysEnded
  BY <1>1 DEF EndedStaysEnded, Calls
<1> QED
  BY <1>2, AlwaysSound, PTL
=============================================================================
