--------------------------- MODULE AccountSessions ---------------------------
(***************************************************************************)
(* Browser sign-in (accountauth/session.go): the sign-ins under way and    *)
(* the sessions that the process keeps in memory, and the requests that    *)
(* use them.                                                               *)
(*                                                                         *)
(* The Service's mutex guards the two tables and is never held across a    *)
(* call; the mutex of a session is held by a request from its check of the *)
(* session to its answer, across the calls of the identity provider and of *)
(* the account API, which may fail or lose their answer.  A request looks  *)
(* its session up first and takes the session's mutex afterwards, so that  *)
(* much may have happened to the session in between.                       *)
(*                                                                         *)
(* A refresh token is numbered in the order of issue, 0 is none.  Access   *)
(* tokens, cookies, CSRF tokens and verifiers are known by what is checked *)
(* of them.  The ends of sign-ins and of sessions (five minutes, eight     *)
(* hours) only matter when a request looks, which then may find them past. *)
(*                                                                         *)
(* An operator X_Faulty... is X with a plausible mistake, never part of    *)
(* the specification.                                                      *)
(***************************************************************************)
EXTENDS Naturals, FiniteSets

CONSTANTS
  Logins,      \* sign-ins that browsers begin
  Handlers,    \* HTTP requests that can be under way at a time
  Idle,        \* no request
  Capacity,    \* the most sign-ins, and the most sessions, in memory
  MaxSessions, \* bound on the sessions ever made
  MaxTokens    \* bound on the refresh tokens ever issued

ASSUME SessionsAssumption ==
  /\ IsFiniteSet(Logins)
  /\ Capacity \in Nat \ {0}
  /\ MaxSessions \in Nat
  /\ MaxTokens \in Nat

VARIABLES
  login,     \* Service.transactions, and the sign-ins before and after it
  table,     \* Service.sessions: the sessions that a cookie reaches
  session,   \* session[s]: the object, in the table or only in a request's hands
  made,      \* sessions made so far
  handler,   \* handler[h]: where request h is
  issued,    \* refresh tokens the provider has issued
  alive,     \* those it would accept
  abandoned, \* those that an error path left behind
  ended,     \* sessions whose user was told, or could see, that they are over
  strayed    \* sessions for which the account API named another subject

memory == <<login, table, session, made>>
provider == <<issued, alive, abandoned>>
history == <<ended, strayed>>
vars == <<memory, handler, provider, history>>

Sessions == 1..MaxSessions
Tokens == 1..MaxTokens
Session == [login : Logins, refresh : 0..MaxTokens,
            stale : BOOLEAN, closed : BOOLEAN]
Request ==
  [kind : {"callback"}, at : {"exchange"}, login : Logins, cookie : 0..MaxSessions]
  \cup [kind : {"callback"}, at : {"profile"}, login : Logins,
        cookie : 0..MaxSessions, token : 0..MaxTokens]
  \cup [kind : {"page"}, at : {"wait", "profile"}, session : Sessions]
  \cup [kind : {"page"}, at : {"exchange"}, session : Sessions, token : Tokens]
  \cup [kind : {"logout"}, at : {"wait", "delete"}, session : Sessions]
  \cup [kind : {"logout"}, at : {"revoke"}, session : Sessions, token : Tokens]

ASSUME IdleAssumption == Idle \notin Request

Made == 1..made

\* Every variable has its type: a token was issued before it is held, and a
\* session of the table or of a request was made before.
TypeOK ==
  /\ login \in [Logins -> {"none", "open", "over"}]
  /\ made \in 0..MaxSessions
  /\ table \subseteq Made
  /\ session \in [Made -> Session]
  /\ handler \in [Handlers -> Request \cup {Idle}]
  /\ issued \in 0..MaxTokens
  /\ alive \subseteq 1..issued /\ abandoned \subseteq 1..issued
  /\ ended \subseteq Made /\ strayed \subseteq Made

Init ==
  /\ login = [l \in Logins |-> "none"]
  /\ table = {} /\ session = <<>> /\ made = 0
  /\ handler = [h \in Handlers |-> Idle]
  /\ issued = 0 /\ alive = {} /\ abandoned = {}
  /\ ended = {} /\ strayed = {}

-----------------------------------------------------------------------------
(* The tables, under the Service's mutex.                                  *)

UnderWay == {l \in Logins : login[l] = "open"}

\* pruneLocked: some sign-ins have reached their ends, and leave; so do the
\* sessions "past" wherever the code prunes.
Without(late) == [l \in Logins |-> IF l \in late THEN "over" ELSE login[l]]

FullTable(sessions) == Cardinality(sessions) >= Capacity

At(h, kind, at) == handler[h] # Idle /\ handler[h].kind = kind /\ handler[h].at = at
Goes(h, r) == handler' = [handler EXCEPT ![h] = r]
Ends(h) == Goes(h, Idle)

\* GET /auth/login.
Login(l) ==
  /\ login[l] = "none"
  /\ \E late \in SUBSET UnderWay, past \in SUBSET table :
       /\ table' = table \ past
       /\ login' = IF FullTable(UnderWay \ late) \/ FullTable(table \ past)
                   THEN Without(late)
                   ELSE [Without(late) EXCEPT ![l] = "open"]
  /\ UNCHANGED <<session, made, handler, provider, history>>

Consumed_FaultyLater(l) == login
Consumed(l) == [login EXCEPT ![l] = "over"]

\* GET /auth/callback begins: whatever comes of it, it uses the sign-in up.
\* "good" is a sign-in of the last five minutes, a matching state, a code and
\* no error; the browser may also send the cookie of a session it had.
Callback(h, l, good, cookie) ==
  /\ handler[h] = Idle
  /\ login[l] = "open"
  /\ login' = Consumed(l)
  /\ IF good
     THEN Goes(h, [kind |-> "callback", at |-> "exchange", login |-> l, cookie |-> cookie])
     ELSE UNCHANGED handler
  /\ UNCHANGED <<table, session, made, provider, history>>

-----------------------------------------------------------------------------
(* The identity provider.                                                  *)

Issue(dead) ==
  /\ issued < MaxTokens
  /\ issued' = issued + 1
  /\ alive' = (alive \ dead) \cup {issued'}

\* The provider issues a token, and its answer is lost.
IssuedInVain(dead) == Issue(dead) /\ abandoned' = abandoned \cup {issued'}

\* A callback exchanges its code for tokens, of which a refresh token may
\* not be one.
Exchanged(h) ==
  /\ At(h, "callback", "exchange")
  /\ \E token \in {0, issued + 1} :
       /\ IF token = 0 THEN UNCHANGED <<issued, alive>> ELSE Issue({})
       /\ Goes(h, [kind |-> "callback", at |-> "profile", login |-> handler[h].login,
                   cookie |-> handler[h].cookie, token |-> token])
  /\ UNCHANGED <<memory, abandoned, history>>

ExchangeFails(h) ==
  /\ At(h, "callback", "exchange")
  /\ IssuedInVain({}) \/ UNCHANGED provider
  /\ Ends(h)
  /\ UNCHANGED <<memory, history>>

\* A token that no session will hold.
Abandon(token) == abandoned' = abandoned \cup ({token} \ {0})

\* Whether there is room for another session once the "past" ones have left.
Room_FaultyChecked(past) == TRUE
Room(past) == ~FullTable(table \ past)

\* The account API names a subject, and the callback makes the session:
\* in a table that may have filled up since the sign-in began, and in place
\* of the session whose cookie the browser sent.
SignedIn(h) ==
  /\ At(h, "callback", "profile")
  /\ Ends(h)
  /\ \E late \in SUBSET UnderWay, past \in SUBSET table :
       /\ login' = Without(late)
       /\ \/ /\ ~Room(past)
             /\ table' = table \ past
             /\ Abandon(handler[h].token)
             /\ UNCHANGED <<session, made>>
          \/ /\ Room(past)
             /\ made < MaxSessions
             /\ made' = made + 1
             /\ table' = (table \ (past \cup {handler[h].cookie})) \cup {made'}
             /\ session' = [s \in 1..made' |->
                  IF s = made'
                  THEN [login |-> handler[h].login, refresh |-> handler[h].token,
                        stale |-> FALSE, closed |-> FALSE]
                  ELSE session[s]]
             /\ UNCHANGED abandoned
  /\ UNCHANGED <<issued, alive, history>>

SignInFails(h) ==
  /\ At(h, "callback", "profile")
  /\ Ends(h)
  /\ Abandon(handler[h].token)
  /\ UNCHANGED <<memory, issued, alive, history>>

-----------------------------------------------------------------------------
(* A request that needs a principal: Authenticate.                         *)

\* lookup, for a page or for POST /auth/logout: a session that has reached
\* its end leaves.
Lookup(h, s, kind) ==
  /\ handler[h] = Idle
  /\ s \in table
  /\ \/ table' = table \ {s} /\ UNCHANGED handler
     \/ Goes(h, [kind |-> kind, at |-> "wait", session |-> s]) /\ UNCHANGED table
  /\ UNCHANGED <<login, session, made, provider, history>>

\* The session's mutex: a page holds it while it calls.
Locked(s) ==
  \E h \in Handlers : (At(h, "page", "exchange") \/ At(h, "page", "profile"))
                      /\ handler[h].session = s
Obtains_FaultyUnlocked(h, kind) == At(h, kind, "wait")
Obtains(h, kind) == At(h, kind, "wait") /\ ~Locked(handler[h].session)

AsksProfile(h) ==
  Goes(h, [kind |-> "page", at |-> "profile", session |-> handler[h].session])

Open_FaultyUnchecked(s) == TRUE
Open(s) == ~session[s].closed

\* The page has the mutex: it checks the session, and its own CSRF token
\* when it is a mutation, and calls.
Check(h) ==
  /\ Obtains(h, "page")
  /\ LET s == handler[h].session
         ss == session[s]
     IN \/ Ends(h)           \* closed, the wrong CSRF token, or nothing to refresh
        \/ Open(s) /\ ~ss.stale /\ AsksProfile(h)
        \/ /\ Open(s) /\ ss.stale /\ ss.refresh # 0
           /\ Goes(h, [kind |-> "page", at |-> "exchange", session |-> s,
                       token |-> ss.refresh])
  /\ UNCHANGED <<memory, provider, history>>

\* The provider refreshes the access token, and may rotate the refresh token.
Refresh(h) ==
  /\ At(h, "page", "exchange")
  /\ LET s == handler[h].session
         old == handler[h].token
     IN /\ old \in alive
        /\ \E token \in {old, issued + 1} :
             /\ IF token = old THEN UNCHANGED <<issued, alive>> ELSE Issue({old})
             /\ session' = [session EXCEPT ![s].refresh = token, ![s].stale = FALSE]
  /\ AsksProfile(h)
  /\ UNCHANGED <<login, table, made, abandoned, history>>

RefreshFails(h) ==
  /\ At(h, "page", "exchange")
  /\ \/ handler[h].token \in alive /\ IssuedInVain({handler[h].token})
     \/ UNCHANGED provider
  /\ Ends(h)
  /\ UNCHANGED <<memory, history>>

\* The account API names the subject of the access token, or fails, and the
\* page is answered or refused; another subject than the one that signed in
\* closes the session.
Answer(h) ==
  /\ At(h, "page", "profile")
  /\ Ends(h)
  /\ LET s == handler[h].session
     IN \/ UNCHANGED <<session, strayed>>
        \/ session' = [session EXCEPT ![s].closed = TRUE] /\ strayed' = strayed \cup {s}
  /\ UNCHANGED <<login, table, made, provider, ended>>

-----------------------------------------------------------------------------
(* POST /auth/logout.                                                      *)

Revocation(s, token) ==
  IF token = 0 THEN [kind |-> "logout", at |-> "delete", session |-> s]
  ELSE [kind |-> "logout", at |-> "revoke", session |-> s, token |-> token]

\* It has the session's mutex, once no page is calling with it.
Close(h) ==
  /\ Obtains(h, "logout")
  /\ LET s == handler[h].session
         token == session[s].refresh
     IN \/ Ends(h) /\ UNCHANGED session          \* the wrong CSRF token
        \/ /\ session' = [session EXCEPT ![s].closed = TRUE, ![s].refresh = 0]
           /\ Goes(h, Revocation(s, token))
  /\ UNCHANGED <<login, table, made, provider, history>>

\* The revocation is asked for once; the provider may not hear of it.
Revoke(h) ==
  /\ At(h, "logout", "revoke")
  /\ \/ alive' = alive \ {handler[h].token} /\ UNCHANGED abandoned
     \/ Abandon(handler[h].token) /\ UNCHANGED alive
  /\ Goes(h, [kind |-> "logout", at |-> "delete", session |-> handler[h].session])
  /\ UNCHANGED <<memory, issued, history>>

Delete(h) ==
  /\ At(h, "logout", "delete")
  /\ table' = table \ {handler[h].session}
  /\ ended' = ended \cup {handler[h].session}
  /\ Ends(h)
  /\ UNCHANGED <<login, session, made, provider, strayed>>

-----------------------------------------------------------------------------
(* The clock, and the process.                                             *)

\* The sessions that a cookie or a request still reaches.
Reachable ==
  table \cup {s \in Made : \E h \in Handlers : handler[h] # Idle
                          /\ handler[h].kind # "callback" /\ handler[h].session = s}

\* An access token comes within 30 seconds of its end.
AccessExpires(s) ==
  /\ ~session[s].stale
  /\ session' = [session EXCEPT ![s].stale = TRUE]
  /\ UNCHANGED <<login, table, made, handler, provider, history>>

\* The process restarts: nothing of this is on disk.
Restart ==
  /\ login' = [l \in Logins |-> IF login[l] = "none" THEN "none" ELSE "over"]
  /\ table' = {}
  /\ handler' = [h \in Handlers |-> Idle]
  /\ abandoned' = abandoned \cup alive
  /\ ended' = Made
  /\ UNCHANGED <<session, made, issued, alive, strayed>>

Next ==
  \/ \E l \in Logins : Login(l)
  \/ \E h \in Handlers :
       \/ \E l \in Logins, good \in BOOLEAN, cookie \in {0} \cup Made :
            Callback(h, l, good, cookie)
       \/ Exchanged(h) \/ ExchangeFails(h) \/ SignedIn(h) \/ SignInFails(h)
       \/ \E s \in Made, kind \in {"page", "logout"} : Lookup(h, s, kind)
       \/ Check(h) \/ Refresh(h) \/ RefreshFails(h) \/ Answer(h)
       \/ Close(h) \/ Revoke(h) \/ Delete(h)
  \/ \E s \in Reachable : AccessExpires(s)
  \/ Restart

Spec == Init /\ [][Next]_vars

-----------------------------------------------------------------------------
(* Properties.                                                             *)

\* Neither table outgrows its bound, however many callbacks, which checked
\* no bound when they began, end at a time.
WithinCapacity ==
  Cardinality(table) <= Capacity /\ Cardinality(UnderWay) <= Capacity

\* A sign-in makes at most one session, however often and however
\* concurrently its callback arrives.
OneSessionPerLogin ==
  \A s, t \in Made : session[s].login = session[t].login => s = t

\* A refresh token that the provider would accept is in a session that no
\* sign-out has ended, in the hands of a callback or of the sign-out that is
\* to revoke it, or an error path left it behind: a sign-out takes the
\* newest token, and a refresh under way brings none back.
TokensAccounted ==
  \A t \in alive \ abandoned :
    \/ \E s \in Made \ ended : session[s].refresh = t
    \/ \E h \in Handlers : (At(h, "callback", "profile") \/ At(h, "logout", "revoke"))
                           /\ handler[h].token = t

\* No page calls with a session, and so none is answered for a session, that
\* was signed out, or belongs to an earlier process, or for which the account
\* API once named another subject: not even a page that found the session
\* while it was good.
EndedStaysEnded ==
  \A h \in Handlers : At(h, "page", "exchange") \/ At(h, "page", "profile") =>
    handler[h].session \notin ended \cup strayed
=============================================================================
