--------------------------- MODULE WorkerRegistry ---------------------------
(***************************************************************************)
(* The registry of customer workers (control/workers.go), the routes that  *)
(* lead to it (control/worker_api.go) and the worker's half of enrollment  *)
(* and of its sessions (worker/worker.go).                                 *)
(*                                                                         *)
(* The registry's mutex makes every call of it one step; a request that    *)
(* makes several calls takes several steps.  A change is made in memory    *)
(* first and then saved by replacing workers.json: the replacement happens *)
(* or not, and the call that made it may fail, or the process be killed,   *)
(* in either case.  A client whose data directory is c generates the key   *)
(* c.  Tokens, challenges and sessions are random: a new one differs from  *)
(* those still in use.  Names, owners and the content of manifests are     *)
(* left out.                                                               *)
(***************************************************************************)
EXTENDS Naturals, FiniteSets

CONSTANTS
  Clients,    \* the data directories of worker processes
  MaxEntries, \* the bound on registrations, and on outstanding challenges
  MaxActive,  \* the bound on an owner's registrations that are not revoked
  NoClient, Nonces,
  MaxFaults   \* bound on failed saves, kills, requests given up and expired
              \* challenges and sessions together

ASSUME RegistryAssumption ==
  /\ MaxEntries \in Nat \ {0}
  /\ MaxActive \in Nat
  /\ NoClient \notin Clients
  /\ 0 \notin Nonces
  /\ MaxFaults \in Nat

Ids == 1..MaxEntries

VARIABLES
  \* the control plane
  up,         \* its process runs
  entries,    \* Workers.entries
  file,       \* workers.json
  poison,     \* Workers.poison is set
  challenges, \* Workers.challenges
  sessions,   \* Workers.sessions
  \* the workers
  client,     \* client[c]: identity.json, and where the process of c stands
  \* between and around them
  link,       \* requests and their answers
  window,     \* registrations whose EnrollmentUntil has not passed
  issued,     \* registrations whose token the operator got to see
  revokedTold, \* registrations that the operator was told are revoked
  faults

memory == <<up, poison, challenges, sessions>>
told == <<window, issued, revokedTold>>
vars == <<memory, entries, file, client, link, told, faults>>

Entry == [known : BOOLEAN, open : BOOLEAN, key : Clients \cup {NoClient},
          revoked : BOOLEAN, manifest : BOOLEAN]
Unknown == [known |-> FALSE, open |-> FALSE, key |-> NoClient,
            revoked |-> FALSE, manifest |-> FALSE]
Empty == [i \in Ids |-> Unknown]

\* A client has one request under way, and may have given one up that the
\* control plane still works on.
Slots == Clients \X {"live", "late"}
Requests == {"enroll", "challenge", "session", "manifest", "claim"}
\* A request between two calls of the registry.
Stages == {"publish", "touch", "poll", "granting"}
Answers == {"ok", "refused", "unauthorized", "unavailable"}
Message == [kind : Requests \cup Stages \cup Answers \cup {"none"},
            id : Ids \cup {0}, nonce : Nonces \cup {0}]
Quiet == [kind |-> "none", id |-> 0, nonce |-> 0]
Ticket == [id : Ids, nonce : Nonces]

\* A table that has at most one entry for a worker.
OneEach(table) ==
  table \subseteq Ticket /\ \A t, u \in table : t.id = u.id => t = u

Off == {"off"}
Running == {"idle", "challenging", "proving", "publishing", "claiming"}
Client == [ident : Ids \cup {0}, enrolled : BOOLEAN, token : Nonces \cup {0},
           published : BOOLEAN, pc : Off \cup {"enrolling"} \cup Running]

TypeOK ==
  /\ up \in BOOLEAN /\ poison \in BOOLEAN
  /\ entries \in [Ids -> Entry] /\ file \in [Ids -> Entry]
  /\ OneEach(challenges) /\ OneEach(sessions)
  /\ client \in [Clients -> Client]
  /\ link \in [Slots -> Message]
  /\ window \subseteq Ids /\ issued \subseteq Ids /\ revokedTold \subseteq Ids
  /\ faults \in 0..MaxFaults

Init ==
  /\ up = TRUE /\ poison = FALSE
  /\ entries = Empty /\ file = Empty
  /\ challenges = {} /\ sessions = {}
  /\ client = [c \in Clients |-> [ident |-> 0, enrolled |-> FALSE, token |-> 0,
                                  published |-> FALSE, pc |-> "off"]]
  /\ link = [s \in Slots |-> Quiet]
  /\ window = Ids /\ issued = {} /\ revokedTold = {}
  /\ faults = 0

Fault == faults < MaxFaults /\ faults' = faults + 1

InUse == {t.nonce : t \in challenges \cup sessions}
         \cup {client[c].token : c \in Clients} \cup {link[s].nonce : s \in Slots}
Unused == Nonces \ InUse
Fresh == CHOOSE n \in Unused : TRUE

-----------------------------------------------------------------------------
(* Saving, and the end of the control plane's process.                     *)

\* Nobody hears the answer to a request that was given up.
Reply(s, m) ==
  link' = [link EXCEPT ![s] = IF s[2] = "late" /\ m.kind \in Answers
                              THEN Quiet ELSE m]
Answer(m, kind) == [m EXCEPT !.kind = kind, !.nonce = 0]

\* What is left of a request whose connection broke.
Broken(s) ==
  IF s[2] = "live" /\ link[s].kind \in Requests \cup Stages
  THEN Answer(link[s], "unavailable")
  ELSE IF s[2] = "live" THEN link[s] ELSE Quiet

Down ==
  /\ up' = FALSE /\ poison' = FALSE
  /\ entries' = Empty
  /\ challenges' = {} /\ sessions' = {}
  /\ link' = [s \in Slots |-> Broken(s)]

Saved(new) ==
  /\ ~poison
  /\ entries' = new /\ file' = new
  /\ UNCHANGED <<memory, faults>>

\* A save that fails leaves its change in memory, and the file old or new.
SaveFails_FaultyOpen(new) ==
  /\ entries' = new
  /\ UNCHANGED <<up, challenges, sessions, poison>>
  /\ \/ poison /\ UNCHANGED <<file, faults>>
     \/ ~poison /\ Fault /\ file' \in {file, new}
SaveFails(new) ==
  /\ entries' = new
  /\ UNCHANGED <<up, challenges, sessions>>
  /\ \/ poison /\ UNCHANGED <<file, poison, faults>>
     \/ ~poison /\ Fault /\ file' \in {file, new} /\ poison' = TRUE

\* The process is killed between the replacement and the answer.
SaveKilled(new) == ~poison /\ Fault /\ file' = new /\ Down

\* Request s saves new and, if that succeeds, goes on as m.
Save(s, new, m) ==
  \/ Saved(new) /\ Reply(s, m)
  \/ SaveFails(new) /\ Reply(s, Answer(link[s], "unavailable"))
  \/ SaveKilled(new)

Kill ==
  /\ up
  /\ Fault
  /\ Down
  /\ UNCHANGED <<file, client, told>>

\* A poisoned registry answers nothing until its process is started again.
OperatorStops ==
  /\ up /\ poison
  /\ Down
  /\ UNCHANGED <<file, client, told, faults>>

OpenWorkers ==
  /\ ~up
  /\ up' = TRUE
  /\ entries' = file
  /\ UNCHANGED <<poison, challenges, sessions, file, client, link, told, faults>>

-----------------------------------------------------------------------------
(* The operator's requests.                                                *)

Known(e) == {i \in Ids : e[i].known}
Active(e) == {i \in Known(e) : ~e[i].revoked}

\* The answer carries the only copy of the token, and may be lost.
Create(i) ==
  LET new == [entries EXCEPT ![i] = [Unknown EXCEPT !.known = TRUE, !.open = TRUE]]
  IN  /\ up
      /\ i \notin Known(entries) /\ \A k \in Ids : k < i => k \in Known(entries)
      /\ Cardinality(Active(entries)) < MaxActive
      /\ \/ Saved(new) /\ issued' \in {issued, issued \cup {i}} /\ UNCHANGED link
         \/ SaveFails(new) /\ UNCHANGED <<issued, link>>
         \/ SaveKilled(new) /\ UNCHANGED issued
      /\ UNCHANGED <<client, window, revokedTold>>

Revoke(i) ==
  LET new == [entries EXCEPT ![i] = [@ EXCEPT !.revoked = TRUE, !.open = FALSE]]
  IN  /\ up
      /\ i \in Known(entries)
      /\ \/ Saved(new) /\ revokedTold' = revokedTold \cup {i} /\ UNCHANGED link
         \/ SaveFails(new) /\ UNCHANGED <<revokedTold, link>>
         \/ SaveKilled(new) /\ UNCHANGED revokedTold
      /\ UNCHANGED <<client, window, issued>>

-----------------------------------------------------------------------------
(* The worker protocol.  Each action is one call on behalf of request s.   *)

Refuse(s, kind) ==
  /\ Reply(s, Answer(link[s], kind))
  /\ UNCHANGED <<memory, entries, file, faults>>

\* Enroll answers the key that is bound, and binds one while the token holds.
AlreadyBound_FaultyExpires(i, c) == entries[i].key = c /\ i \in window
AlreadyBound(i, c) == entries[i].key = c
Bindable_FaultyRebinds(i) == i \in window
Bindable(i) == entries[i].key = NoClient /\ entries[i].open /\ i \in window

Enroll(s) ==
  LET i == link[s].id
      e == entries[i]
      ok == Answer(link[s], "ok")
      bound == AlreadyBound(i, s[1])
  IN  /\ up
      /\ link[s].kind = "enroll"
      /\ \/ poison /\ Refuse(s, "unavailable")
         \/ /\ ~poison /\ (~e.known \/ e.revoked \/ ~(bound \/ Bindable(i)))
            /\ Refuse(s, "refused")
         \/ /\ ~poison /\ e.known /\ ~e.revoked /\ bound
            /\ Reply(s, ok)
            /\ UNCHANGED <<memory, entries, file, faults>>
         \/ /\ ~poison /\ e.known /\ ~e.revoked /\ ~bound /\ Bindable(i)
            /\ Save(s, [entries EXCEPT ![i] = [@ EXCEPT !.key = s[1], !.open = FALSE]], ok)
      /\ UNCHANGED <<client, told>>

Outstanding_FaultyKept(i) == challenges
Outstanding(i) == {t \in challenges : t.id # i}

Challenge(s) ==
  LET i == link[s].id
      e == entries[i]
      n == Fresh
  IN  /\ up
      /\ link[s].kind = "challenge" /\ Unused # {}
      /\ \/ poison /\ Refuse(s, "unavailable")
         \/ /\ ~poison /\ (~e.known \/ e.revoked \/ e.key = NoClient)
            /\ Refuse(s, "refused")
         \/ /\ ~poison /\ e.known /\ ~e.revoked /\ e.key # NoClient
            /\ IF Cardinality(Outstanding(i)) >= MaxEntries
               THEN challenges' = Outstanding(i) /\ Reply(s, Answer(link[s], "refused"))
               ELSE /\ challenges' = Outstanding(i) \cup {[id |-> i, nonce |-> n]}
                    /\ Reply(s, [link[s] EXCEPT !.kind = "ok", !.nonce = n])
            /\ UNCHANGED <<up, poison, sessions, entries, file, faults>>
      /\ UNCHANGED <<client, told>>

\* A worker's new session replaces the one it had.
Renewed(i, n) == {t \in sessions : t.id # i} \cup {[id |-> i, nonce |-> n]}

\* The challenge is spent, whether the proof succeeds or not.
Session(s) ==
  LET i == link[s].id
      spent == {t \in challenges : t.nonce = link[s].nonce}
      n == Fresh
      proved == /\ \E t \in spent : t.id = i
                /\ ~entries[i].revoked /\ entries[i].key = s[1]
  IN  /\ up
      /\ link[s].kind = "session" /\ Unused # {}
      /\ \/ poison /\ Refuse(s, "unavailable")
         \/ /\ ~poison
            /\ challenges' = challenges \ spent
            /\ IF proved
               THEN /\ sessions' = Renewed(i, n)
                    /\ Reply(s, [link[s] EXCEPT !.kind = "ok", !.nonce = n])
               ELSE UNCHANGED sessions /\ Reply(s, Answer(link[s], "refused"))
            /\ UNCHANGED <<up, poison, entries, file, faults>>
      /\ UNCHANGED <<client, told>>

\* The workers that Authenticate accepts a session's token for.
Authentic_FaultyRevoked(n) ==
  {i \in Ids : ~poison /\ [id |-> i, nonce |-> n] \in sessions}
Authentic(n) ==
  {i \in Ids : ~poison /\ ~entries[i].revoked /\ [id |-> i, nonce |-> n] \in sessions}

\* A request kind of which the token must be checked goes on as next.
Authenticate(s, kind, next) ==
  /\ up
  /\ link[s].kind = kind
  /\ \/ Authentic(link[s].nonce) = {} /\ Refuse(s, "unauthorized")
     \/ /\ \E i \in Authentic(link[s].nonce) :
             Reply(s, [link[s] EXCEPT !.kind = next, !.id = i])
        /\ UNCHANGED <<memory, entries, file, faults>>
  /\ UNCHANGED <<client, told>>

Admit(s) ==
  \/ Authenticate(s, "manifest", "publish")
  \/ Authenticate(s, "claim", "touch")
  \/ Authenticate(s, "poll", "granting")

\* Publish keeps the manifest; Touch, which only moves LastSeen, saves as well.
Publish(s) ==
  LET i == link[s].id
  IN  /\ up
      /\ link[s].kind = "publish"
      /\ \/ entries[i].revoked /\ Refuse(s, "refused")
         \/ /\ ~entries[i].revoked
            /\ Save(s, [entries EXCEPT ![i].manifest = TRUE], Answer(link[s], "ok"))
      /\ UNCHANGED <<client, told>>

Touch(s) ==
  /\ up
  /\ link[s].kind = "touch"
  /\ \/ entries[link[s].id].revoked /\ Refuse(s, "refused")
     \/ /\ ~entries[link[s].id].revoked
        /\ Save(s, entries, [link[s] EXCEPT !.kind = "poll"])
  /\ UNCHANGED <<client, told>>

\* Store.ClaimWorker, after the registry's lock was released: a job, or
\* nothing when the poll has lasted long enough.
Grant(s) ==
  /\ up
  /\ link[s].kind = "granting"
  /\ Reply(s, Answer(link[s], "ok"))
  /\ UNCHANGED <<memory, entries, file, client, told, faults>>

Serve(s) ==
  \/ Enroll(s) \/ Challenge(s) \/ Session(s) \/ Admit(s)
  \/ Publish(s) \/ Touch(s) \/ Grant(s)

-----------------------------------------------------------------------------
(* The worker's process.                                                   *)

Live(c) == <<c, "live">>
Late(c) == <<c, "late">>
Answered(c) == link[Live(c)].kind \in Answers
Succeeded(c) == link[Live(c)].kind = "ok"

\* The client's next request, which fails when nothing listens.
Ask(c, kind, nonce) ==
  link' = [link EXCEPT ![Live(c)] =
             [kind |-> IF up THEN kind ELSE "unavailable",
              id |-> client'[c].ident, nonce |-> IF up THEN nonce ELSE 0]]
Heard(c) == link' = [link EXCEPT ![Live(c)] = Quiet]

Becomes(c, new) == client' = [client EXCEPT ![c] = new]
Locally == UNCHANGED <<memory, entries, file, told, faults>>

\* The key is in identity.json before the first request, so that a later
\* attempt, which the operator makes until one succeeds, brings the same key.
Kept(c, i) == [client[c] EXCEPT !.ident = i, !.pc = "enrolling"]
BeginEnroll(c) ==
  /\ client[c].pc = "off" /\ ~client[c].enrolled
  /\ \E i \in issued :
       /\ client[c].ident \in {0, i}
       /\ Becomes(c, Kept(c, i))
       /\ Ask(c, "enroll", 0)
  /\ Locally

\* The process ends; the mark is saved when the control plane agreed.
EndEnroll(c) ==
  /\ client[c].pc = "enrolling" /\ Answered(c)
  /\ Becomes(c, [client[c] EXCEPT !.pc = "off", !.enrolled = Succeeded(c)])
  /\ Heard(c)
  /\ Locally

Start(c) ==
  /\ client[c].pc = "off" /\ client[c].enrolled
  /\ Becomes(c, [client[c] EXCEPT !.pc = "idle"])
  /\ UNCHANGED link
  /\ Locally

\* call needs a session: it uses the token it holds, or proves its key.
AskChallenge(c) ==
  /\ client[c].pc = "idle" /\ client[c].token = 0
  /\ Becomes(c, [client[c] EXCEPT !.pc = "challenging"])
  /\ Ask(c, "challenge", 0)
  /\ Locally

AskWork(c) ==
  /\ client[c].pc = "idle" /\ client[c].token # 0
  /\ IF client[c].published
     THEN /\ Becomes(c, [client[c] EXCEPT !.pc = "claiming"])
          /\ Ask(c, "claim", client[c].token)
     ELSE /\ Becomes(c, [client[c] EXCEPT !.pc = "publishing"])
          /\ Ask(c, "manifest", client[c].token)
  /\ Locally

\* After any error the worker publishes again; a 401 makes it drop its token.
Failed_FaultyKeepsToken(c) ==
  [client[c] EXCEPT !.pc = "idle", !.published = FALSE]
Failed(c) ==
  [client[c] EXCEPT !.pc = "idle", !.published = FALSE,
                    !.token = IF link[Live(c)].kind = "unauthorized" THEN 0 ELSE @]

\* The answer to a challenge, to a proof, or to work.
Hear(c) ==
  /\ client[c].pc \in Running \ {"idle"} /\ Answered(c)
  /\ IF ~Succeeded(c) THEN Becomes(c, Failed(c)) /\ Heard(c)
     ELSE IF client[c].pc = "challenging"
     THEN /\ Becomes(c, [client[c] EXCEPT !.pc = "proving"])
          /\ Ask(c, "session", link[Live(c)].nonce)
     ELSE /\ Becomes(c, [client[c] EXCEPT !.pc = "idle",
                           !.token = IF client[c].pc = "proving"
                                     THEN link[Live(c)].nonce ELSE @,
                           !.published = @ \/ client[c].pc = "publishing"])
          /\ Heard(c)
  /\ Locally

ClientStep(c) ==
  BeginEnroll(c) \/ EndEnroll(c) \/ AskChallenge(c) \/ AskWork(c) \/ Hear(c)

\* What the control plane still works on when the client stops listening.
Orphaned(c, m) ==
  \E kept \in {link[Late(c)], link[Live(c)]} :
    /\ kept # link[Late(c)] =>
         /\ link[Late(c)] = Quiet
         /\ link[Live(c)].kind \in Requests \cup Stages
    /\ link' = [link EXCEPT ![Live(c)] = m, ![Late(c)] = kept]

\* A request times out, or it or its answer is lost.
GiveUp(c) ==
  /\ link[Live(c)].kind \notin {"none", "unavailable"}
  /\ Fault
  /\ Orphaned(c, Answer(link[Live(c)], "unavailable"))
  /\ UNCHANGED <<memory, entries, file, client, told>>

\* The process is stopped or killed, or the mark cannot be saved: only
\* identity.json is left.
Crash(c) ==
  /\ client[c].pc # "off"
  /\ Fault
  /\ Becomes(c, [client[c] EXCEPT !.pc = "off", !.token = 0, !.published = FALSE])
  /\ Orphaned(c, Quiet)
  /\ UNCHANGED <<memory, entries, file, told>>

-----------------------------------------------------------------------------
(* Time.                                                                   *)

\* The ten minutes of a token, the minute of a challenge, the ten minutes of
\* a session, and the worker's own, shorter, count of the latter.
CloseWindow(i) ==
  /\ i \in window /\ i \in Known(entries)
  /\ window' = window \ {i}
  /\ UNCHANGED <<memory, entries, file, client, link, issued, revokedTold, faults>>

Expire ==
  /\ Fault
  /\ \/ /\ \E t \in challenges : challenges' = challenges \ {t}
        /\ UNCHANGED <<sessions, client>>
     \/ /\ \E t \in sessions : sessions' = sessions \ {t}
        /\ UNCHANGED <<challenges, client>>
     \/ /\ \E c \in Clients : /\ client[c].pc = "idle" /\ client[c].token # 0
                              /\ Becomes(c, [client[c] EXCEPT !.token = 0])
        /\ UNCHANGED <<challenges, sessions>>
  /\ UNCHANGED <<up, poison, entries, file, link, told>>

-----------------------------------------------------------------------------
Next ==
  \/ Kill \/ OperatorStops \/ OpenWorkers \/ Expire
  \/ \E i \in Ids : Create(i) \/ Revoke(i) \/ CloseWindow(i)
  \/ \E s \in Slots : Serve(s)
  \/ \E c \in Clients : ClientStep(c) \/ Start(c) \/ GiveUp(c) \/ Crash(c)

Spec == Init /\ [][Next]_vars

\* The control plane is started again, and stopped when it is poisoned; what
\* is served or running goes on; who was not told that enrollment succeeded
\* tries again.
Fairness ==
  /\ WF_vars(OpenWorkers) /\ WF_vars(OperatorStops)
  /\ \A c \in Clients : WF_vars(ClientStep(c)) /\ WF_vars(Serve(Live(c)))

FairSpec == Spec /\ Fairness

-----------------------------------------------------------------------------
(* Properties.                                                             *)

\* Whatever an answer is made of is on file: a save that failed after the
\* memory was changed poisons the registry (workers.go:125-134), and only
\* requests that fail see the difference.
AnswersFromFile == up /\ ~poison => entries = file

\* What somebody was told is on file, through failed saves, kills and
\* restarts on both sides: a worker that holds itself for enrolled is the one
\* whose key is bound, an accepted manifest is kept, the registration of a
\* token that was handed out exists, and a revocation lasts
\* (workers.go:157-161, 212-215, 235-238; worker.go:153, 167-169).
AcknowledgedStays ==
  /\ \A c \in Clients :
       LET i == client[c].ident IN
       /\ client[c].enrolled => i # 0 /\ file[i].key = c
       /\ client[c].published => file[i].manifest
  /\ \A i \in issued : file[i].known
  /\ \A i \in revokedTold : file[i].revoked

\* docs/accounts-and-security.md: "Revocation blocks subsequent requests and
\* renewal."  Once the operator was told, no request of the worker passes
\* another call of the registry; only a poll that was authenticated already
\* may still be given a job (worker_api.go:160-165).
Passes(s) ==
  /\ link'[s] # link[s]
  /\ link[s].kind \in (Requests \cup Stages) \ {"granting"}
  /\ link'[s].kind \in {"ok"} \cup Stages
RevocationBlocks ==
  [][\A s \in Slots : Passes(s) => link'[s].id \notin revokedTold]_vars

\* Registrations and outstanding challenges have the same bound.  As a worker
\* has at most one challenge, the others never fill the table, and one that
\* may sign in is never told to retry shortly (workers.go:147, 251-258).
NeverBusy ==
  [][\A s \in Slots :
       link[s].kind = "challenge" /\ link'[s].kind = "refused" =>
         entries[link[s].id].revoked \/ entries[link[s].id].key = NoClient]_vars

\* A worker whose key is bound and who was not told so gets to know, even
\* when the token's time is over (workers.go:228-231).
EnrollmentRetried ==
  \A c \in Clients, i \in Ids :
    file[i].key = c /\ client[c].ident = i ~> client[c].enrolled \/ file[i].revoked

\* A worker's process comes to have its manifest accepted, through restarts
\* of the control plane, which forgets its session (worker.go:117-119).
WorkerReturns ==
  \A c \in Clients :
    client[c].pc \in Running ~>
      \/ client[c].published \/ client[c].pc = "off"
      \/ file[client[c].ident].revoked
=============================================================================
