------------------------ MODULE WorkerRegistryProofs ------------------------
(***************************************************************************)
(* Proofs about WorkerRegistry, for any number of registrations, machines  *)
(* and faults.                                                             *)
(*                                                                         *)
(* On file, a registration only grows: it is never unbound, unpublished or *)
(* un-revoked.  The memory is ahead of the file only while the registry is *)
(* poisoned, and then nobody is answered.  A worker's requests carry its   *)
(* own identity, because the nonce of a session is known to the one worker *)
(* that it was made for.                                                   *)
(***************************************************************************)
EXTENDS WorkerRegistry, FiniteSetTheorems, TLAPS

\* What is not registered is not bound, published or revoked.
Registered(e) ==
  \A i \in Ids : ~e[i].known => e[i].key = NoClient /\ ~e[i].manifest /\ ~e[i].revoked

\* From e to d, nothing that was settled is taken back.
Grows(e, d) ==
  \A i \in Ids :
    /\ e[i].known => d[i].known
    /\ e[i].key # NoClient => d[i].key = e[i].key
    /\ e[i].manifest => d[i].manifest
    /\ e[i].revoked => d[i].revoked

\* The kinds of message a worker waits among, by where it stands.
Awaited(pc) ==
  IF pc \in {"off", "idle"} THEN {"none"}
  ELSE Answers \cup
       (IF pc = "enrolling" THEN {"enroll"}
        ELSE IF pc = "challenging" THEN {"challenge"}
        ELSE IF pc = "proving" THEN {"session"}
        ELSE IF pc = "publishing" THEN {"manifest", "publish"}
        ELSE {"claim", "touch", "poll", "granting"})

\* What a worker is, and what it waits for, go together.
Waiting(c) ==
  LET m == link[Live(c)] IN
  /\ client[c].pc # "off" \/ client[c].enrolled => client[c].ident # 0
  /\ client[c].pc \in {"off", "enrolling"} => client[c].token = 0 /\ ~client[c].published
  /\ m.kind \in Awaited(client[c].pc)
  /\ m.kind # "none" => m.id = client[c].ident
  /\ m.kind = "none" => m.nonce = 0

\* Who knows the nonce of a session has the identity that it is for.
Owned(c) ==
  \A t \in sessions :
    t.nonce \in {client[c].token, link[Live(c)].nonce} => t.id = client[c].ident

\* An answer that is under way is as true as one that was heard.
Honest(c) ==
  link[Live(c)].kind = "ok" =>
    /\ client[c].pc = "enrolling" => file[client[c].ident].key = c
    /\ client[c].pc = "publishing" => file[client[c].ident].manifest

Addressed == \A s \in Slots : link[s].kind \in Requests \cup Stages => link[s].id \in Ids

\* A process that does not run holds nothing.
Asleep == ~up => entries = Empty

FileInv ==
  /\ TypeOK
  /\ AnswersFromFile /\ Asleep
  /\ Registered(entries) /\ Registered(file)
LinkInv == Addressed /\ \A c \in Clients : Waiting(c) /\ Owned(c) /\ Honest(c)

\* Sessions, and the manifests they bring, are those of registered workers.
Admitted ==
  /\ \A t \in sessions : entries[t.id].known
  /\ \A s \in Slots : link[s].kind = "publish" => entries[link[s].id].known

Sound == FileInv /\ LinkInv /\ Admitted /\ AcknowledgedStays

-----------------------------------------------------------------------------
\* What an answer carries of the request that it answers.
LEMMA Answering ==
  ASSUME NEW m \in Message, NEW kind \in Answers
  PROVE  /\ Answer(m, kind) \in Message
         /\ Answer(m, kind).kind = kind /\ Answer(m, kind).id = m.id
         /\ Answer(m, kind).nonce = 0
BY DEF Message, Answer

\* A nonce that is made is new.
LEMMA FreshIsNew ==
  ASSUME Unused # {}
  PROVE  Fresh \in Nonces /\ Fresh # 0 /\ Fresh \notin InUse
<1>1. Fresh \in Unused
  BY DEF Fresh
<1> QED BY <1>1, RegistryAssumption DEF Unused

\* A registry that stays as it is grows, too.
LEMMA GrowsSame == ASSUME NEW e PROVE Grows(e, e)
BY DEF Grows

\* The registry that is empty, as a new one or a lost one is.
LEMMA EmptyRegistered == Empty \in [Ids -> Entry] /\ Registered(Empty)
<1>1. Unknown \in Entry
  BY DEF Unknown, Entry
<1> QED BY <1>1 DEF Empty, Registered, Unknown

\* Changes of one registration grow the registry.
LEMMA OneEntry ==
  ASSUME NEW e \in [Ids -> Entry], Registered(e), NEW i \in Ids, NEW x \in Entry,
         x.known,
         e[i].key # NoClient => x.key = e[i].key,
         e[i].manifest => x.manifest, e[i].revoked => x.revoked
  PROVE  /\ [e EXCEPT ![i] = x] \in [Ids -> Entry]
         /\ Registered([e EXCEPT ![i] = x])
         /\ Grows(e, [e EXCEPT ![i] = x])
         /\ [e EXCEPT ![i] = x][i] = x
<1> DEFINE d == [e EXCEPT ![i] = x]
<1>1. d \in [Ids -> Entry] /\ d[i] = x /\ \A k \in Ids \ {i} : d[k] = e[k]
  OBVIOUS
<1> HIDE DEF d
<1>2. Registered(d)
  BY <1>1 DEF Registered
<1>3. Grows(e, d)
  BY <1>1 DEF Grows
<1> QED BY <1>1, <1>2, <1>3 DEF d

\* The four changes that are saved.
LEMMA Created ==
  ASSUME NEW e \in [Ids -> Entry], Registered(e), NEW i \in Ids, ~e[i].known
  PROVE  LET d == [e EXCEPT ![i] = [Unknown EXCEPT !.known = TRUE, !.open = TRUE]]
         IN  d \in [Ids -> Entry] /\ Registered(d) /\ Grows(e, d) /\ d[i].known
<1> DEFINE x == [Unknown EXCEPT !.known = TRUE, !.open = TRUE]
<1>1. x \in Entry /\ x.known
  BY DEF Unknown, Entry
<1>2. e[i].key = NoClient /\ ~e[i].manifest /\ ~e[i].revoked
  BY DEF Registered
<1> HIDE DEF x
<1>3. /\ [e EXCEPT ![i] = x] \in [Ids -> Entry] /\ Registered([e EXCEPT ![i] = x])
      /\ Grows(e, [e EXCEPT ![i] = x]) /\ [e EXCEPT ![i] = x][i] = x
  BY <1>1, <1>2, OneEntry
<1> QED BY <1>1, <1>3 DEF x

\* Revoking a registration.
LEMMA Revoked ==
  ASSUME NEW e \in [Ids -> Entry], Registered(e), NEW i \in Ids, e[i].known
  PROVE  LET d == [e EXCEPT ![i] = [@ EXCEPT !.revoked = TRUE, !.open = FALSE]]
         IN  d \in [Ids -> Entry] /\ Registered(d) /\ Grows(e, d) /\ d[i].revoked
<1> DEFINE x == [e[i] EXCEPT !.revoked = TRUE, !.open = FALSE]
<1>1. e[i] \in Entry
  OBVIOUS
<1>2. /\ x \in Entry /\ x.known /\ x.revoked
      /\ x.key = e[i].key /\ x.manifest = e[i].manifest
  BY <1>1 DEF Entry
<1>3. [e EXCEPT ![i] = [@ EXCEPT !.revoked = TRUE, !.open = FALSE]] = [e EXCEPT ![i] = x]
  OBVIOUS
<1> HIDE DEF x
<1>4. /\ [e EXCEPT ![i] = x] \in [Ids -> Entry] /\ Registered([e EXCEPT ![i] = x])
      /\ Grows(e, [e EXCEPT ![i] = x]) /\ [e EXCEPT ![i] = x][i] = x
  BY <1>2, OneEntry
<1> QED BY <1>2, <1>3, <1>4

\* Binding a key to what has none.
LEMMA Bound ==
  ASSUME NEW y \in Entry, y.known, NEW c \in Clients
  PROVE  LET x == [y EXCEPT !.key = c, !.open = FALSE]
         IN  /\ x \in Entry /\ x.known /\ x.key = c
             /\ x.revoked = y.revoked /\ x.manifest = y.manifest
BY DEF Entry

\* Keeping a manifest.
LEMMA Published ==
  ASSUME NEW e \in [Ids -> Entry], Registered(e), NEW i \in Ids, e[i].known
  PROVE  LET d == [e EXCEPT ![i].manifest = TRUE]
         IN  d \in [Ids -> Entry] /\ Registered(d) /\ Grows(e, d) /\ d[i].manifest
<1> DEFINE x == [e[i] EXCEPT !.manifest = TRUE]
<1>1. e[i] \in Entry
  OBVIOUS
<1>2. /\ x \in Entry /\ x.known /\ x.manifest
      /\ x.key = e[i].key /\ x.revoked = e[i].revoked
  BY <1>1 DEF Entry
<1>3. [e EXCEPT ![i].manifest = TRUE] = [e EXCEPT ![i] = x]
  OBVIOUS
<1> HIDE DEF x
<1>4. /\ [e EXCEPT ![i] = x] \in [Ids -> Entry] /\ Registered([e EXCEPT ![i] = x])
      /\ Grows(e, [e EXCEPT ![i] = x]) /\ [e EXCEPT ![i] = x][i] = x
  BY <1>2, OneEntry
<1> QED BY <1>2, <1>3, <1>4

-----------------------------------------------------------------------------
\* Faults stay within their bound.
LEMMA FaultCounts == ASSUME TypeOK, Fault PROVE faults' \in 0..MaxFaults
BY RegistryAssumption DEF TypeOK, Fault

\* A change is saved, or fails, or the process is killed with it: the file
\* grows, and the memory follows it or is not answered from.
LEMMA SaveOutcomes ==
  ASSUME FileInv, up,
         NEW new \in [Ids -> Entry], Registered(new), Grows(entries, new),
         Saved(new) \/ SaveFails(new) \/ SaveKilled(new)
  PROVE  /\ file' \in [Ids -> Entry] /\ entries' \in [Ids -> Entry]
         /\ Registered(file)' /\ Registered(entries)' /\ AnswersFromFile' /\ Asleep'
         /\ Grows(file, file')
         /\ up' \in BOOLEAN /\ poison' \in BOOLEAN
         /\ sessions' \in {sessions, {}} /\ challenges' \in {challenges, {}}
         /\ OneEach(sessions') /\ OneEach(challenges')
         /\ faults' \in 0..MaxFaults
<1>1. CASE Saved(new)
  <2>1. entries = file
    BY <1>1 DEF Saved, FileInv, AnswersFromFile
  <2> QED BY <1>1, <2>1 DEF Saved, memory, FileInv, TypeOK, AnswersFromFile, Asleep, Registered
<1>2. CASE SaveFails(new)
  <2>1. /\ entries' = new /\ poison' = TRUE
        /\ UNCHANGED <<up, challenges, sessions>>
        /\ file' = file \/ (~poison /\ file' = new)
    BY <1>2 DEF SaveFails
  <2>2. faults' \in 0..MaxFaults
    BY <1>2, FaultCounts DEF SaveFails, FileInv, TypeOK
  <2>3. ~poison => entries = file
    BY DEF FileInv, AnswersFromFile
  <2>4. Grows(file, file')
    BY <2>1, <2>3, GrowsSame
  <2> QED BY <2>1, <2>2, <2>4 DEF FileInv, TypeOK, AnswersFromFile, Asleep, Registered
<1>3. CASE SaveKilled(new)
  <2>1. /\ ~poison /\ file' = new /\ up' = FALSE /\ poison' = FALSE /\ entries' = Empty
        /\ challenges' = {} /\ sessions' = {}
    BY <1>3 DEF SaveKilled, Down
  <2>2. faults' \in 0..MaxFaults
    BY <1>3, FaultCounts DEF SaveKilled, FileInv
  <2>3. entries = file
    BY <2>1 DEF FileInv, AnswersFromFile
  <2>4. OneEach({})
    BY DEF OneEach
  <2> QED BY <2>1, <2>2, <2>3, <2>4, EmptyRegistered DEF AnswersFromFile, Asleep, Registered
<1> QED BY <1>1, <1>2, <1>3

-----------------------------------------------------------------------------
\* Slots and their workers.
LEMMA SlotParts ==
  /\ \A s \in Slots : s[1] \in Clients /\ s[2] \in {"live", "late"} /\ s = <<s[1], s[2]>>
  /\ \A c \in Clients : /\ Live(c) \in Slots /\ Late(c) \in Slots /\ Live(c) # Late(c)
                        /\ Live(c)[1] = c /\ Live(c)[2] = "live"
  /\ \A s \in Slots : s[2] = "live" => s = Live(s[1])
  /\ \A s \in Slots, c \in Clients : s # Live(c) /\ s[2] = "live" => s[1] # c
BY DEF Slots, Live, Late

\* The nonces that are about are in use.
LEMMA Used ==
  /\ \A t \in sessions : t.nonce \in InUse
  /\ \A c \in Clients : client[c].token \in InUse
  /\ \A c \in Clients : link[Live(c)].nonce \in InUse
<1>1. \A s \in Slots : link[s].nonce \in InUse
  BY DEF InUse
<1>2. \A c \in Clients : client[c].token \in InUse
  BY DEF InUse
<1>3. \A t \in sessions : t.nonce \in InUse
  BY DEF InUse
<1> QED BY <1>1, <1>2, <1>3, SlotParts

\* What was claimed of a file is true of one that has grown.
LEMMA StillHonest ==
  ASSUME FileInv, NEW c \in Clients, Waiting(c), Honest(c), Grows(file, file'),
         client' = client, link'[Live(c)] = link[Live(c)]
  PROVE  Honest(c)'
<1>1. Live(c)' = Live(c)
  BY DEF Live
<1>2. client[c] \in Client
  BY DEF FileInv, TypeOK
<1>3. client[c].pc # "off" => client[c].ident \in Ids
  BY <1>2 DEF Waiting, Client
<1>4. c # NoClient
  BY RegistryAssumption
<1> QED BY <1>1, <1>3, <1>4 DEF Honest, Grows

\* What may become of a request in one call.
Follows(k) ==
  Answers \cup (IF k = "manifest" THEN {"publish"}
                ELSE IF k = "claim" THEN {"touch"}
                ELSE IF k = "touch" THEN {"poll"}
                ELSE IF k = "poll" THEN {"granting"} ELSE {})

\* What a reply changes.
LEMMA Replied ==
  ASSUME link \in [Slots -> Message], NEW s \in Slots, NEW m \in Message, Reply(s, m)
  PROVE  /\ link' \in [Slots -> Message]
         /\ link'[s] \in {m, Quiet}
         /\ s[2] = "live" => link'[s] = m
         /\ \A r \in Slots \ {s} : link'[r] = link[r]
<1>1. Quiet \in Message
  BY DEF Quiet, Message
<1>2. s[2] = "live" => s[2] # "late"
  OBVIOUS
<1> QED BY <1>1, <1>2 DEF Reply

\* A call of the registry on behalf of a request: the reply carries the
\* identity of the request, and a nonce that is old, or new and its own.
LEMMA ServedKeeps ==
  ASSUME FileInv, LinkInv, NEW s \in Slots, NEW m \in Message,
         link[s].kind \in Requests \cup Stages, m.kind \in Follows(link[s].kind),
         Reply(s, m), UNCHANGED client, Grows(file, file'),
         m.kind \in Stages => m.id \in Ids,
         \/ m.id = link[s].id
         \/ m.nonce = link[s].nonce /\ \E t \in sessions : t.nonce = m.nonce /\ t.id = m.id,
         m.nonce \in {0, link[s].nonce} \/ m.nonce \notin InUse,
         sessions' \subseteq Ticket,
         \A t \in sessions' : t \in sessions \/ (t.nonce \notin InUse /\ t.id = link[s].id),
         s[2] = "live" /\ m.kind = "ok" =>
           /\ client[s[1]].pc = "enrolling" => file'[client[s[1]].ident].key = s[1]
           /\ client[s[1]].pc = "publishing" => file'[client[s[1]].ident].manifest
  PROVE  LinkInv' /\ link' \in [Slots -> Message]
<1>1. link \in [Slots -> Message]
  BY DEF FileInv, TypeOK
<1>2. /\ link' \in [Slots -> Message]
      /\ link'[s] \in {m, Quiet}
      /\ s[2] = "live" => link'[s] = m
      /\ \A r \in Slots \ {s} : link'[r] = link[r]
  BY <1>1, Replied
<1>3. m.kind \in Stages \cup Answers
  BY DEF Follows, Stages
<1>4. Addressed'
  BY <1>2, <1>3 DEF LinkInv, Addressed, Quiet, Requests, Stages, Answers
<1>5. ASSUME NEW c \in Clients, s # Live(c)
      PROVE  Waiting(c)' /\ Owned(c)' /\ Honest(c)'
  <2>1. Waiting(c) /\ Owned(c) /\ Honest(c)
    BY DEF LinkInv
  <2>2. link'[Live(c)] = link[Live(c)] /\ Live(c)' = Live(c)
    BY <1>2, <1>5, SlotParts DEF Live
  <2>3. Waiting(c)'
    BY <2>1, <2>2 DEF Waiting
  <2>4. Owned(c)'
    BY <2>1, <2>2, Used DEF Owned
  <2> QED BY <2>1, <2>2, <2>3, <2>4, StillHonest
<1>6. ASSUME NEW c \in Clients, s = Live(c)
      PROVE  Waiting(c)' /\ Owned(c)' /\ Honest(c)'
  <2>1. Waiting(c) /\ Owned(c) /\ Honest(c)
    BY DEF LinkInv
  <2>2. link'[Live(c)] = m /\ Live(c)' = Live(c) /\ s[1] = c /\ s[2] = "live"
    BY <1>2, <1>6, SlotParts DEF Live
  <2>3. link[s].kind # "none" /\ link[s].id = client[c].ident
    BY <1>6, <2>1 DEF Waiting, Requests, Stages
  <2>4. m.id = client[c].ident
    BY <1>6, <2>1, <2>3 DEF Owned
  <2>5. m.kind \in Awaited(client[c].pc) /\ m.kind # "none"
    BY <1>6, <2>1 DEF Waiting, Awaited, Follows, Requests, Stages, Answers
  <2>6. Waiting(c)'
    BY <2>1, <2>2, <2>4, <2>5 DEF Waiting
  <2>7. \A t \in sessions' : t.nonce # 0
    BY RegistryAssumption DEF Ticket
  <2>8. Owned(c)'
    <3> SUFFICES ASSUME NEW t \in sessions', t.nonce \in {client[c].token, m.nonce}
                 PROVE  t.id = client[c].ident
      BY <2>2 DEF Owned
    <3>1. CASE t \in sessions
      BY <1>6, <2>1, <2>7, <3>1, Used DEF Owned
    <3>2. CASE t \notin sessions
      BY <2>3, <3>2
    <3> QED BY <3>1, <3>2
  <2>9. Honest(c)'
    BY <2>2 DEF Honest
  <2> QED BY <2>6, <2>8, <2>9
<1> QED BY <1>2, <1>4, <1>5, <1>6 DEF LinkInv

-----------------------------------------------------------------------------
\* What was told of a file is true of one that has grown.
LEMMA StillTold ==
  ASSUME Sound, UNCHANGED <<client, told>>, Grows(file, file')
  PROVE  AcknowledgedStays'
<1>1. issued \subseteq Ids /\ revokedTold \subseteq Ids /\ client \in [Clients -> Client]
  BY DEF Sound, FileInv, TypeOK
<1>2. \A c \in Clients : client[c].enrolled \/ client[c].published => client[c].ident \in Ids
  BY <1>1 DEF Sound, LinkInv, Waiting, Client
<1>3. \A c \in Clients : c # NoClient
  BY RegistryAssumption
<1> QED BY <1>1, <1>2, <1>3 DEF Sound, AcknowledgedStays, Grows, told

\* The parts of the invariant, put together after a call of the registry.
LEMMA Together ==
  ASSUME Sound, UNCHANGED <<client, told>>, Grows(file, file'),
         file' \in [Ids -> Entry], entries' \in [Ids -> Entry],
         Registered(file)', Registered(entries)', AnswersFromFile', Asleep',
         up' \in BOOLEAN, poison' \in BOOLEAN,
         OneEach(sessions'), OneEach(challenges'),
         faults' \in 0..MaxFaults,
         LinkInv', Admitted', link' \in [Slots -> Message]
  PROVE  Sound'
<1>1. TypeOK'
  BY DEF Sound, FileInv, TypeOK, told
<1> QED BY <1>1, StillTold DEF Sound, FileInv

\* A reply keeps to registered workers.
LEMMA StillAdmitted ==
  ASSUME Sound, NEW s \in Slots, NEW m \in Message, Reply(s, m), Grows(entries, entries'),
         \A t \in sessions' : entries'[t.id].known,
         m.kind = "publish" => entries'[m.id].known
  PROVE  Admitted'
<1>1. link \in [Slots -> Message]
  BY DEF Sound, FileInv, TypeOK
<1>2. link'[s] \in {m, Quiet} /\ \A r \in Slots \ {s} : link'[r] = link[r]
  BY <1>1, Replied
<1>3. \A r \in Slots : link[r].kind = "publish" => link[r].id \in Ids
  BY DEF Sound, LinkInv, Addressed, Stages
<1> QED BY <1>2, <1>3 DEF Sound, Admitted, Grows, Quiet

\* The process ends: who is waiting is told so, and no session is left.
LEMMA DownKeeps ==
  ASSUME FileInv, LinkInv, Down, UNCHANGED client, Grows(file, file')
  PROVE  LinkInv' /\ Admitted' /\ link' \in [Slots -> Message]
<1>1. link \in [Slots -> Message]
  BY DEF FileInv, TypeOK
<1>2. link' = [s \in Slots |-> Broken(s)] /\ sessions' = {}
  BY DEF Down
<1>3. ASSUME NEW s \in Slots
      PROVE  /\ Broken(s) \in Message
             /\ Broken(s).kind \in Answers \cup {"none"}
             /\ s[2] = "live" =>
                  \/ Broken(s) = link[s]
                  \/ /\ Broken(s).kind = "unavailable" /\ Broken(s).id = link[s].id
                     /\ link[s].kind \in Requests \cup Stages
  <2>1. link[s] \in Message
    BY <1>1
  <2>2. "unavailable" \in Answers
    BY DEF Answers
  <2>3. /\ Quiet \in Message
        /\ Answer(link[s], "unavailable") \in Message
        /\ Answer(link[s], "unavailable").kind = "unavailable"
        /\ Answer(link[s], "unavailable").id = link[s].id
    BY <2>1, <2>2, Answering DEF Quiet, Message
  <2>4. link[s].kind \in Requests \cup Stages \cup Answers \cup {"none"}
    BY <2>1 DEF Message
  <2> QED BY <2>1, <2>2, <2>3, <2>4 DEF Broken, Quiet
<1>4. link' \in [Slots -> Message]
  BY <1>2, <1>3
<1>5. Addressed'
  BY <1>2, <1>3 DEF Addressed, Requests, Stages, Answers
<1>6. ASSUME NEW c \in Clients PROVE Waiting(c)' /\ Owned(c)' /\ Honest(c)'
  <2>1. Waiting(c) /\ Owned(c) /\ Honest(c)
    BY DEF LinkInv
  <2>2. Live(c)' = Live(c) /\ Live(c) \in Slots /\ Live(c)[2] = "live"
    BY SlotParts DEF Live
  <2>3. \/ link'[Live(c)] = link[Live(c)]
        \/ /\ link'[Live(c)].kind = "unavailable" /\ link'[Live(c)].id = link[Live(c)].id
           /\ link[Live(c)].kind \in Requests \cup Stages
    BY <1>2, <1>3, <2>2
  <2>4. Waiting(c)'
    BY <2>1, <2>2, <2>3 DEF Waiting, Awaited, Answers, Requests, Stages
  <2>5. Owned(c)'
    BY <1>2 DEF Owned
  <2>6. Honest(c)'
    <3>1. CASE link'[Live(c)] = link[Live(c)]
      BY <2>1, <3>1, StillHonest
    <3>2. CASE link'[Live(c)].kind = "unavailable"
      BY <2>2, <3>2 DEF Honest
    <3> QED BY <2>3, <3>1, <3>2
  <2> QED BY <2>4, <2>5, <2>6
<1>7. Admitted'
  BY <1>2, <1>3 DEF Admitted, Answers
<1> QED BY <1>4, <1>5, <1>6, <1>7 DEF LinkInv

-----------------------------------------------------------------------------
\* A reply that changes nothing else.
LEMMA ReplyKeeps ==
  ASSUME Sound, NEW s \in Slots, NEW m \in Message,
         link[s].kind \in Requests \cup Stages, m.kind \in Follows(link[s].kind),
         Reply(s, m), UNCHANGED <<memory, entries, file, faults, client, told>>,
         m.kind \in Stages => m.id \in Ids, m.kind = "publish" => entries[m.id].known,
         \/ m.id = link[s].id
         \/ m.nonce = link[s].nonce /\ \E t \in sessions : t.nonce = m.nonce /\ t.id = m.id,
         m.nonce \in {0, link[s].nonce},
         s[2] = "live" /\ m.kind = "ok" =>
           /\ client[s[1]].pc = "enrolling" => file[client[s[1]].ident].key = s[1]
           /\ client[s[1]].pc = "publishing" => file[client[s[1]].ident].manifest
  PROVE  Sound'
<1>1. /\ file' = file /\ entries' = entries /\ up' = up /\ poison' = poison
      /\ sessions' = sessions /\ challenges' = challenges /\ faults' = faults
      /\ client' = client
  BY DEF memory
<1>2. Grows(file, file')
  BY <1>1, GrowsSame
<1>3. sessions' \subseteq Ticket
  BY <1>1 DEF Sound, FileInv, TypeOK, OneEach
<1>4. LinkInv' /\ link' \in [Slots -> Message]
  BY <1>1, <1>2, <1>3, ServedKeeps DEF Sound
<1>5. /\ Registered(file)' /\ Registered(entries)' /\ AnswersFromFile' /\ Asleep'
      /\ OneEach(sessions') /\ OneEach(challenges')
  BY <1>1 DEF Sound, FileInv, TypeOK, Registered, AnswersFromFile, Asleep
<1>6. /\ file' \in [Ids -> Entry] /\ entries' \in [Ids -> Entry]
      /\ up' \in BOOLEAN /\ poison' \in BOOLEAN /\ faults' \in 0..MaxFaults
  BY <1>1 DEF Sound, FileInv, TypeOK
<1>7. Admitted'
  BY <1>1, GrowsSame, StillAdmitted DEF Sound, Admitted
<1> QED BY <1>1, <1>2, <1>4, <1>5, <1>6, <1>7, Together

\* A refusal, for whatever reason, claims nothing.
LEMMA RefuseKeeps ==
  ASSUME Sound, NEW s \in Slots, link[s].kind \in Requests \cup Stages,
         NEW kind \in Answers \ {"ok"}, Refuse(s, kind), UNCHANGED <<client, told>>
  PROVE  Sound'
<1> DEFINE m == Answer(link[s], kind)
<1>1. link[s] \in Message
  BY DEF Sound, FileInv, TypeOK
<1>2. m \in Message /\ m.kind = kind /\ m.id = link[s].id /\ m.nonce = 0
  BY <1>1, Answering
<1>3. Reply(s, m) /\ UNCHANGED <<memory, entries, file, faults>>
  BY DEF Refuse
<1> HIDE DEF m
<1>4. m.kind \in Follows(link[s].kind) /\ m.kind \notin Stages \cup {"ok", "publish"}
  BY <1>2 DEF Follows, Answers, Stages
<1> QED BY <1>2, <1>3, <1>4, ReplyKeeps

\* A reply that waits for a save.
LEMMA SaveKeeps ==
  ASSUME Sound, up, NEW s \in Slots, NEW m \in Message,
         link[s].kind \in Requests \cup Stages, m.kind \in Follows(link[s].kind),
         NEW new \in [Ids -> Entry], Registered(new), Grows(entries, new),
         Save(s, new, m), UNCHANGED <<client, told>>,
         m.kind \in Stages => m.id \in Ids, m.kind # "publish",
         m.id = link[s].id, m.nonce \in {0, link[s].nonce},
         s[2] = "live" /\ m.kind = "ok" =>
           /\ client[s[1]].pc = "enrolling" => new[client[s[1]].ident].key = s[1]
           /\ client[s[1]].pc = "publishing" => new[client[s[1]].ident].manifest
  PROVE  Sound'
<1>1. Saved(new) \/ SaveFails(new) \/ SaveKilled(new)
  BY DEF Save
<1>2. /\ file' \in [Ids -> Entry] /\ entries' \in [Ids -> Entry]
      /\ Registered(file)' /\ Registered(entries)' /\ AnswersFromFile' /\ Asleep'
      /\ Grows(file, file')
      /\ up' \in BOOLEAN /\ poison' \in BOOLEAN
      /\ sessions' \in {sessions, {}} /\ challenges' \in {challenges, {}}
      /\ OneEach(sessions') /\ OneEach(challenges')
      /\ faults' \in 0..MaxFaults
  BY <1>1, SaveOutcomes DEF Sound
<1>3. sessions' \subseteq Ticket /\ sessions' \subseteq sessions
  BY <1>2 DEF OneEach
<1>4. ASSUME entries' = new PROVE \A t \in sessions' : entries'[t.id].known
  BY <1>3, <1>4 DEF Sound, FileInv, TypeOK, OneEach, Ticket, Admitted, Grows
<1>5. LinkInv' /\ Admitted' /\ link' \in [Slots -> Message]
  <2>1. CASE Saved(new) /\ Reply(s, m)
    <3>1. file' = new /\ entries' = new
      BY <2>1 DEF Saved
    <3>2. Admitted'
      BY <1>4, <2>1, <3>1, StillAdmitted
    <3> QED BY <1>2, <1>3, <2>1, <3>1, <3>2, ServedKeeps DEF Sound
  <2>2. CASE SaveFails(new) /\ Reply(s, Answer(link[s], "unavailable"))
    <3> DEFINE r == Answer(link[s], "unavailable")
    <3>1. link[s] \in Message /\ "unavailable" \in Answers
      BY DEF Sound, FileInv, TypeOK, Answers
    <3>2. r \in Message /\ r.kind = "unavailable" /\ r.id = link[s].id /\ r.nonce = 0
      BY <3>1, Answering
    <3>3. Reply(s, r)
      BY <2>2
    <3> HIDE DEF r
    <3>4. r.kind \in Follows(link[s].kind) /\ r.kind \notin Stages /\ r.kind # "ok"
      BY <3>2 DEF Follows, Answers, Stages
    <3>5. entries' = new
      BY <2>2 DEF SaveFails
    <3>6. Admitted'
      BY <1>4, <3>2, <3>3, <3>5, StillAdmitted
    <3> QED BY <1>2, <1>3, <3>2, <3>3, <3>4, <3>6, ServedKeeps DEF Sound
  <2>3. CASE SaveKilled(new)
    BY <1>2, <2>3, DownKeeps DEF SaveKilled, Sound
  <2> QED BY <2>1, <2>2, <2>3 DEF Save
<1> QED BY <1>2, <1>5, Together

-----------------------------------------------------------------------------
\* What is known of a request that is served.
LEMMA Served ==
  ASSUME Sound, NEW s \in Slots, link[s].kind \in Requests \cup Stages
  PROVE  /\ link[s] \in Message /\ link[s].id \in Ids /\ s[1] \in Clients
         /\ s[2] = "live" => /\ link[s].id = client[s[1]].ident
                             /\ link[s].kind \in Awaited(client[s[1]].pc)
<1>1. link[s] \in Message /\ link[s].id \in Ids
  BY DEF Sound, FileInv, TypeOK, LinkInv, Addressed
<1>2. s[1] \in Clients /\ (s[2] = "live" => s = Live(s[1]))
  BY SlotParts
<1>3. Waiting(s[1])
  BY <1>2 DEF Sound, LinkInv
<1>4. link[s].kind # "none"
  BY DEF Requests, Stages
<1> QED BY <1>1, <1>2, <1>3, <1>4 DEF Waiting

\* Enrollment: the answer names the key that is bound, now or before.
LEMMA EnrollKeeps == ASSUME Sound, NEW s \in Slots, Enroll(s) PROVE Sound'
<1> DEFINE i == link[s].id
           ok == Answer(link[s], "ok")
           new == [entries EXCEPT ![i] = [@ EXCEPT !.key = s[1], !.open = FALSE]]
<1>1. up /\ link[s].kind = "enroll" /\ UNCHANGED <<client, told>>
  BY DEF Enroll
<1>2. link[s].kind \in Requests \cup Stages
  BY <1>1 DEF Requests
<1>3. /\ link[s] \in Message /\ i \in Ids /\ s[1] \in Clients
      /\ s[2] = "live" => i = client[s[1]].ident /\ client[s[1]].pc = "enrolling"
  BY <1>1, <1>2, Served DEF Awaited, Answers
<1>4. /\ ok \in Message /\ ok.kind = "ok" /\ ok.id = link[s].id /\ ok.nonce = 0
      /\ ok.kind \in Follows(link[s].kind) /\ ok.kind \notin Stages
  <2>1. "ok" \in Answers
    BY DEF Answers
  <2> QED BY <1>3, <2>1, Answering DEF Follows, Stages
<1>5. entries \in [Ids -> Entry] /\ Registered(entries)
  BY DEF Sound, FileInv, TypeOK
<1>6. ~poison => entries = file
  BY <1>1 DEF Sound, FileInv, AnswersFromFile
<1> HIDE DEF i, ok
<1>7. ASSUME NEW kind \in {"refused", "unavailable"}, Refuse(s, kind) PROVE Sound'
  BY <1>1, <1>2, <1>7, RefuseKeeps DEF Answers
<1>8. CASE ~poison /\ entries[i].key = s[1] /\ Reply(s, ok)
           /\ UNCHANGED <<memory, entries, file, faults>>
  BY <1>1, <1>2, <1>3, <1>4, <1>6, <1>8, ReplyKeeps DEF Stages
<1>9. CASE ~poison /\ entries[i].known /\ entries[i].key = NoClient /\ Save(s, new, ok)
  <2> DEFINE x == [entries[i] EXCEPT !.key = s[1], !.open = FALSE]
  <2>1. new = [entries EXCEPT ![i] = x]
    OBVIOUS
  <2>2. Save(s, new, ok)
    BY <1>9
  <2> HIDE DEF new
  <2>3. new \in [Ids -> Entry] /\ Registered(new) /\ Grows(entries, new) /\ new[i].key = s[1]
    <3>1. i \in Ids /\ s[1] \in Clients /\ entries[i] \in Entry
          /\ entries[i].known /\ entries[i].key = NoClient
      BY <1>3, <1>5, <1>9
    <3>2. /\ x \in Entry /\ x.known /\ x.key = s[1]
          /\ x.revoked = entries[i].revoked /\ x.manifest = entries[i].manifest
      BY <3>1, Bound
    <3> HIDE DEF x
    <3> QED BY <1>5, <2>1, <3>1, <3>2, OneEntry
  <2> QED BY <1>1, <1>2, <1>3, <1>4, <2>2, <2>3, SaveKeeps DEF Stages
<1> QED
  BY <1>1, <1>7, <1>8, <1>9 DEF Enroll, AlreadyBound, Bindable, i, ok

\* Manifests: the answer is sent when the manifest is on file.
LEMMA PublishKeeps == ASSUME Sound, NEW s \in Slots, Publish(s) PROVE Sound'
<1> DEFINE i == link[s].id
           ok == Answer(link[s], "ok")
           new == [entries EXCEPT ![i].manifest = TRUE]
<1>1. up /\ link[s].kind = "publish" /\ UNCHANGED <<client, told>>
  BY DEF Publish
<1>2. link[s].kind \in Requests \cup Stages
  BY <1>1 DEF Stages
<1>3. /\ link[s] \in Message /\ i \in Ids /\ s[1] \in Clients
      /\ s[2] = "live" => i = client[s[1]].ident /\ client[s[1]].pc = "publishing"
  BY <1>1, <1>2, Served DEF Awaited, Answers
<1>4. /\ ok \in Message /\ ok.kind = "ok" /\ ok.id = link[s].id /\ ok.nonce = 0
      /\ ok.kind \in Follows(link[s].kind) /\ ok.kind \notin Stages
  <2>1. "ok" \in Answers
    BY DEF Answers
  <2> QED BY <1>3, <2>1, Answering DEF Follows, Stages
<1>5. entries \in [Ids -> Entry] /\ Registered(entries) /\ entries[i].known
  BY <1>1 DEF Sound, FileInv, TypeOK, Admitted
<1>6. CASE Refuse(s, "refused")
  BY <1>1, <1>2, <1>6, RefuseKeeps DEF Answers
<1>7. CASE Save(s, new, ok)
  <2>1. new \in [Ids -> Entry] /\ Registered(new) /\ Grows(entries, new) /\ new[i].manifest
    BY <1>3, <1>5, Published
  <2>2. Save(s, new, ok)
    BY <1>7
  <2> HIDE DEF new, i, ok
  <2> QED BY <1>1, <1>2, <1>3, <1>4, <2>1, <2>2, SaveKeeps DEF Stages
<1> QED BY <1>6, <1>7 DEF Publish

\* A request that is under way goes on to its next stage.
LEMMA NextStage ==
  ASSUME NEW m \in Message, NEW kind \in Stages, NEW i \in Ids
  PROVE  /\ [m EXCEPT !.kind = kind, !.id = i] \in Message
         /\ [m EXCEPT !.kind = kind, !.id = i].kind = kind
         /\ [m EXCEPT !.kind = kind, !.id = i].id = i
         /\ [m EXCEPT !.kind = kind, !.id = i].nonce = m.nonce
         /\ [m EXCEPT !.kind = kind] \in Message
         /\ [m EXCEPT !.kind = kind].kind = kind
         /\ [m EXCEPT !.kind = kind].id = m.id
         /\ [m EXCEPT !.kind = kind].nonce = m.nonce
BY DEF Message

\* A poll is seen: its registration is saved as it is.
LEMMA TouchKeeps == ASSUME Sound, NEW s \in Slots, Touch(s) PROVE Sound'
<1> DEFINE m == [link[s] EXCEPT !.kind = "poll"]
<1>1. up /\ link[s].kind = "touch" /\ UNCHANGED <<client, told>>
  BY DEF Touch
<1>2. link[s].kind \in Requests \cup Stages /\ "poll" \in Stages
  BY <1>1 DEF Stages
<1>3. link[s] \in Message /\ link[s].id \in Ids
  BY <1>2, Served
<1>4. m \in Message /\ m.kind = "poll" /\ m.id = link[s].id /\ m.nonce = link[s].nonce
  BY <1>2, <1>3, NextStage
<1>5. Refuse(s, "refused") \/ Save(s, entries, m)
  BY DEF Touch
<1> HIDE DEF m
<1>6. m.kind \in Follows(link[s].kind)
  BY <1>1, <1>4 DEF Follows
<1>7. entries \in [Ids -> Entry] /\ Registered(entries)
  BY DEF Sound, FileInv, TypeOK
<1>8. CASE Refuse(s, "refused")
  BY <1>1, <1>2, <1>8, RefuseKeeps DEF Answers
<1>9. CASE Save(s, entries, m)
  BY <1>1, <1>2, <1>3, <1>4, <1>6, <1>7, <1>9, GrowsSame, SaveKeeps
<1> QED BY <1>5, <1>8, <1>9

\* A job, or nothing, for a poll; the registry is not involved.
LEMMA GrantKeeps == ASSUME Sound, NEW s \in Slots, Grant(s) PROVE Sound'
<1> DEFINE ok == Answer(link[s], "ok")
<1>1. /\ link[s].kind = "granting" /\ Reply(s, ok)
      /\ UNCHANGED <<memory, entries, file, client, told, faults>>
  BY DEF Grant
<1>2. link[s].kind \in Requests \cup Stages
  BY <1>1 DEF Stages
<1>3. /\ link[s] \in Message
      /\ s[2] = "live" => client[s[1]].pc \notin {"enrolling", "publishing"}
  BY <1>1, <1>2, Served DEF Awaited, Answers
<1>4. /\ ok \in Message /\ ok.kind = "ok" /\ ok.id = link[s].id /\ ok.nonce = 0
      /\ ok.kind \in Follows(link[s].kind) /\ ok.kind \notin Stages
  <2>1. "ok" \in Answers
    BY DEF Answers
  <2> QED BY <1>3, <2>1, Answering DEF Follows, Stages
<1> HIDE DEF ok
<1> QED BY <1>1, <1>2, <1>3, <1>4, ReplyKeeps

\* A token leads to the identity that its session is for.
LEMMA AuthenticateKeeps ==
  ASSUME Sound, NEW s \in Slots, NEW kind \in Requests \cup Stages,
         NEW next \in Stages \cap Follows(kind), Authenticate(s, kind, next)
  PROVE  Sound'
<1>1. link[s].kind = kind /\ UNCHANGED <<client, told>>
  BY DEF Authenticate
<1>2. link[s] \in Message
  BY <1>1, Served
<1>3. CASE Refuse(s, "unauthorized")
  BY <1>1, <1>3, RefuseKeeps DEF Answers
<1>4. ASSUME NEW i \in Authentic(link[s].nonce),
             Reply(s, [link[s] EXCEPT !.kind = next, !.id = i]),
             UNCHANGED <<memory, entries, file, faults>>
      PROVE  Sound'
  <2> DEFINE m == [link[s] EXCEPT !.kind = next, !.id = i]
             t == [id |-> i, nonce |-> link[s].nonce]
  <2>1. i \in Ids /\ t \in sessions
    BY <1>4 DEF Authentic
  <2>2. m \in Message /\ m.kind = next /\ m.id = i /\ m.nonce = link[s].nonce
    <3>1. next \in Stages
      OBVIOUS
    <3> QED BY <1>2, <2>1, <3>1 DEF Message
  <2>3. t.nonce = m.nonce /\ t.id = m.id
    BY <2>2
  <2>4. entries[m.id].known
    BY <2>1, <2>3 DEF Sound, Admitted
  <2>5. Reply(s, m) /\ m.kind # "ok"
    BY <1>4, <2>2 DEF Stages
  <2> HIDE DEF m, t
  <2> QED BY <1>1, <1>4, <2>1, <2>2, <2>3, <2>4, <2>5, ReplyKeeps
<1> QED BY <1>3, <1>4 DEF Authenticate

\* The three calls that check a session's token.
LEMMA AdmitKeeps == ASSUME Sound, NEW s \in Slots, Admit(s) PROVE Sound'
<1>1. /\ "publish" \in Stages \cap Follows("manifest") /\ "manifest" \in Requests
      /\ "touch" \in Stages \cap Follows("claim") /\ "claim" \in Requests
      /\ "granting" \in Stages \cap Follows("poll") /\ "poll" \in Stages
  BY DEF Stages, Follows, Requests
<1> QED BY <1>1, AuthenticateKeeps DEF Admit

\* Challenges and sessions: only their tables change.
LEMMA TablesKeep ==
  ASSUME Sound, NEW s \in Slots, NEW m \in Message,
         link[s].kind \in {"challenge", "session"}, m.kind \in Answers, Reply(s, m),
         UNCHANGED <<up, poison, entries, file, faults, client, told>>,
         OneEach(challenges'), OneEach(sessions'),
         \A t \in sessions' : \/ t \in sessions
                              \/ /\ t.nonce \notin InUse /\ t.id = link[s].id
                                 /\ entries[t.id].known,
         m.id = link[s].id, m.nonce = 0 \/ m.nonce \notin InUse
  PROVE  Sound'
<1>1. link[s].kind \in Requests \cup Stages /\ m.kind \in Follows(link[s].kind)
  BY DEF Requests, Follows
<1>2. s[2] = "live" => client[s[1]].pc \notin {"enrolling", "publishing"}
  BY <1>1, Served DEF Awaited, Answers
<1>3. Grows(file, file') /\ Grows(entries, entries')
  BY GrowsSame
<1>4. m.kind \notin Stages
  BY DEF Answers, Stages
<1>5. sessions' \subseteq Ticket
  BY DEF OneEach
<1>6. LinkInv' /\ link' \in [Slots -> Message]
  BY <1>1, <1>2, <1>3, <1>4, <1>5, ServedKeeps DEF Sound
<1>7. Admitted'
  <2>1. \A t \in sessions' : entries'[t.id].known
    BY DEF Sound, Admitted
  <2>2. m.kind # "publish"
    BY DEF Answers
  <2> QED BY <1>3, <2>1, <2>2, StillAdmitted
<1>8. Registered(file)' /\ Registered(entries)' /\ AnswersFromFile' /\ Asleep'
  BY DEF Sound, FileInv, Registered, AnswersFromFile, Asleep
<1>9. /\ file' \in [Ids -> Entry] /\ entries' \in [Ids -> Entry]
      /\ up' \in BOOLEAN /\ poison' \in BOOLEAN /\ faults' \in 0..MaxFaults
  BY DEF Sound, FileInv, TypeOK
<1> QED BY <1>3, <1>6, <1>7, <1>8, <1>9, Together

\* What an answer with a new nonce carries.
LEMMA WithNonce ==
  ASSUME NEW m \in Message, NEW n \in Nonces
  PROVE  /\ [m EXCEPT !.kind = "ok", !.nonce = n] \in Message
         /\ [m EXCEPT !.kind = "ok", !.nonce = n].kind = "ok"
         /\ [m EXCEPT !.kind = "ok", !.nonce = n].id = m.id
         /\ [m EXCEPT !.kind = "ok", !.nonce = n].nonce = n
BY DEF Message, Answers

\* A ticket takes the place of what its worker had.
LEMMA OneInPlace ==
  ASSUME NEW table, OneEach(table), NEW t \in Ticket
  PROVE  /\ OneEach({u \in table : u.id # t.id})
         /\ OneEach({u \in table : u.id # t.id} \cup {t})
BY DEF OneEach

\* A challenge replaces the one that its worker had, or finds no room.
LEMMA ChallengeKeeps == ASSUME Sound, NEW s \in Slots, Challenge(s) PROVE Sound'
<1> DEFINE i == link[s].id
           n == Fresh
           t == [id |-> i, nonce |-> n]
           m == [link[s] EXCEPT !.kind = "ok", !.nonce = n]
           r == Answer(link[s], "refused")
<1>1. link[s].kind = "challenge" /\ Unused # {} /\ UNCHANGED <<client, told>>
  BY DEF Challenge
<1>2. link[s].kind \in Requests \cup Stages
  BY <1>1 DEF Requests
<1>3. link[s] \in Message /\ i \in Ids
  BY <1>2, Served
<1>4. n \in Nonces /\ n \notin InUse
  BY <1>1, FreshIsNew
<1>5. t \in Ticket /\ t.id = i
  BY <1>3, <1>4 DEF Ticket
<1>6. m \in Message /\ m.kind = "ok" /\ m.id = link[s].id /\ m.nonce = n
  BY <1>3, <1>4, WithNonce
<1>7. r \in Message /\ r.kind = "refused" /\ r.id = link[s].id /\ r.nonce = 0
  BY <1>3, Answering DEF Answers
<1>8. OneEach(challenges) /\ OneEach(sessions)
  BY DEF Sound, FileInv, TypeOK
<1>9. OneEach(Outstanding(i)) /\ OneEach(Outstanding(i) \cup {t})
  BY <1>5, <1>8, OneInPlace DEF Outstanding
<1>10. \/ Refuse(s, "unavailable") \/ Refuse(s, "refused")
       \/ /\ challenges' = Outstanding(i) /\ Reply(s, r)
          /\ UNCHANGED <<up, poison, sessions, entries, file, faults>>
       \/ /\ challenges' = Outstanding(i) \cup {t} /\ Reply(s, m)
          /\ UNCHANGED <<up, poison, sessions, entries, file, faults>>
  BY DEF Challenge
<1>11. "ok" \in Answers /\ "refused" \in Answers /\ "unavailable" \in Answers
  BY DEF Answers
<1> HIDE DEF i, n, t, m, r
<1>12. CASE Refuse(s, "unavailable") \/ Refuse(s, "refused")
  BY <1>1, <1>2, <1>11, <1>12, RefuseKeeps
<1>13. CASE /\ challenges' = Outstanding(i) /\ Reply(s, r)
            /\ UNCHANGED <<up, poison, sessions, entries, file, faults>>
  BY <1>1, <1>7, <1>8, <1>9, <1>11, <1>13, TablesKeep
<1>14. CASE /\ challenges' = Outstanding(i) \cup {t} /\ Reply(s, m)
            /\ UNCHANGED <<up, poison, sessions, entries, file, faults>>
  BY <1>1, <1>4, <1>6, <1>8, <1>9, <1>11, <1>14, TablesKeep
<1> QED BY <1>10, <1>12, <1>13, <1>14

\* A proof spends its challenge; the session it earns has a nonce of its own.
LEMMA SessionKeeps == ASSUME Sound, NEW s \in Slots, Session(s) PROVE Sound'
<1> DEFINE i == link[s].id
           n == Fresh
           t == [id |-> i, nonce |-> n]
           m == [link[s] EXCEPT !.kind = "ok", !.nonce = n]
           r == Answer(link[s], "refused")
           spent == {u \in challenges : u.nonce = link[s].nonce}
<1>1. link[s].kind = "session" /\ Unused # {} /\ UNCHANGED <<client, told>>
  BY DEF Session
<1>2. link[s].kind \in Requests \cup Stages
  BY <1>1 DEF Requests
<1>3. link[s] \in Message /\ i \in Ids /\ s[1] \in Clients
  BY <1>2, Served
<1>4. n \in Nonces /\ n \notin InUse
  BY <1>1, FreshIsNew
<1>5. t \in Ticket /\ t.id = i /\ t.nonce = n
  BY <1>3, <1>4 DEF Ticket
<1>6. m \in Message /\ m.kind = "ok" /\ m.id = link[s].id /\ m.nonce = n
  BY <1>3, <1>4, WithNonce
<1>7. r \in Message /\ r.kind = "refused" /\ r.id = link[s].id /\ r.nonce = 0
  BY <1>3, Answering DEF Answers
<1>8. OneEach(challenges) /\ OneEach(sessions) /\ OneEach(challenges \ spent)
  BY DEF Sound, FileInv, TypeOK, OneEach
<1>9. Renewed(i, n) = {u \in sessions : u.id # t.id} \cup {t}
  BY <1>5 DEF Renewed
<1>10. OneEach(Renewed(i, n))
  <2>1. OneEach({u \in sessions : u.id # t.id} \cup {t})
    <3> HIDE DEF t
    <3> QED BY <1>5, <1>8, OneInPlace
  <2> QED BY <1>9, <2>1
<1>11. \/ Refuse(s, "unavailable")
       \/ /\ challenges' = challenges \ spent
          /\ UNCHANGED <<up, poison, entries, file, faults>>
          /\ \/ entries[i].key = s[1] /\ sessions' = Renewed(i, n) /\ Reply(s, m)
             \/ UNCHANGED sessions /\ Reply(s, r)
  BY DEF Session
<1>12. "ok" \in Answers /\ "refused" \in Answers /\ "unavailable" \in Answers
  BY DEF Answers
<1>13. i = link[s].id
  OBVIOUS
<1> HIDE DEF i, n, t, m, r, spent
<1>14. CASE Refuse(s, "unavailable")
  BY <1>1, <1>2, <1>12, <1>14, RefuseKeeps
<1>15. CASE /\ challenges' = challenges \ spent
            /\ UNCHANGED <<up, poison, entries, file, faults>>
            /\ entries[i].key = s[1] /\ sessions' = Renewed(i, n) /\ Reply(s, m)
  <2>1. entries[i].known
    BY <1>3, <1>15, RegistryAssumption DEF Sound, FileInv, Registered
  <2>2. \A u \in sessions' : \/ u \in sessions
                             \/ /\ u.nonce \notin InUse /\ u.id = link[s].id
                                /\ entries[u.id].known
    BY <1>4, <1>5, <1>9, <1>13, <1>15, <2>1
  <2>3. OneEach(challenges') /\ OneEach(sessions')
    BY <1>8, <1>10, <1>15
  <2> QED BY <1>1, <1>4, <1>6, <1>12, <1>15, <2>2, <2>3, TablesKeep
<1>16. CASE /\ challenges' = challenges \ spent
            /\ UNCHANGED <<up, poison, entries, file, faults>>
            /\ UNCHANGED sessions /\ Reply(s, r)
  BY <1>1, <1>7, <1>8, <1>12, <1>16, TablesKeep
<1> QED BY <1>11, <1>14, <1>15, <1>16

\* Whatever the registry does for a worker's request.
LEMMA ServeKeeps == ASSUME Sound, NEW s \in Slots, Serve(s) PROVE Sound'
BY EnrollKeeps, ChallengeKeeps, SessionKeeps, AdmitKeeps, PublishKeeps, TouchKeeps,
   GrantKeeps DEF Serve

-----------------------------------------------------------------------------
\* The control plane moves on without its workers: it remembers no session
\* that it did not have, and what is on file grows.
LEMMA AloneKeeps ==
  ASSUME Sound, UNCHANGED <<client, link>>, sessions' \subseteq sessions,
         Grows(file, file'), Grows(entries, entries')
  PROVE  LinkInv' /\ Admitted' /\ link' \in [Slots -> Message]
<1>1. Addressed' /\ link' \in [Slots -> Message]
  BY DEF Sound, FileInv, TypeOK, LinkInv, Addressed
<1>2. ASSUME NEW c \in Clients PROVE Waiting(c)' /\ Owned(c)' /\ Honest(c)'
  <2>1. Waiting(c) /\ Owned(c) /\ Honest(c)
    BY DEF Sound, LinkInv
  <2>2. Waiting(c)' /\ Owned(c)'
    BY <2>1 DEF Waiting, Owned, Live
  <2> QED BY <2>1, <2>2, StillHonest DEF Sound
<1>3. Admitted'
  <2>1. \A t \in sessions : t.id \in Ids
    BY DEF Sound, FileInv, TypeOK, OneEach, Ticket
  <2>2. \A s \in Slots : link[s].kind = "publish" => link[s].id \in Ids
    BY DEF Sound, LinkInv, Addressed, Stages
  <2> QED BY <2>1, <2>2 DEF Sound, Admitted, Grows
<1> QED BY <1>1, <1>2, <1>3 DEF LinkInv

\* A change that the operator asks for: what the operator is told is on file.
LEMMA OperatorKeeps ==
  ASSUME Sound, up,
         NEW new \in [Ids -> Entry], Registered(new), Grows(entries, new),
         UNCHANGED <<client, window>>,
         \/ Saved(new) /\ UNCHANGED link
         \/ SaveFails(new) /\ UNCHANGED link
         \/ SaveKilled(new),
         issued' \subseteq Ids, \A i \in issued' \ issued : file'[i].known,
         revokedTold' \subseteq Ids, \A i \in revokedTold' \ revokedTold : file'[i].revoked
  PROVE  Sound'
<1>1. /\ file' \in [Ids -> Entry] /\ entries' \in [Ids -> Entry]
      /\ Registered(file)' /\ Registered(entries)' /\ AnswersFromFile' /\ Asleep'
      /\ Grows(file, file')
      /\ up' \in BOOLEAN /\ poison' \in BOOLEAN
      /\ sessions' \in {sessions, {}} /\ challenges' \in {challenges, {}}
      /\ OneEach(sessions') /\ OneEach(challenges')
      /\ faults' \in 0..MaxFaults
  BY SaveOutcomes DEF Sound
<1>2. LinkInv' /\ Admitted' /\ link' \in [Slots -> Message]
  <2>1. CASE (Saved(new) \/ SaveFails(new)) /\ UNCHANGED link
    <3>1. entries' = new
      BY <2>1 DEF Saved, SaveFails
    <3> QED BY <1>1, <2>1, <3>1, AloneKeeps
  <2>2. CASE SaveKilled(new)
    BY <1>1, <2>2, DownKeeps DEF SaveKilled, Sound
  <2> QED BY <2>1, <2>2
<1>3. AcknowledgedStays'
  <2>1. issued \subseteq Ids /\ revokedTold \subseteq Ids /\ client \in [Clients -> Client]
    BY DEF Sound, FileInv, TypeOK
  <2>2. \A c \in Clients : client[c].enrolled \/ client[c].published => client[c].ident \in Ids
    BY <2>1 DEF Sound, LinkInv, Waiting, Client
  <2>3. \A c \in Clients : c # NoClient
    BY RegistryAssumption
  <2> QED BY <1>1, <2>1, <2>2, <2>3 DEF Sound, AcknowledgedStays, Grows
<1>4. TypeOK'
  BY <1>1, <1>2 DEF Sound, FileInv, TypeOK
<1> QED BY <1>1, <1>2, <1>3, <1>4 DEF Sound, FileInv

\* A token is shown only when its registration is on file.
LEMMA CreateKeeps == ASSUME Sound, NEW i \in Ids, Create(i) PROVE Sound'
<1> DEFINE new == [entries EXCEPT ![i] = [Unknown EXCEPT !.known = TRUE, !.open = TRUE]]
<1>1. /\ up /\ ~entries[i].known /\ UNCHANGED <<client, window, revokedTold>>
      /\ \/ Saved(new) /\ issued' \in {issued, issued \cup {i}} /\ UNCHANGED link
         \/ SaveFails(new) /\ UNCHANGED <<issued, link>>
         \/ SaveKilled(new) /\ UNCHANGED issued
  BY DEF Create, Known
<1>2. /\ new \in [Ids -> Entry] /\ Registered(new) /\ Grows(entries, new) /\ new[i].known
  BY <1>1, Created DEF Sound, FileInv, TypeOK
<1>3. issued \subseteq Ids /\ revokedTold \subseteq Ids
  BY DEF Sound, FileInv, TypeOK
<1> HIDE DEF new
<1>4. issued' \subseteq Ids /\ \A k \in issued' \ issued : file'[k].known
  BY <1>1, <1>2, <1>3 DEF Saved
<1>5. \/ Saved(new) /\ UNCHANGED link
      \/ SaveFails(new) /\ UNCHANGED link
      \/ SaveKilled(new)
  BY <1>1
<1>6. revokedTold' \subseteq Ids /\ revokedTold' \ revokedTold = {}
  BY <1>1, <1>3
<1>7. UNCHANGED <<client, window>>
  BY <1>1
<1> QED BY <1>1, <1>2, <1>4, <1>5, <1>6, <1>7, OperatorKeeps

\* A revocation is confirmed only when it is on file.
LEMMA RevokeKeeps == ASSUME Sound, NEW i \in Ids, Revoke(i) PROVE Sound'
<1> DEFINE new == [entries EXCEPT ![i] = [@ EXCEPT !.revoked = TRUE, !.open = FALSE]]
<1>1. /\ up /\ entries[i].known /\ UNCHANGED <<client, window, issued>>
      /\ \/ Saved(new) /\ revokedTold' = revokedTold \cup {i} /\ UNCHANGED link
         \/ SaveFails(new) /\ UNCHANGED <<revokedTold, link>>
         \/ SaveKilled(new) /\ UNCHANGED revokedTold
  BY DEF Revoke, Known
<1>2. /\ new \in [Ids -> Entry] /\ Registered(new) /\ Grows(entries, new) /\ new[i].revoked
  BY <1>1, Revoked DEF Sound, FileInv, TypeOK
<1>3. issued \subseteq Ids /\ revokedTold \subseteq Ids
  BY DEF Sound, FileInv, TypeOK
<1> HIDE DEF new
<1>4. revokedTold' \subseteq Ids /\ \A k \in revokedTold' \ revokedTold : file'[k].revoked
  BY <1>1, <1>2, <1>3 DEF Saved
<1>5. \/ Saved(new) /\ UNCHANGED link
      \/ SaveFails(new) /\ UNCHANGED link
      \/ SaveKilled(new)
  BY <1>1
<1>6. issued' \subseteq Ids /\ issued' \ issued = {}
  BY <1>1, <1>3
<1>7. UNCHANGED <<client, window>>
  BY <1>1
<1> QED BY <1>1, <1>2, <1>4, <1>5, <1>6, <1>7, OperatorKeeps

\* The process is killed or stopped, whatever it was about to do.
LEMMA StopKeeps == ASSUME Sound, Kill \/ OperatorStops PROVE Sound'
<1>1. Down /\ UNCHANGED <<file, client, told>>
  BY DEF Kill, OperatorStops
<1>2. faults' \in 0..MaxFaults
  BY FaultCounts DEF Kill, OperatorStops, Sound, FileInv, TypeOK
<1>3. Grows(file, file')
  BY <1>1, GrowsSame
<1>4. LinkInv' /\ Admitted' /\ link' \in [Slots -> Message]
  BY <1>1, <1>3, DownKeeps DEF Sound
<1>5. /\ up' = FALSE /\ poison' = FALSE /\ entries' = Empty
      /\ challenges' = {} /\ sessions' = {}
  BY <1>1 DEF Down
<1>6. /\ entries' \in [Ids -> Entry] /\ Registered(entries)'
      /\ AnswersFromFile' /\ Asleep' /\ OneEach(sessions') /\ OneEach(challenges')
  BY <1>5, EmptyRegistered DEF Registered, AnswersFromFile, Asleep, OneEach
<1>7. file' \in [Ids -> Entry] /\ Registered(file)'
  BY <1>1 DEF Sound, FileInv, TypeOK, Registered
<1> QED BY <1>1, <1>2, <1>3, <1>4, <1>5, <1>6, <1>7, Together

\* The process starts again with what is on file.
LEMMA OpenKeeps == ASSUME Sound, OpenWorkers PROVE Sound'
<1>1. /\ ~up /\ up' = TRUE /\ entries' = file
      /\ UNCHANGED <<poison, challenges, sessions, file, client, link, told, faults>>
  BY DEF OpenWorkers
<1>2. Grows(file, file')
  BY <1>1, GrowsSame
<1>3. Grows(entries, entries')
  BY <1>1 DEF Sound, FileInv, Asleep, Grows, Empty, Unknown
<1>4. LinkInv' /\ Admitted' /\ link' \in [Slots -> Message]
  BY <1>1, <1>2, <1>3, AloneKeeps
<1>5. /\ Registered(file)' /\ Registered(entries)' /\ AnswersFromFile' /\ Asleep'
      /\ file' \in [Ids -> Entry] /\ entries' \in [Ids -> Entry]
      /\ up' \in BOOLEAN /\ poison' \in BOOLEAN
      /\ OneEach(sessions') /\ OneEach(challenges') /\ faults' \in 0..MaxFaults
  BY <1>1 DEF Sound, FileInv, TypeOK, Registered, AnswersFromFile, Asleep
<1> QED BY <1>1, <1>2, <1>4, <1>5, Together

-----------------------------------------------------------------------------
\* A step of one worker's process, or of what is between it and the control
\* plane: the worker becomes x, waits for m, and the request it gave up, if
\* any, is one that was there.
LEMMA WorkerKeeps ==
  ASSUME Sound, NEW c \in Clients, NEW x \in Client, NEW m \in Message,
         client' = [client EXCEPT ![c] = x],
         NEW kept \in {link[Late(c)], link[Live(c)]},
         link' = [link EXCEPT ![Live(c)] = m, ![Late(c)] = kept],
         UNCHANGED <<memory, entries, file, told>>, faults' \in 0..MaxFaults,
         x.pc # "off" \/ x.enrolled => x.ident # 0,
         x.pc \in {"off", "enrolling"} => x.token = 0 /\ ~x.published,
         x.enrolled => file[x.ident].key = c,
         x.published => file[x.ident].manifest,
         m.kind \in Awaited(x.pc) \cap (Requests \cup {"none", "unavailable"}),
         m.kind # "none" => m.id = x.ident, m.kind = "none" => m.nonce = 0,
         \A t \in sessions : t.nonce \in {x.token, m.nonce} => t.id = x.ident
  PROVE  Sound'
<1>1. /\ up' = up /\ poison' = poison /\ entries' = entries /\ file' = file
      /\ sessions' = sessions /\ challenges' = challenges
      /\ window' = window /\ issued' = issued /\ revokedTold' = revokedTold
  BY DEF memory, told
<1>2. link \in [Slots -> Message] /\ client \in [Clients -> Client]
  BY DEF Sound, FileInv, TypeOK
<1>3. /\ Live(c) \in Slots /\ Late(c) \in Slots /\ Live(c) # Late(c)
      /\ \A d \in Clients \ {c} : Live(d) \notin {Live(c), Late(c)} /\ Live(d) \in Slots
  BY SlotParts DEF Live, Late
<1>4. /\ client' \in [Clients -> Client] /\ client'[c] = x
      /\ \A d \in Clients \ {c} : client'[d] = client[d]
  BY <1>2
<1>5. /\ link' \in [Slots -> Message] /\ link'[Live(c)] = m /\ link'[Late(c)] = kept
      /\ \A s \in Slots \ {Live(c), Late(c)} : link'[s] = link[s]
  BY <1>2, <1>3
<1>6. TypeOK'
  BY <1>1, <1>4, <1>5 DEF Sound, FileInv, TypeOK
<1>7. AnswersFromFile' /\ Asleep' /\ Registered(entries)' /\ Registered(file)'
  BY <1>1 DEF Sound, FileInv, AnswersFromFile, Asleep, Registered
<1>8. m.kind \in Requests \cup Stages => m.id \in Ids
  <2>1. m.kind \in Requests \cup Stages => m.kind # "none" /\ x.pc # "off"
    BY DEF Awaited, Requests, Stages
  <2> QED BY <2>1 DEF Client
<1>9. Addressed'
  <2>1. \A s \in {Live(c), Late(c)} : link[s].kind \in Requests \cup Stages => link[s].id \in Ids
    BY <1>3 DEF Sound, LinkInv, Addressed
  <2> QED BY <1>3, <1>5, <1>8, <2>1 DEF Sound, LinkInv, Addressed
<1>10. Waiting(c)' /\ Owned(c)' /\ Honest(c)'
  <2>1. Live(c)' = Live(c)
    BY DEF Live
  <2>2. Waiting(c)'
    BY <1>4, <1>5, <2>1 DEF Waiting
  <2>3. Owned(c)'
    BY <1>1, <1>4, <1>5, <2>1 DEF Owned
  <2>4. m.kind # "ok"
    BY DEF Requests
  <2> QED BY <1>5, <2>1, <2>2, <2>3, <2>4 DEF Honest
<1>11. ASSUME NEW d \in Clients \ {c} PROVE Waiting(d)' /\ Owned(d)' /\ Honest(d)'
  <2>1. link'[Live(d)] = link[Live(d)] /\ client'[d] = client[d] /\ Live(d)' = Live(d)
    BY <1>3, <1>4, <1>5 DEF Live
  <2>2. Waiting(d) /\ Owned(d) /\ Honest(d)
    BY DEF Sound, LinkInv
  <2>3. Waiting(d)'
    BY <2>1, <2>2 DEF Waiting
  <2>4. Owned(d)'
    BY <1>1, <2>1, <2>2 DEF Owned
  <2>5. Honest(d)'
    BY <1>1, <2>1, <2>2 DEF Honest
  <2> QED BY <2>3, <2>4, <2>5
<1>12. Admitted'
  <2>1. m.kind # "publish"
    BY DEF Requests
  <2> QED BY <1>1, <1>3, <1>5, <2>1 DEF Sound, Admitted
<1>13. AcknowledgedStays'
  BY <1>1, <1>4 DEF Sound, AcknowledgedStays
<1> QED BY <1>6, <1>7, <1>9, <1>10, <1>11, <1>12, <1>13 DEF Sound, FileInv, LinkInv

\* What is known of a worker's process.
LEMMA Standing ==
  ASSUME Sound, NEW c \in Clients
  PROVE  /\ client \in [Clients -> Client] /\ client[c] \in Client
         /\ link \in [Slots -> Message] /\ link[Live(c)] \in Message
         /\ Waiting(c) /\ Owned(c) /\ Honest(c)
         /\ \A t \in sessions : t.nonce # 0
         /\ client[c].enrolled => file[client[c].ident].key = c
         /\ client[c].published => file[client[c].ident].manifest
<1>1. link \in [Slots -> Message] /\ client \in [Clients -> Client]
  BY DEF Sound, FileInv, TypeOK
<1>2. \A t \in sessions : t.nonce # 0
  BY RegistryAssumption DEF Sound, FileInv, TypeOK, OneEach, Ticket
<1> QED BY <1>1, <1>2, SlotParts DEF Sound, LinkInv, AcknowledgedStays

\* A step of the worker's process that asks, hears or does neither.
LEMMA LocalKeeps ==
  ASSUME Sound, NEW c \in Clients, NEW x \in Client, NEW m \in Message,
         Becomes(c, x), Locally, link' = [link EXCEPT ![Live(c)] = m],
         x.pc # "off" \/ x.enrolled => x.ident # 0,
         x.pc \in {"off", "enrolling"} => x.token = 0 /\ ~x.published,
         x.enrolled => file[x.ident].key = c,
         x.published => file[x.ident].manifest,
         m.kind \in Awaited(x.pc) \cap (Requests \cup {"none", "unavailable"}),
         m.kind # "none" => m.id = x.ident, m.kind = "none" => m.nonce = 0,
         \A t \in sessions : t.nonce \in {x.token, m.nonce} => t.id = x.ident
  PROVE  Sound'
<1>1. link \in [Slots -> Message] /\ faults \in 0..MaxFaults
  BY DEF Sound, FileInv, TypeOK
<1>2. Live(c) # Late(c) /\ Live(c) \in Slots /\ Late(c) \in Slots
  BY SlotParts
<1>3. link' = [link EXCEPT ![Live(c)] = m, ![Late(c)] = link[Late(c)]]
  BY <1>1, <1>2
<1>4. faults' \in 0..MaxFaults /\ UNCHANGED <<memory, entries, file, told>>
  BY <1>1 DEF Locally
<1>5. client' = [client EXCEPT ![c] = x]
  BY DEF Becomes
<1> QED BY <1>3, <1>4, <1>5, WorkerKeeps

\* What a worker asks.
LEMMA Asked ==
  ASSUME NEW c \in Clients, NEW kind \in Requests, NEW n \in Nonces \cup {0},
         NEW x \in Client, client \in [Clients -> Client], Becomes(c, x), Ask(c, kind, n)
  PROVE  \E m \in Message :
           /\ link' = [link EXCEPT ![Live(c)] = m]
           /\ m.kind \in {kind, "unavailable"} /\ m.id = x.ident /\ m.nonce \in {0, n}
<1> DEFINE m == [kind |-> IF up THEN kind ELSE "unavailable",
                 id |-> x.ident, nonce |-> IF up THEN n ELSE 0]
<1>1. client'[c] = x
  BY DEF Becomes
<1>2. link' = [link EXCEPT ![Live(c)] = m]
  BY <1>1 DEF Ask
<1>3. m \in Message
  BY DEF Message, Client, Answers
<1>4. m.kind \in {kind, "unavailable"} /\ m.id = x.ident /\ m.nonce \in {0, n}
  OBVIOUS
<1> HIDE DEF m
<1> QED BY <1>2, <1>3, <1>4

\* Enrollment begins with the key on disk, and without a session.
LEMMA BeginKeeps == ASSUME Sound, NEW c \in Clients, BeginEnroll(c) PROVE Sound'
<1>1. PICK i \in issued : /\ client[c].ident \in {0, i}
                          /\ Becomes(c, Kept(c, i)) /\ Ask(c, "enroll", 0)
  BY DEF BeginEnroll
<1>2. client[c].pc = "off" /\ ~client[c].enrolled /\ Locally
  BY DEF BeginEnroll
<1> DEFINE x == Kept(c, i)
<1>3. i \in Ids /\ i # 0
  BY DEF Sound, FileInv, TypeOK, Ids
<1>4. /\ x \in Client /\ x.ident = i /\ x.pc = "enrolling" /\ ~x.enrolled
      /\ x.token = 0 /\ ~x.published
  BY <1>2, <1>3, Standing DEF Kept, Client, Waiting
<1>5. Becomes(c, x)
  BY <1>1
<1> HIDE DEF x
<1>6. "enroll" \in Requests /\ "enroll" \in Awaited("enrolling") /\ "unavailable" \in Awaited("enrolling")
  BY DEF Requests, Awaited, Answers
<1>7. PICK m \in Message : /\ link' = [link EXCEPT ![Live(c)] = m]
                           /\ m.kind \in {"enroll", "unavailable"} /\ m.id = x.ident
                           /\ m.nonce \in {0, 0}
  BY <1>1, <1>4, <1>5, <1>6, Asked, Standing
<1>8. \A t \in sessions : t.nonce \in {x.token, m.nonce} => t.id = x.ident
  BY <1>4, <1>7, Standing
<1> QED BY <1>2, <1>3, <1>4, <1>5, <1>6, <1>7, <1>8, LocalKeeps

\* Enrollment ends; who was told that it succeeded has its key on file.
LEMMA EndKeeps == ASSUME Sound, NEW c \in Clients, EndEnroll(c) PROVE Sound'
<1> DEFINE x == [client[c] EXCEPT !.pc = "off", !.enrolled = Succeeded(c)]
<1>1. /\ client[c].pc = "enrolling" /\ Becomes(c, x)
      /\ link' = [link EXCEPT ![Live(c)] = Quiet] /\ Locally
  BY DEF EndEnroll, Heard
<1>2. /\ x \in Client /\ x.ident = client[c].ident /\ x.pc = "off"
      /\ x.enrolled = Succeeded(c) /\ x.token = 0 /\ ~x.published
  BY <1>1, Standing DEF Client, Waiting, Off, Succeeded
<1>3. x.ident # 0
  BY <1>1, <1>2, Standing DEF Waiting
<1>4. x.enrolled => file[x.ident].key = c
  BY <1>1, <1>2, Standing DEF Honest, Succeeded
<1> HIDE DEF x
<1>5. /\ Quiet \in Message /\ Quiet.nonce = 0
      /\ Quiet.kind = "none" /\ "none" \in Awaited("off")
  BY DEF Quiet, Message, Awaited
<1>6. \A t \in sessions : t.nonce \in {x.token, Quiet.nonce} => t.id = x.ident
  BY <1>2, <1>5, Standing
<1> QED BY <1>1, <1>2, <1>3, <1>4, <1>5, <1>6, LocalKeeps

\* What a worker waits for while it is idle: nothing.
LEMMA IdleWaits ==
  ASSUME Sound, NEW c \in Clients, client[c].pc \in {"off", "idle"}
  PROVE  /\ link[Live(c)].kind = "none" /\ link[Live(c)].nonce = 0
         /\ link[Live(c)] \in Message
         /\ link = [link EXCEPT ![Live(c)] = link[Live(c)]]
<1>1. link[Live(c)].kind \in Awaited(client[c].pc)
  BY Standing DEF Waiting
<1> QED BY <1>1, Standing, SlotParts DEF Waiting, Awaited

\* A worker that is enrolled starts.
LEMMA StartKeeps == ASSUME Sound, NEW c \in Clients, Start(c) PROVE Sound'
<1> DEFINE x == [client[c] EXCEPT !.pc = "idle"]
           m == link[Live(c)]
<1>1. /\ client[c].pc = "off" /\ client[c].enrolled /\ Becomes(c, x)
      /\ UNCHANGED link /\ Locally
  BY DEF Start
<1>2. /\ x \in Client /\ x.ident = client[c].ident /\ x.pc = "idle"
      /\ x.enrolled = client[c].enrolled /\ x.token = 0 /\ ~x.published
  BY <1>1, Standing DEF Client, Waiting, Running
<1>3. x.ident # 0 /\ (x.enrolled => file[x.ident].key = c)
  BY <1>1, <1>2, Standing DEF Waiting
<1>4. /\ m.kind = "none" /\ m.nonce = 0 /\ m \in Message
      /\ link' = [link EXCEPT ![Live(c)] = m]
  BY <1>1, IdleWaits
<1> HIDE DEF x, m
<1>5. "none" \in Awaited("idle")
  BY DEF Awaited
<1>6. \A t \in sessions : t.nonce \in {x.token, m.nonce} => t.id = x.ident
  BY <1>2, <1>4, Standing
<1> QED BY <1>1, <1>2, <1>3, <1>4, <1>5, <1>6, LocalKeeps

\* A running worker that goes on to ask, whatever it asks.
LEMMA AskKeeps ==
  ASSUME Sound, NEW c \in Clients, client[c].pc \in Running,
         NEW pc \in Running, NEW kind \in Requests \cap Awaited(pc), NEW n \in Nonces \cup {0},
         Becomes(c, [client[c] EXCEPT !.pc = pc]), Ask(c, kind, n), Locally,
         "unavailable" \in Awaited(pc),
         \A t \in sessions : t.nonce = n => t.id = client[c].ident
  PROVE  Sound'
<1> DEFINE x == [client[c] EXCEPT !.pc = pc]
<1>1. /\ x \in Client /\ x.ident = client[c].ident /\ x.pc = pc
      /\ x.enrolled = client[c].enrolled /\ x.token = client[c].token
      /\ x.published = client[c].published
  BY Standing DEF Client
<1>2. Becomes(c, x) /\ pc \notin {"off", "enrolling"} /\ client[c].pc # "off"
  BY DEF Running
<1> HIDE DEF x
<1>3. x.ident # 0
  BY <1>1, <1>2, Standing DEF Waiting
<1>4. PICK m \in Message : /\ link' = [link EXCEPT ![Live(c)] = m]
                           /\ m.kind \in {kind, "unavailable"} /\ m.id = x.ident
                           /\ m.nonce \in {0, n}
  BY <1>1, <1>2, Asked, Standing
<1>5. m.kind \in Awaited(x.pc) \cap (Requests \cup {"none", "unavailable"})
  BY <1>1, <1>4
<1>6. m.kind # "none"
  BY <1>4 DEF Requests
<1>7. \A t \in sessions : t.nonce \in {x.token, m.nonce} => t.id = x.ident
  BY <1>1, <1>4, Standing DEF Owned
<1>8. /\ x.enrolled => file[x.ident].key = c
      /\ x.published => file[x.ident].manifest
  BY <1>1, Standing
<1> QED BY <1>1, <1>2, <1>3, <1>4, <1>5, <1>6, <1>7, <1>8, LocalKeeps

\* A worker asks for a challenge, or for work.
LEMMA AskingKeeps ==
  ASSUME Sound, NEW c \in Clients, AskChallenge(c) \/ AskWork(c)
  PROVE  Sound'
<1>1. client[c].pc = "idle" /\ Locally /\ "idle" \in Running
  BY DEF AskChallenge, AskWork, Running
<1>2. client[c].token \in Nonces \cup {0}
  BY Standing DEF Client
<1>3. \A t \in sessions : t.nonce = client[c].token => t.id = client[c].ident
  BY Standing DEF Owned
<1>4. \A t \in sessions : t.nonce # 0
  BY Standing
<1>5. /\ "challenging" \in Running /\ "challenge" \in Requests \cap Awaited("challenging")
      /\ "claiming" \in Running /\ "claim" \in Requests \cap Awaited("claiming")
      /\ "publishing" \in Running /\ "manifest" \in Requests \cap Awaited("publishing")
      /\ "unavailable" \in Awaited("challenging") /\ "unavailable" \in Awaited("claiming")
      /\ "unavailable" \in Awaited("publishing")
  BY DEF Running, Requests, Awaited, Answers
<1>6. CASE AskChallenge(c)
  <2>1. Becomes(c, [client[c] EXCEPT !.pc = "challenging"]) /\ Ask(c, "challenge", 0)
    BY <1>6 DEF AskChallenge
  <2> QED BY <1>1, <1>4, <1>5, <2>1, AskKeeps
<1>7. CASE /\ Becomes(c, [client[c] EXCEPT !.pc = "claiming"])
           /\ Ask(c, "claim", client[c].token)
  BY <1>1, <1>2, <1>3, <1>5, <1>7, AskKeeps
<1>8. CASE /\ Becomes(c, [client[c] EXCEPT !.pc = "publishing"])
           /\ Ask(c, "manifest", client[c].token)
  BY <1>1, <1>2, <1>3, <1>5, <1>8, AskKeeps
<1> QED BY <1>6, <1>7, <1>8 DEF AskWork

\* A worker hears how its request went.  A manifest that was accepted is on
\* file, and a session's nonce is for the identity of the worker.
LEMMA HearKeeps == ASSUME Sound, NEW c \in Clients, Hear(c) PROVE Sound'
<1>1. client[c].pc \in Running \ {"idle"} /\ Locally
  BY DEF Hear
<1>2. /\ Quiet \in Message /\ Quiet.nonce = 0
      /\ Quiet.kind = "none" /\ "none" \in Awaited("idle")
  BY DEF Quiet, Message, Awaited
<1>3. client[c].pc \notin {"off", "enrolling"} /\ "idle" \notin {"off", "enrolling"}
  BY <1>1 DEF Running
<1>4. client[c].ident # 0
  BY <1>3, Standing DEF Waiting
<1>5. ASSUME NEW x \in Client, Becomes(c, x), Heard(c), x.pc = "idle",
             x.ident = client[c].ident, x.enrolled = client[c].enrolled,
             x.token \in {0, client[c].token, link[Live(c)].nonce},
             x.published => client[c].published \/ file[client[c].ident].manifest
      PROVE  Sound'
  <2>1. link' = [link EXCEPT ![Live(c)] = Quiet]
    BY <1>5 DEF Heard
  <2>2. /\ x.enrolled => file[x.ident].key = c
        /\ x.published => file[x.ident].manifest
    BY <1>5, Standing
  <2>3. \A t \in sessions : t.nonce \in {x.token, Quiet.nonce} => t.id = x.ident
    BY <1>2, <1>5, Standing DEF Owned
  <2>4. Quiet.kind \in Awaited(x.pc) \cap (Requests \cup {"none", "unavailable"})
    BY <1>2, <1>5
  <2>5. /\ x.pc # "off" \/ x.enrolled => x.ident # 0
        /\ x.pc \in {"off", "enrolling"} => x.token = 0 /\ ~x.published
        /\ Quiet.kind # "none" => Quiet.id = x.ident
        /\ Quiet.kind = "none" => Quiet.nonce = 0
    BY <1>2, <1>3, <1>4, <1>5
  <2> QED BY <1>1, <1>2, <1>5, <2>1, <2>2, <2>3, <2>4, <2>5, LocalKeeps
<1>6. CASE Becomes(c, Failed(c)) /\ Heard(c)
  <2> DEFINE x == Failed(c)
  <2>1. /\ x \in Client /\ x.pc = "idle" /\ x.ident = client[c].ident
        /\ x.enrolled = client[c].enrolled /\ ~x.published
        /\ x.token \in {0, client[c].token}
    BY Standing DEF Failed, Client, Running
  <2>2. Becomes(c, x)
    BY <1>6
  <2> HIDE DEF x
  <2> QED BY <1>5, <1>6, <2>1, <2>2
<1>7. CASE /\ Becomes(c, [client[c] EXCEPT !.pc = "proving"])
           /\ Ask(c, "session", link[Live(c)].nonce)
  <2>1. /\ "proving" \in Running /\ "session" \in Requests \cap Awaited("proving")
        /\ "unavailable" \in Awaited("proving")
    BY DEF Running, Requests, Awaited, Answers
  <2>2. link[Live(c)].nonce \in Nonces \cup {0}
    BY Standing DEF Message
  <2>3. \A t \in sessions : t.nonce = link[Live(c)].nonce => t.id = client[c].ident
    BY Standing DEF Owned
  <2> QED BY <1>1, <1>7, <2>1, <2>2, <2>3, AskKeeps
<1>8. ASSUME Succeeded(c), Heard(c),
             Becomes(c, [client[c] EXCEPT !.pc = "idle",
                           !.token = IF client[c].pc = "proving"
                                     THEN link[Live(c)].nonce ELSE @,
                           !.published = @ \/ client[c].pc = "publishing"])
      PROVE  Sound'
  <2> DEFINE x == [client[c] EXCEPT !.pc = "idle",
                     !.token = IF client[c].pc = "proving" THEN link[Live(c)].nonce ELSE @,
                     !.published = @ \/ client[c].pc = "publishing"]
  <2>1. Becomes(c, x)
    BY <1>8
  <2>2. link[Live(c)].nonce \in Nonces \cup {0}
    BY Standing DEF Message
  <2>3. /\ x \in Client /\ x.pc = "idle" /\ x.ident = client[c].ident
        /\ x.enrolled = client[c].enrolled
        /\ x.token \in {client[c].token, link[Live(c)].nonce}
        /\ x.published => client[c].published \/ client[c].pc = "publishing"
    BY <2>2, Standing DEF Client, Running
  <2> HIDE DEF x
  <2>4. client[c].pc = "publishing" => file[client[c].ident].manifest
    BY <1>8, Standing DEF Honest, Succeeded
  <2> QED BY <1>5, <1>8, <2>1, <2>3, <2>4
<1> QED BY <1>6, <1>7, <1>8 DEF Hear

\* What is left of a request that its worker gave up.
LEMMA OrphanedKeeps ==
  ASSUME NEW c \in Clients, NEW m, Orphaned(c, m)
  PROVE  \E kept \in {link[Late(c)], link[Live(c)]} :
           link' = [link EXCEPT ![Live(c)] = m, ![Late(c)] = kept]
BY DEF Orphaned

\* A request times out or is lost.
LEMMA GiveUpKeeps == ASSUME Sound, NEW c \in Clients, GiveUp(c) PROVE Sound'
<1> DEFINE m == Answer(link[Live(c)], "unavailable")
           x == client[c]
<1>1. /\ link[Live(c)].kind # "none" /\ Orphaned(c, m) /\ client' = client
      /\ UNCHANGED <<memory, entries, file, told>>
  BY DEF GiveUp
<1>2. "unavailable" \in Answers
  BY DEF Answers
<1>3. /\ m \in Message /\ m.kind = "unavailable" /\ m.id = link[Live(c)].id /\ m.nonce = 0
  BY <1>2, Answering, Standing
<1>4. faults' \in 0..MaxFaults
  BY FaultCounts DEF GiveUp, Sound, FileInv
<1>5. x \in Client /\ client' = [client EXCEPT ![c] = x]
  BY <1>1, Standing
<1>6. x.pc \notin {"off", "idle"}
  BY <1>1, Standing DEF Waiting, Awaited
<1>7. m.kind \in Awaited(x.pc) \cap (Requests \cup {"none", "unavailable"})
  BY <1>2, <1>3, <1>6 DEF Awaited
<1>8. m.kind # "none" /\ m.id = x.ident
  BY <1>1, <1>3, Standing DEF Waiting
<1>9. /\ x.pc # "off" \/ x.enrolled => x.ident # 0
      /\ x.pc \in {"off", "enrolling"} => x.token = 0 /\ ~x.published
  BY Standing DEF Waiting
<1>10. /\ x.enrolled => file[x.ident].key = c
       /\ x.published => file[x.ident].manifest
  BY Standing
<1>11. \A t \in sessions : t.nonce \in {x.token, m.nonce} => t.id = x.ident
  BY <1>3, Standing DEF Owned
<1>12. PICK kept \in {link[Late(c)], link[Live(c)]} :
         link' = [link EXCEPT ![Live(c)] = m, ![Late(c)] = kept]
  BY <1>1, OrphanedKeeps
<1>13. m.kind = "none" => m.nonce = 0
  BY <1>3
<1>14. UNCHANGED <<memory, entries, file, told>>
  BY <1>1
<1>15. m \in Message /\ x \in Client
  BY <1>3, <1>5
<1> HIDE DEF m, x
<1> QED
  BY <1>4, <1>5, <1>7, <1>8, <1>9, <1>10, <1>11, <1>12, <1>13, <1>14, <1>15, WorkerKeeps

\* A worker's process ends; identity.json is left.
LEMMA CrashKeeps == ASSUME Sound, NEW c \in Clients, Crash(c) PROVE Sound'
<1> DEFINE x == [client[c] EXCEPT !.pc = "off", !.token = 0, !.published = FALSE]
<1>1. /\ client[c].pc # "off" /\ Orphaned(c, Quiet) /\ Becomes(c, x)
      /\ UNCHANGED <<memory, entries, file, told>>
  BY DEF Crash
<1>2. /\ Quiet \in Message /\ Quiet.nonce = 0
      /\ Quiet.kind = "none" /\ "none" \in Awaited("off")
  BY DEF Quiet, Message, Awaited
<1>3. faults' \in 0..MaxFaults
  BY FaultCounts DEF Crash, Sound, FileInv
<1>4. /\ x \in Client /\ x.ident = client[c].ident /\ x.pc = "off"
      /\ x.enrolled = client[c].enrolled /\ x.token = 0 /\ ~x.published
  BY Standing DEF Client, Off
<1>5. client' = [client EXCEPT ![c] = x]
  BY <1>1 DEF Becomes
<1> HIDE DEF x
<1>6. x.ident # 0 /\ (x.enrolled => file[x.ident].key = c)
  BY <1>1, <1>4, Standing DEF Waiting
<1>7. \A t \in sessions : t.nonce \in {x.token, Quiet.nonce} => t.id = x.ident
  BY <1>2, <1>4, Standing
<1>8. PICK kept \in {link[Late(c)], link[Live(c)]} :
        link' = [link EXCEPT ![Live(c)] = Quiet, ![Late(c)] = kept]
  BY <1>1, OrphanedKeeps
<1> QED BY <1>1, <1>2, <1>3, <1>4, <1>5, <1>6, <1>7, <1>8, WorkerKeeps

-----------------------------------------------------------------------------
\* The token's time passes.
LEMMA CloseKeeps == ASSUME Sound, NEW i \in Ids, CloseWindow(i) PROVE Sound'
<1>1. /\ window' = window \ {i}
      /\ UNCHANGED <<memory, entries, file, client, link, issued, revokedTold, faults>>
  BY DEF CloseWindow
<1>2. /\ sessions' \subseteq sessions /\ Grows(file, file') /\ Grows(entries, entries')
      /\ UNCHANGED <<client, link>>
  BY <1>1, GrowsSame DEF memory
<1>3. LinkInv' /\ Admitted'
  BY <1>2, AloneKeeps
<1>4. TypeOK'
  BY <1>1 DEF Sound, FileInv, TypeOK, memory
<1>5. AnswersFromFile' /\ Asleep' /\ Registered(entries)' /\ Registered(file)'
  BY <1>1 DEF Sound, FileInv, AnswersFromFile, Asleep, Registered, memory
<1>6. AcknowledgedStays'
  BY <1>1 DEF Sound, AcknowledgedStays
<1> QED BY <1>3, <1>4, <1>5, <1>6 DEF Sound, FileInv

\* A challenge, a session, or the worker's own count of its session ends.
LEMMA ExpireKeeps == ASSUME Sound, Expire PROVE Sound'
<1>1. UNCHANGED <<up, poison, entries, file, link, told>>
  BY DEF Expire
<1>2. faults' \in 0..MaxFaults
  BY FaultCounts DEF Expire, Sound, FileInv
<1>3. OneEach(challenges) /\ OneEach(sessions)
  BY DEF Sound, FileInv, TypeOK
<1>4. ASSUME UNCHANGED client, challenges' \subseteq challenges, sessions' \subseteq sessions
      PROVE  Sound'
  <2>1. /\ Grows(file, file') /\ Grows(entries, entries')
        /\ UNCHANGED <<client, link>> /\ UNCHANGED <<client, told>>
    BY <1>1, <1>4, GrowsSame
  <2>2. LinkInv' /\ Admitted' /\ link' \in [Slots -> Message]
    BY <1>4, <2>1, AloneKeeps
  <2>3. OneEach(challenges') /\ OneEach(sessions')
    BY <1>3, <1>4 DEF OneEach
  <2>4. /\ Registered(file)' /\ Registered(entries)' /\ AnswersFromFile' /\ Asleep'
        /\ file' \in [Ids -> Entry] /\ entries' \in [Ids -> Entry]
        /\ up' \in BOOLEAN /\ poison' \in BOOLEAN
    BY <1>1 DEF Sound, FileInv, TypeOK, Registered, AnswersFromFile, Asleep
  <2> QED BY <1>2, <2>1, <2>2, <2>3, <2>4, Together
<1>5. ASSUME NEW c \in Clients, client[c].pc = "idle",
             Becomes(c, [client[c] EXCEPT !.token = 0]), UNCHANGED <<challenges, sessions>>
      PROVE  Sound'
  <2> DEFINE x == [client[c] EXCEPT !.token = 0]
             m == link[Live(c)]
  <2>1. /\ x \in Client /\ x.pc = "idle" /\ x.ident = client[c].ident /\ x.token = 0
        /\ x.enrolled = client[c].enrolled /\ x.published = client[c].published
    BY <1>5, Standing DEF Client
  <2>2. m.kind = "none" /\ m.nonce = 0 /\ m \in Message
    BY <1>5, IdleWaits
  <2>3. link' = [link EXCEPT ![Live(c)] = m, ![Late(c)] = link[Late(c)]]
    BY <1>1, Standing, SlotParts
  <2>4. client' = [client EXCEPT ![c] = x]
    BY <1>5 DEF Becomes
  <2> HIDE DEF x, m
  <2>5. /\ x.pc \notin {"off", "enrolling"} /\ x.ident # 0
        /\ "none" \in Awaited(x.pc)
    BY <1>5, <2>1, Standing DEF Waiting, Awaited
  <2>6. x.enrolled => file[x.ident].key = c
    BY <2>1, Standing
  <2>7. x.published => file[x.ident].manifest
    BY <2>1, Standing
  <2>8. \A t \in sessions : t.nonce \in {x.token, m.nonce} => t.id = x.ident
    BY <2>1, <2>2, Standing
  <2>9. UNCHANGED <<memory, entries, file, told>>
    BY <1>1, <1>5 DEF memory
  <2>10. m.kind \in Awaited(x.pc) \cap (Requests \cup {"none", "unavailable"})
    BY <2>2, <2>5
  <2>11. x.pc \in {"off", "enrolling"} => x.token = 0 /\ ~x.published
    BY <2>5
  <2>12. m.kind # "none" => m.id = x.ident
    BY <2>2
  <2>13. x \in Client /\ m \in Message /\ x.ident # 0 /\ (m.kind = "none" => m.nonce = 0)
    BY <2>1, <2>2, <2>5
  <2> QED
    BY <1>2, <2>3, <2>4, <2>6, <2>7, <2>8, <2>9, <2>10, <2>11, <2>12, <2>13, WorkerKeeps
<1>6. \/ UNCHANGED client /\ challenges' \subseteq challenges /\ sessions' \subseteq sessions
      \/ \E c \in Clients : /\ client[c].pc = "idle"
                            /\ Becomes(c, [client[c] EXCEPT !.token = 0])
                            /\ UNCHANGED <<challenges, sessions>>
  BY DEF Expire
<1> QED BY <1>4, <1>5, <1>6

-----------------------------------------------------------------------------
\* The invariant holds at first.
LEMMA SoundAtFirst == ASSUME Init PROVE Sound
<1>1. /\ Empty \in [Ids -> Entry] /\ Registered(Empty)
      /\ Quiet \in Message /\ Quiet.kind = "none" /\ Quiet.nonce = 0
  BY EmptyRegistered DEF Quiet, Message
<1>2. TypeOK
  <2>1. client \in [Clients -> Client]
    BY DEF Init, Client, Off
  <2>2. 0 \in 0..MaxFaults
    BY RegistryAssumption
  <2> QED BY <1>1, <2>1, <2>2 DEF Init, TypeOK, OneEach
<1>3. FileInv
  BY <1>1, <1>2 DEF Init, FileInv, AnswersFromFile, Asleep
<1>4. LinkInv
  <2>1. Addressed
    BY <1>1 DEF Init, Addressed, Requests, Stages
  <2>2. ASSUME NEW c \in Clients PROVE Waiting(c) /\ Owned(c) /\ Honest(c)
    <3>1. link[Live(c)] = Quiet /\ client[c].pc = "off" /\ ~client[c].enrolled
          /\ client[c].token = 0 /\ ~client[c].published /\ sessions = {}
      BY SlotParts DEF Init
    <3> QED BY <1>1, <3>1 DEF Waiting, Owned, Honest, Awaited
  <2> QED BY <2>1, <2>2 DEF LinkInv
<1>5. Admitted /\ AcknowledgedStays
  BY <1>1 DEF Init, Admitted, AcknowledgedStays
<1> QED BY <1>3, <1>4, <1>5 DEF Sound

\* Every step keeps it.
LEMMA SoundIsKept == ASSUME Sound, [Next]_vars PROVE Sound'
<1>1. CASE Kill \/ OperatorStops
  BY <1>1, StopKeeps
<1>2. CASE OpenWorkers
  BY <1>2, OpenKeeps
<1>3. CASE Expire
  BY <1>3, ExpireKeeps
<1>4. ASSUME NEW i \in Ids, Create(i) \/ Revoke(i) \/ CloseWindow(i) PROVE Sound'
  BY <1>4, CreateKeeps, RevokeKeeps, CloseKeeps
<1>5. ASSUME NEW s \in Slots, Serve(s) PROVE Sound'
  BY <1>5, ServeKeeps
<1>6. ASSUME NEW c \in Clients, ClientStep(c) PROVE Sound'
  BY <1>6, BeginKeeps, EndKeeps, AskingKeeps, HearKeeps DEF ClientStep
<1>7. ASSUME NEW c \in Clients, Start(c) \/ GiveUp(c) \/ Crash(c) PROVE Sound'
  BY <1>7, StartKeeps, GiveUpKeeps, CrashKeeps
<1>8. CASE UNCHANGED vars
  <2>1. /\ UNCHANGED <<memory, entries, file, told, faults>>
        /\ UNCHANGED <<client, told>> /\ UNCHANGED <<client, link>>
        /\ sessions' \subseteq sessions /\ Grows(file, file') /\ Grows(entries, entries')
    BY <1>8, GrowsSame DEF vars, memory
  <2>2. LinkInv' /\ Admitted' /\ link' \in [Slots -> Message]
    BY <2>1, AloneKeeps
  <2>3. /\ Registered(file)' /\ Registered(entries)' /\ AnswersFromFile' /\ Asleep'
        /\ file' \in [Ids -> Entry] /\ entries' \in [Ids -> Entry]
        /\ up' \in BOOLEAN /\ poison' \in BOOLEAN
        /\ OneEach(sessions') /\ OneEach(challenges') /\ faults' \in 0..MaxFaults
    BY <2>1 DEF Sound, FileInv, TypeOK, Registered, AnswersFromFile, Asleep, memory
  <2> QED BY <2>1, <2>2, <2>3, Together
<1> QED BY <1>1, <1>2, <1>3, <1>4, <1>5, <1>6, <1>7, <1>8 DEF Next

\* The invariant of every behaviour.
THEOREM AlwaysSound == Spec => []Sound
<1>1. Init => Sound
  BY SoundAtFirst
<1>2. Sound /\ [Next]_vars => Sound'
  BY SoundIsKept
<1> QED BY <1>1, <1>2, PTL DEF Spec

\* The state has its type: among others, a worker has at most one challenge
\* and one session (workers.go:251-255, 283-287).
THEOREM RegistryTypes == Spec => []TypeOK
<1>1. Sound => TypeOK
  BY DEF Sound, FileInv
<1> QED BY <1>1, AlwaysSound, PTL

\* While the registry answers, what it answers from is on file, whatever
\* saves failed before (workers.go:125-134).
THEOREM RegistryAnswersFromFile == Spec => []AnswersFromFile
<1>1. Sound => AnswersFromFile
  BY DEF Sound, FileInv
<1> QED BY <1>1, AlwaysSound, PTL

\* What a worker or the operator was told stays on file, for any number of
\* machines, registrations and faults (workers.go:157-161, 212-215, 235-238).
THEOREM RegistryKeepsWord == Spec => []AcknowledgedStays
<1>1. Sound => AcknowledgedStays
  BY DEF Sound
<1> QED BY <1>1, AlwaysSound, PTL

-----------------------------------------------------------------------------
\* A broken request has no answer but that it failed.
LEMMA BrokenFails ==
  ASSUME Sound, Down, NEW s \in Slots, link[s].kind \in Requests \cup Stages
  PROVE  link'[s].kind \in {"none", "unavailable"}
<1>1. link'[s] = Broken(s) /\ link[s] \in Message
  BY DEF Down, Sound, FileInv, TypeOK
<1>2. Answer(link[s], "unavailable").kind = "unavailable"
  BY <1>1, Answering DEF Answers
<1> QED BY <1>1, <1>2 DEF Broken, Quiet

\* A reply disturbs no other request.
LEMMA RepliedAlone ==
  ASSUME Sound, NEW r \in Slots, NEW m, Reply(r, m)
  PROVE  \A s \in Slots \ {r} : link'[s] = link[s]
BY DEF Reply, Sound, FileInv, TypeOK

\* A call of the registry replies to its own request, or breaks all of them.
LEMMA ServedAlone ==
  ASSUME Sound, NEW r \in Slots, Serve(r)
  PROVE  Down \/ \A s \in Slots \ {r} : link'[s] = link[s]
<1>1. ASSUME NEW new, NEW m, Save(r, new, m)
      PROVE  Down \/ \A s \in Slots \ {r} : link'[s] = link[s]
  BY <1>1, RepliedAlone DEF Save, SaveKilled
<1>2. ASSUME NEW kind, Refuse(r, kind) PROVE \A s \in Slots \ {r} : link'[s] = link[s]
  BY <1>2, RepliedAlone DEF Refuse
<1>3. CASE Enroll(r)
  BY <1>1, <1>2, <1>3, RepliedAlone DEF Enroll
<1>4. CASE Challenge(r)
  BY <1>2, <1>4, RepliedAlone DEF Challenge
<1>5. CASE Session(r)
  BY <1>2, <1>5, RepliedAlone DEF Session
<1>6. CASE Admit(r)
  BY <1>2, <1>6, RepliedAlone DEF Admit, Authenticate
<1>7. CASE Publish(r)
  BY <1>1, <1>2, <1>7 DEF Publish
<1>8. CASE Touch(r)
  BY <1>1, <1>2, <1>8 DEF Touch
<1>9. CASE Grant(r)
  BY <1>9, RepliedAlone DEF Grant
<1> QED BY <1>3, <1>4, <1>5, <1>6, <1>7, <1>8, <1>9 DEF Serve

\* A request that is under way is served, or stays, or fails.
LEMMA Undisturbed ==
  ASSUME Sound, [Next]_vars, NEW s \in Slots, link[s].kind \in Requests \cup Stages
  PROVE  \/ Serve(s) \/ link'[s] = link[s]
         \/ link'[s].kind \in {"none", "unavailable"}
<1>1. CASE Down
  BY <1>1, BrokenFails
<1>2. ASSUME NEW r \in Slots, Serve(r), r # s, ~Down PROVE link'[s] = link[s]
  BY <1>2, ServedAlone
<1>3. ASSUME NEW i \in Ids, Create(i) \/ Revoke(i), ~Down PROVE link' = link
  BY <1>3 DEF Create, Revoke, SaveKilled
<1>4. ASSUME NEW c \in Clients, ClientStep(c) \/ Start(c) PROVE link'[s] = link[s]
  <2>1. link \in [Slots -> Message] /\ Live(c) \in Slots
    BY SlotParts DEF Sound, FileInv, TypeOK
  <2>2. \/ link' = link
        \/ \E m : link' = [link EXCEPT ![Live(c)] = m]
    BY <1>4 DEF ClientStep, Start, BeginEnroll, EndEnroll, AskChallenge, AskWork, Hear, Ask, Heard
  <2>3. link' # link => client[c].pc \in {"off", "idle"} \/ Answered(c)
    BY <1>4 DEF ClientStep, Start, BeginEnroll, EndEnroll, AskChallenge, AskWork, Hear
  <2>4. client[c].pc \in {"off", "idle"} => link[Live(c)].kind = "none"
    BY IdleWaits
  <2>5. link' # link => s # Live(c)
    BY <2>3, <2>4 DEF Answered, Requests, Stages, Answers
  <2> QED BY <2>1, <2>2, <2>5
<1>5. ASSUME NEW c \in Clients, GiveUp(c) \/ Crash(c)
      PROVE  link'[s] = link[s] \/ link'[s].kind \in {"none", "unavailable"}
  <2>1. link \in [Slots -> Message] /\ Live(c) \in Slots /\ Late(c) \in Slots /\ Live(c) # Late(c)
    BY SlotParts DEF Sound, FileInv, TypeOK
  <2>2. PICK m : /\ Orphaned(c, m)
                 /\ m \in {Quiet, Answer(link[Live(c)], "unavailable")}
    BY <1>5 DEF GiveUp, Crash
  <2>3. m.kind \in {"none", "unavailable"}
    BY <2>1, <2>2, Answering DEF Quiet, Answers
  <2>4. PICK kept \in {link[Late(c)], link[Live(c)]} :
          /\ kept # link[Late(c)] => link[Late(c)] = Quiet
          /\ link' = [link EXCEPT ![Live(c)] = m, ![Late(c)] = kept]
    BY <2>2 DEF Orphaned
  <2>5. Quiet.kind \notin Requests \cup Stages
    BY DEF Quiet, Requests, Stages
  <2> QED BY <2>1, <2>3, <2>4, <2>5
<1>6. ASSUME OpenWorkers \/ Expire \/ (\E i \in Ids : CloseWindow(i)) PROVE link' = link
  BY <1>6 DEF OpenWorkers, Expire, CloseWindow
<1>7. Kill \/ OperatorStops => Down
  BY DEF Kill, OperatorStops
<1>8. UNCHANGED vars => link' = link
  BY DEF vars
<1> QED BY <1>1, <1>2, <1>3, <1>4, <1>5, <1>6, <1>7, <1>8 DEF Next

-----------------------------------------------------------------------------
\* What a reply or a refusal makes of its request.
LEMMA ReplyReads ==
  ASSUME Sound, NEW s \in Slots
  PROVE  /\ \A m : Reply(s, m) => link'[s] \in {m, Quiet}
         /\ \A kind \in Answers : Refuse(s, kind) => link'[s].kind \in {kind, "none"}
<1>1. link \in [Slots -> Message] /\ link[s] \in Message
  BY DEF Sound, FileInv, TypeOK
<1>2. ASSUME NEW m, Reply(s, m) PROVE link'[s] \in {m, Quiet}
  BY <1>1, <1>2 DEF Reply
<1>3. ASSUME NEW kind \in Answers, Refuse(s, kind) PROVE link'[s].kind \in {kind, "none"}
  BY <1>1, <1>2, <1>3, Answering DEF Refuse, Quiet
<1> QED BY <1>2, <1>3

\* A request that goes on after a save goes on because it was saved.
LEMMA SavedPasses ==
  ASSUME Sound, NEW s \in Slots, link[s].kind \in Requests \cup Stages,
         NEW new, NEW m, Save(s, new, m), link'[s].kind \in {"ok"} \cup Stages
  PROVE  ~poison /\ link'[s] = m
<1>1. "unavailable" \in Answers /\ Quiet.kind = "none"
  BY DEF Answers, Quiet
<1>2. {"none", "unavailable"} \cap ({"ok"} \cup Stages) = {}
  BY DEF Stages
<1>3. Answer(link[s], "unavailable").kind = "unavailable"
  BY <1>1, Answering DEF Sound, FileInv, TypeOK
<1>4. ~SaveKilled(new)
  BY <1>2, BrokenFails DEF SaveKilled
<1>5. ~Reply(s, Answer(link[s], "unavailable"))
  BY <1>1, <1>2, <1>3, ReplyReads
<1> QED BY <1>1, <1>2, <1>4, <1>5, ReplyReads DEF Save, Saved

\* What a request is refused for, it does not pass with.
LEMMA RefusedStays ==
  ASSUME Sound, NEW s \in Slots, NEW kind \in Answers \ {"ok"}, Refuse(s, kind)
  PROVE  link'[s].kind \notin {"ok"} \cup Stages
BY ReplyReads DEF Answers, Stages

\* Every call that a request passes has looked at the registration on file.
LEMMA PassesUnrevoked ==
  ASSUME Sound, NEW s \in Slots, Serve(s), link[s].kind # "granting",
         link'[s].kind \in {"ok"} \cup Stages
  PROVE  ~file[link'[s].id].revoked
<1>1. up /\ (~poison => entries = file)
  BY DEF Serve, Enroll, Challenge, Session, Admit, Authenticate, Publish, Touch, Grant,
         Sound, FileInv, AnswersFromFile
<1>2. \A kind \in {"refused", "unauthorized", "unavailable"} : ~Refuse(s, kind)
  BY RefusedStays DEF Answers
<1>3. link[s] \in Message /\ "ok" \in Answers /\ "refused" \in Answers /\ Quiet.kind \notin {"ok"} \cup Stages
  BY DEF Sound, FileInv, TypeOK, Answers, Stages, Quiet
<1>4. \A m : Reply(s, m) => link'[s] = m
  BY <1>3, ReplyReads
<1>5. \A kind \in {"ok", "refused"} : /\ Answer(link[s], kind).kind = kind
                                      /\ Answer(link[s], kind).id = link[s].id
  BY <1>3, Answering
<1>6. ~Reply(s, Answer(link[s], "refused"))
  BY <1>4, <1>5 DEF Stages
<1>7. Unused # {} => /\ [link[s] EXCEPT !.kind = "ok", !.nonce = Fresh].id = link[s].id
  BY <1>3, FreshIsNew, WithNonce
<1>8. ASSUME NEW new, NEW m, Save(s, new, m), link[s].kind \in Requests \cup Stages
      PROVE  ~poison /\ link'[s] = m
  BY <1>8, SavedPasses
<1>9. CASE Enroll(s)
  <2>1. link[s].kind \in Requests \cup Stages
    BY <1>9 DEF Enroll, Requests
  <2> QED BY <1>1, <1>2, <1>4, <1>5, <1>8, <1>9, <2>1 DEF Enroll
<1>10. CASE Challenge(s)
  BY <1>1, <1>2, <1>4, <1>6, <1>7, <1>10 DEF Challenge
<1>11. CASE Session(s)
  BY <1>1, <1>2, <1>4, <1>6, <1>7, <1>11 DEF Session
<1>12. CASE Admit(s)
  <2>1. PICK i \in Authentic(link[s].nonce), kind \in Stages :
          Reply(s, [link[s] EXCEPT !.kind = kind, !.id = i])
    BY <1>2, <1>12 DEF Admit, Authenticate, Stages
  <2>2. i \in Ids /\ ~poison /\ ~entries[i].revoked
    BY DEF Authentic
  <2>3. [link[s] EXCEPT !.kind = kind, !.id = i].id = i
    BY <1>3, <2>2 DEF Message
  <2> QED BY <1>1, <1>4, <2>1, <2>2, <2>3
<1>13. CASE Publish(s)
  <2>1. link[s].kind \in Requests \cup Stages
    BY <1>13 DEF Publish, Stages
  <2>2. ~entries[link[s].id].revoked /\ link'[s] = Answer(link[s], "ok") /\ ~poison
    BY <1>2, <1>8, <1>13, <2>1 DEF Publish
  <2> QED BY <1>1, <1>5, <2>2
<1>14. CASE Touch(s)
  <2>1. link[s].kind \in Requests \cup Stages /\ "poll" \in Stages
    BY <1>14 DEF Touch, Stages
  <2>2. ~entries[link[s].id].revoked /\ link'[s] = [link[s] EXCEPT !.kind = "poll"] /\ ~poison
    BY <1>2, <1>8, <1>14, <2>1 DEF Touch
  <2> QED BY <1>1, <1>3, <2>1, <2>2 DEF Message
<1> QED BY <1>9, <1>10, <1>11, <1>12, <1>13, <1>14 DEF Serve, Grant

\* A worker's revocation, once told, blocks all of its requests but a poll
\* that was let in before (workers.go:205-216, 246, 279, 300).
THEOREM RevocationHolds == Spec => RevocationBlocks
<1> DEFINE A == \A s \in Slots : Passes(s) => link'[s].id \notin revokedTold
<1>1. Sound /\ [Next]_vars => [A]_vars
  <2> SUFFICES ASSUME Sound, [Next]_vars, NEW s \in Slots, Passes(s)
               PROVE  link'[s].id \notin revokedTold
    OBVIOUS
  <2>1. /\ link'[s] # link[s] /\ link[s].kind \in Requests \cup Stages
        /\ link[s].kind # "granting" /\ link'[s].kind \in {"ok"} \cup Stages
    BY DEF Passes
  <2>2. {"none", "unavailable"} \cap ({"ok"} \cup Stages) = {}
    BY DEF Stages
  <2>3. Serve(s)
    BY <2>1, <2>2, Undisturbed
  <2>4. ~file[link'[s].id].revoked
    BY <2>1, <2>3, PassesUnrevoked
  <2> QED BY <2>4 DEF Sound, AcknowledgedStays
<1> QED BY <1>1, AlwaysSound, PTL DEF Spec, RevocationBlocks

-----------------------------------------------------------------------------
\* A table has room for everybody: without one worker's entry it is not full.
LEMMA Room ==
  ASSUME NEW table, OneEach(table), NEW i \in Ids
  PROVE  /\ Cardinality({t \in table : t.id # i}) \in Nat
         /\ Cardinality({t \in table : t.id # i}) < MaxEntries
<1> DEFINE T == {t \in table : t.id # i}
           f == [t \in T |-> t.id]
<1>1. IsFiniteSet(Ids) /\ Cardinality(Ids) = MaxEntries /\ MaxEntries \in Nat \ {0}
  BY RegistryAssumption, FS_Interval DEF Ids
<1>2. IsFiniteSet(Ids \ {i}) /\ Cardinality(Ids \ {i}) = MaxEntries - 1
  BY <1>1, FS_RemoveElement
<1>3. f \in Injection(T, Ids \ {i})
  BY DEF OneEach, Ticket, Injection, IsInjective
<1> HIDE DEF f, T
<1>4. Cardinality(T) <= MaxEntries - 1 /\ IsFiniteSet(T)
  BY <1>2, <1>3, FS_Injection
<1>5. Cardinality(T) \in Nat
  BY <1>4, FS_CardinalityType
<1>6. Cardinality(T) < MaxEntries
  BY <1>1, <1>4, <1>5
<1> QED BY <1>5, <1>6 DEF T

\* A worker that may sign in is never told that the table of challenges is
\* full (workers.go:147, 251-258).
THEOREM NeverTurnedAway == Spec => NeverBusy
<1> DEFINE A == \A s \in Slots :
                  link[s].kind = "challenge" /\ link'[s].kind = "refused" =>
                    entries[link[s].id].revoked \/ entries[link[s].id].key = NoClient
<1>1. Sound /\ [Next]_vars => [A]_vars
  <2> SUFFICES ASSUME Sound, [Next]_vars, NEW s \in Slots,
                      link[s].kind = "challenge", link'[s].kind = "refused"
               PROVE  entries[link[s].id].revoked \/ entries[link[s].id].key = NoClient
    OBVIOUS
  <2>1. link[s].kind \in Requests \cup Stages /\ "unavailable" \in Answers
    BY DEF Requests, Answers
  <2>2. Serve(s)
    BY <2>1, Undisturbed
  <2>3. Challenge(s)
    BY <2>2 DEF Serve, Enroll, Session, Admit, Authenticate, Publish, Touch, Grant
  <2>4. link[s].id \in Ids /\ link[s] \in Message
    BY <2>1, Served
  <2>5. ~(Cardinality(Outstanding(link[s].id)) >= MaxEntries)
    <3>1. OneEach(challenges)
      BY DEF Sound, FileInv, TypeOK
    <3>2. /\ Cardinality(Outstanding(link[s].id)) \in Nat
          /\ Cardinality(Outstanding(link[s].id)) < MaxEntries
      BY <2>4, <3>1, Room DEF Outstanding
    <3> QED BY <3>2, RegistryAssumption
  <2>6. ~Refuse(s, "unavailable")
    BY <2>1, ReplyReads
  <2>7. ~Reply(s, [link[s] EXCEPT !.kind = "ok", !.nonce = Fresh])
    <3> DEFINE m == [link[s] EXCEPT !.kind = "ok", !.nonce = Fresh]
    <3>1. Unused # {}
      BY <2>3 DEF Challenge
    <3>2. m.kind = "ok"
      BY <2>4, <3>1, FreshIsNew, WithNonce
    <3> HIDE DEF m
    <3>3. ~Reply(s, m)
      BY <3>2, ReplyReads DEF Quiet
    <3> QED BY <3>3 DEF m
  <2>8. ~entries[link[s].id].known \/ entries[link[s].id].revoked
          \/ entries[link[s].id].key = NoClient
    BY <2>3, <2>5, <2>6, <2>7 DEF Challenge
  <2> QED BY <2>4, <2>8 DEF Sound, FileInv, Registered
<1> QED BY <1>1, AlwaysSound, PTL DEF Spec, NeverBusy
=============================================================================
