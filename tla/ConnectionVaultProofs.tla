------------------------ MODULE ConnectionVaultProofs ------------------------
(***************************************************************************)
(* Proofs about ConnectionVault, for any number of connections, jobs,      *)
(* requests, rotations and faults.                                         *)
(*                                                                         *)
(* The memory is what a restart would read because a change reaches it     *)
(* only after the file, and because the poison is set whenever it was left *)
(* behind.  What the account was told is then true of the file, and what   *)
(* executors look up is at least as new.                                   *)
(*                                                                         *)
(* At the end, that no active job is on a connection that was removed,     *)
(* for as long as requests do not overlap.                                 *)
(***************************************************************************)
EXTENDS ConnectionVault, FiniteSetTheorems, TLAPS

\* TypeOK without the limit on saved connections.
Shapes ==
  /\ up \in BOOLEAN /\ poison \in BOOLEAN
  /\ entries \in [Conns -> Entry \cup {Absent}]
  /\ file \in [Conns -> Entry \cup {Absent}]
  /\ job \in [Jobs -> Job \cup {Absent}]
  /\ call \in [Jobs -> Binding \cup {Absent}]
  /\ handler \in [Handlers -> Request \cup {Absent}]
  /\ version \in 0..MaxVersions
  /\ told \in [Conns -> 0..MaxVersions] /\ gone \subseteq Conns
  /\ faults \in 0..MaxFaults

\* The limit on saved connections, which the files keep as well.
Few(e) == Cardinality({k \in Conns : e[k] # Absent}) <= MaxSaved
Limited == Few(entries) /\ Few(file)

\* Credentials are numbered in the order they were sent.
Ordered ==
  \A i \in Conns :
    /\ told[i] <= version
    /\ file[i] # Absent => file[i].first <= file[i].secret /\ file[i].secret <= version

\* One submission is under way for a job, and none for a job that is there.
Submissions ==
  \A h \in Handlers : handler[h] # Absent /\ handler[h].kind = "submit" =>
    /\ job[handler[h].job] = Absent
    /\ \A k \in Handlers :
         (handler[k] # Absent /\ handler[k].kind = "submit") =>
           (handler[k].job = handler[h].job => k = h)

\* Only jobs that are there are resumed.
Resumes ==
  \A h \in Handlers : handler[h] # Absent /\ handler[h].kind = "resume" =>
    job[handler[h].job] # Absent

\* Only jobs that are there make calls.
Called == \A j \in Jobs : call[j] # Absent => job[j] # Absent

JobInv == Shapes /\ Submissions /\ Resumes /\ Called /\ ChosenProvider
VaultInv == Limited /\ Ordered /\ AnswersFromFile /\ AcknowledgedStays
Sound == JobInv /\ VaultInv

\* Steps of requests and jobs that leave the vault and the account alone.
RequestStep ==
  \/ \E h \in Handlers :
       \/ \E i \in Conns : BeginDelete(h, i) \/ \E j \in Jobs : BeginSubmit(h, j, i)
       \/ \E j \in Jobs : BeginResume(h, j)
       \/ FinishSubmit(h) \/ FinishResume(h)
  \/ \E j \in Jobs : Step(j) \/ Cancel(j)

-----------------------------------------------------------------------------
\* No entry stands for its absence, whatever kind of entry it is.
LEMMA NothingIsAbsent ==
  Absent \notin Entry /\ Absent \notin Job /\ Absent \notin Binding /\ Absent \notin Request
BY AbsentAssumption DEF Request

\* TypeOK is its shapes and the limit.
LEMMA ManyOrFew == ASSUME Shapes PROVE TypeOK <=> Few(entries)
BY DEF TypeOK, Shapes, Few

\* An empty vault is within the limit.
LEMMA FewNone == Few(None)
<1>1. {k \in Conns : None[k] # Absent} = {}
  BY DEF None
<1> QED BY <1>1, FS_EmptySet, VaultAssumption DEF Few

\* Where there is room, one more connection keeps the limit.
LEMMA FewAdded ==
  ASSUME NEW e \in [Conns -> Entry \cup {Absent}], NEW i \in Conns, NEW x \in Entry,
         Cardinality({k \in Conns : e[k] # Absent}) < MaxSaved
  PROVE  Few([e EXCEPT ![i] = x])
<1> DEFINE S == {k \in Conns : e[k] # Absent}
<1>1. {k \in Conns : [e EXCEPT ![i] = x][k] # Absent} = S \cup {i}
  BY NothingIsAbsent
<1>2. IsFiniteSet(S)
  BY VaultAssumption, FS_Subset
<1>3. Cardinality(S) \in Nat
  BY <1>2, FS_CardinalityType
<1>4. Cardinality(S \cup {i}) <= Cardinality(S) + 1
  BY <1>2, <1>3, FS_AddElement
<1>5. Cardinality(S \cup {i}) \in Nat
  BY <1>2, FS_AddElement, FS_CardinalityType
<1>6. Cardinality(S) < MaxSaved
  OBVIOUS
<1>7. Cardinality(S \cup {i}) <= MaxSaved
  BY <1>3, <1>4, <1>5, <1>6, VaultAssumption
<1> QED BY <1>1, <1>7 DEF Few

\* The limit stays kept when no connection is added.
LEMMA FewKept ==
  ASSUME NEW e, NEW d, Few(e), \A k \in Conns : d[k] # Absent => e[k] # Absent
  PROVE  Few(d)
<1> DEFINE S == {k \in Conns : e[k] # Absent}
           T == {k \in Conns : d[k] # Absent}
<1>1. IsFiniteSet(S)
  BY VaultAssumption, FS_Subset
<1>2. T \in SUBSET S
  OBVIOUS
<1>3. Cardinality(T) <= Cardinality(S) /\ IsFiniteSet(T)
  BY <1>1, <1>2, FS_Subset
<1>4. Cardinality(T) \in Nat /\ Cardinality(S) \in Nat
  BY <1>1, <1>3, FS_CardinalityType
<1> QED BY <1>3, <1>4, VaultAssumption DEF Few

-----------------------------------------------------------------------------
\* The steps of Next by what they do to the vault.
LEMMA Steps ==
  ASSUME Next
  PROVE  \/ Kill \/ OperatorStops \/ OpenConnections
         \/ \E i \in Conns : Rotate(i)
         \/ \E i \in Conns, f \in Configs, v \in Versions : Create(i, f, v)
         \/ \E h \in Handlers : FinishDelete(h)
         \/ RequestStep
BY DEF Next, RequestStep

\* Requests and jobs leave the vault and the account alone.
LEMMA RequestsLeaveVault ==
  ASSUME RequestStep PROVE UNCHANGED <<vault, account, faults>>
BY DEF RequestStep, BeginDelete, BeginSubmit, BeginResume, FinishSubmit, FinishResume,
       Step, Claim, BeginPage, Refuse, EndPage, Cancel

-----------------------------------------------------------------------------
\* A request that submits, resumes or removes has the fields for it.
LEMMA RequestFields ==
  ASSUME NEW r \in Request
  PROVE  /\ r.kind = "submit" => r.job \in Jobs /\ r.conn \in Conns /\ r.config \in Configs
         /\ r.kind = "resume" => r.job \in Jobs
         /\ r.kind = "delete" => r.conn \in Conns
BY DEF Request

\* A job that only changes its state remains a job, of the same connection.
LEMMA JobMoves ==
  ASSUME NEW x \in Job, NEW state \in {"queued", "running", "settled"}
  PROVE  /\ [x EXCEPT !.state = state] \in Job
         /\ [x EXCEPT !.state = state].conn = x.conn
         /\ [x EXCEPT !.state = state].config = x.config
BY DEF Job

\* A move changes no job but the one, and that one only in its state.
LEMMA MovesKeepsTypes ==
  ASSUME Shapes, NEW j \in Jobs, job[j] # Absent,
         NEW state \in {"queued", "running", "settled"}, Moves(j, state)
  PROVE  /\ job' \in [Jobs -> Job \cup {Absent}]
         /\ \A k \in Jobs : job'[k] = Absent <=> job[k] = Absent
         /\ \A k \in Jobs : job[k] # Absent => job'[k].config = job[k].config
<1>1. job[j] \in Job
  BY DEF Shapes
<1>2. [job[j] EXCEPT !.state = state] \in Job
  BY <1>1, JobMoves
<1>3. [job[j] EXCEPT !.state = state].config = job[j].config
  BY <1>1, JobMoves
<1>4. job' = [job EXCEPT ![j] = [job[j] EXCEPT !.state = state]]
  BY DEF Moves
<1>5. job'[j] = [job[j] EXCEPT !.state = state] /\ \A k \in Jobs \ {j} : job'[k] = job[k]
  BY <1>4 DEF Shapes
<1> QED BY <1>1, <1>2, <1>3, <1>4, <1>5, NothingIsAbsent DEF Shapes

\* A new request leaves the jobs alone.
LEMMA Begins ==
  ASSUME JobInv, NEW h \in Handlers, NEW r \in Request, handler[h] = Absent,
         Becomes(h, r), UNCHANGED <<vault, job, call, account, faults>>,
         r.kind = "resume" => job[r.job] # Absent,
         r.kind = "submit" =>
           /\ job[r.job] = Absent
           /\ \A k \in Handlers : handler[k] # Absent /\ handler[k].kind = "submit" =>
                handler[k].job # r.job
  PROVE  JobInv'
<1>1. handler' \in [Handlers -> Request \cup {Absent}]
  BY DEF Becomes, JobInv, Shapes
<1>2. handler'[h] = r /\ \A k \in Handlers \ {h} : handler'[k] = handler[k]
  BY DEF Becomes, JobInv, Shapes
<1>3. Shapes'
  BY <1>1 DEF JobInv, Shapes, vault, account
<1>4. Submissions'
  BY <1>2 DEF JobInv, Submissions
<1>5. Resumes'
  BY <1>2 DEF JobInv, Resumes
<1> QED BY <1>3, <1>4, <1>5 DEF JobInv, Called, ChosenProvider, vault, account

\* A job changes its state, and no request begins.
LEMMA Moved ==
  ASSUME JobInv, NEW j \in Jobs, job[j] # Absent,
         NEW state \in {"queued", "running", "settled"}, Moves(j, state),
         UNCHANGED <<vault, account, faults>>,
         call' \in [Jobs -> Binding \cup {Absent}],
         \A k \in Jobs : call'[k] \in {call[k], Absent},
         handler' \in [Handlers -> Request \cup {Absent}],
         \A h \in Handlers : handler'[h] \in {handler[h], Absent}
  PROVE  JobInv'
<1>1. /\ job' \in [Jobs -> Job \cup {Absent}]
      /\ \A k \in Jobs : job'[k] = Absent <=> job[k] = Absent
      /\ \A k \in Jobs : job[k] # Absent => job'[k].config = job[k].config
  BY MovesKeepsTypes DEF JobInv
<1>2. Shapes'
  BY <1>1 DEF JobInv, Shapes, vault, account
<1>3. \A h \in Handlers : handler[h] # Absent /\ handler[h].kind \in {"submit", "resume"} =>
        handler[h].job \in Jobs
  BY RequestFields DEF JobInv, Shapes
<1>4. Submissions' /\ Resumes'
  BY <1>1, <1>3 DEF JobInv, Submissions, Resumes
<1>5. Called' /\ ChosenProvider'
  BY <1>1 DEF JobInv, Called, ChosenProvider
<1> QED BY <1>2, <1>4, <1>5 DEF JobInv

\* Requests and jobs keep what is known of requests, jobs and calls.
LEMMA RequestsKeepJobs == ASSUME JobInv, AnswersFromFile, RequestStep PROVE JobInv'
<1>1. ASSUME NEW h \in Handlers, NEW i \in Conns, BeginDelete(h, i) PROVE JobInv'
  <2> DEFINE r == [kind |-> "delete", conn |-> i]
  <2>1. r \in Request /\ r.kind = "delete"
    BY DEF Request
  <2> HIDE DEF r
  <2> QED BY <1>1, <2>1, Begins DEF BeginDelete, r
<1>2. ASSUME NEW h \in Handlers, NEW i \in Conns, NEW j \in Jobs, BeginSubmit(h, j, i)
      PROVE  JobInv'
  <2> DEFINE r == [kind |-> "submit", job |-> j, conn |-> i, config |-> entries[i].config]
  <2>1. entries[i] \in Entry
    BY <1>2 DEF BeginSubmit, Found, JobInv, Shapes
  <2>2. r \in Request /\ r.kind = "submit" /\ r.job = j
    BY <2>1 DEF Request, Entry
  <2>3. Becomes(h, r)
    BY <1>2 DEF BeginSubmit
  <2> HIDE DEF r
  <2> QED BY <1>2, <2>2, <2>3, Begins DEF BeginSubmit
<1>3. ASSUME NEW h \in Handlers, NEW j \in Jobs, BeginResume(h, j) PROVE JobInv'
  <2> DEFINE r == [kind |-> "resume", job |-> j]
  <2>1. r \in Request /\ r.kind = "resume" /\ r.job = j
    BY DEF Request
  <2>2. Becomes(h, r)
    BY <1>3 DEF BeginResume
  <2> HIDE DEF r
  <2> QED BY <1>3, <2>1, <2>2, Begins DEF BeginResume
<1>4. ASSUME NEW h \in Handlers, FinishSubmit(h) PROVE JobInv'
  <2> DEFINE r == handler[h]
             new == [state |-> "queued", conn |-> r.conn, config |-> r.config]
  <2>1. r \in Request /\ r # Absent /\ r.kind = "submit"
    BY <1>4 DEF FinishSubmit, JobInv, Shapes
  <2>2. r.job \in Jobs /\ new \in Job
    BY <2>1, RequestFields DEF Job
  <2>3. job' = [job EXCEPT ![r.job] = new] /\ Becomes(h, Absent)
        /\ UNCHANGED <<vault, call, account, faults>>
    BY <1>4 DEF FinishSubmit, Queued
  <2>4. job'[r.job] = new /\ \A k \in Jobs \ {r.job} : job'[k] = job[k]
    BY <2>2, <2>3 DEF JobInv, Shapes
  <2>5. handler'[h] = Absent /\ \A k \in Handlers \ {h} : handler'[k] = handler[k]
    BY <2>3 DEF Becomes, JobInv, Shapes
  <2>6. job' \in [Jobs -> Job \cup {Absent}]
    BY <2>2, <2>3 DEF JobInv, Shapes
  <2>7. handler' \in [Handlers -> Request \cup {Absent}]
    BY <2>3 DEF Becomes, JobInv, Shapes
  <2>8. new # Absent
    BY <2>2, NothingIsAbsent
  <2>9. \A k \in Handlers : handler[k] # Absent /\ handler[k].kind \in {"submit", "resume"} =>
          handler[k].job \in Jobs
    BY RequestFields DEF JobInv, Shapes
  <2> HIDE DEF new
  <2>10. Shapes'
    BY <2>3, <2>6, <2>7 DEF JobInv, Shapes, vault, account
  <2>11. Submissions'
    <3> SUFFICES ASSUME NEW k \in Handlers, handler'[k] # Absent, handler'[k].kind = "submit"
                 PROVE  /\ job'[handler'[k].job] = Absent
                        /\ \A g \in Handlers :
                             (handler'[g] # Absent /\ handler'[g].kind = "submit") =>
                               (handler'[g].job = handler'[k].job => g = k)
      BY DEF Submissions
    <3>1. k # h /\ handler'[k] = handler[k] /\ handler[k].job \in Jobs
      BY <2>5, <2>9
    <3>2. handler[k].job # r.job
      BY <2>1, <3>1 DEF JobInv, Submissions
    <3>3. job'[handler[k].job] = Absent
      BY <2>4, <3>1, <3>2 DEF JobInv, Submissions
    <3> QED BY <2>5, <3>1, <3>3 DEF JobInv, Submissions
  <2>12. Resumes'
    BY <2>4, <2>5, <2>8, <2>9 DEF JobInv, Resumes
  <2>13. Called' /\ ChosenProvider'
    <3>1. job[r.job] = Absent /\ call[r.job] = Absent
      BY <2>1, <2>2 DEF JobInv, Submissions, Called
    <3>2. call' = call
      BY <2>3
    <3>3. \A k \in Jobs : call[k] # Absent => k # r.job /\ job'[k] = job[k]
      BY <2>4, <3>1
    <3> QED BY <3>2, <3>3 DEF JobInv, Called, ChosenProvider
  <2> QED BY <2>10, <2>11, <2>12, <2>13 DEF JobInv
<1>5. ASSUME NEW h \in Handlers, FinishResume(h) PROVE JobInv'
  <2> DEFINE r == handler[h]
  <2>1. r \in Request /\ r # Absent /\ r.kind = "resume"
    BY <1>5 DEF FinishResume, JobInv, Shapes
  <2>2. r.job \in Jobs /\ job[r.job] # Absent
    BY <2>1, RequestFields DEF JobInv, Resumes
  <2>3. Becomes(h, Absent) /\ UNCHANGED <<vault, call, account, faults>>
    BY <1>5 DEF FinishResume
  <2>4. /\ handler' \in [Handlers -> Request \cup {Absent}]
        /\ \A k \in Handlers : handler'[k] \in {handler[k], Absent}
    BY <2>3 DEF Becomes, JobInv, Shapes
  <2>5. CASE Active(r.job)
    <3>1. job' = job
      BY <1>5, <2>5 DEF FinishResume
    <3> QED BY <2>3, <2>4, <3>1
            DEF JobInv, Shapes, Submissions, Resumes, Called, ChosenProvider, vault, account
  <2>6. CASE ~Active(r.job)
    <3>1. Moves(r.job, "queued")
      BY <1>5, <2>6 DEF FinishResume, Moves
    <3>2. /\ call' \in [Jobs -> Binding \cup {Absent}]
          /\ \A k \in Jobs : call'[k] \in {call[k], Absent}
      BY <2>3 DEF JobInv, Shapes
    <3> QED BY <2>2, <2>3, <2>4, <3>1, <3>2, Moved
  <2> QED BY <2>5, <2>6
<1>6. ASSUME NEW j \in Jobs, NEW state \in {"queued", "running", "settled"},
             job[j] # Absent, Moves(j, state),
             UNCHANGED <<vault, call, handler, account, faults>>
      PROVE  JobInv'
  <2>1. /\ call' \in [Jobs -> Binding \cup {Absent}]
        /\ \A k \in Jobs : call'[k] \in {call[k], Absent}
        /\ handler' \in [Handlers -> Request \cup {Absent}]
        /\ \A h \in Handlers : handler'[h] \in {handler[h], Absent}
    BY <1>6 DEF JobInv, Shapes
  <2> QED BY <1>6, <2>1, Moved
<1>7. ASSUME NEW j \in Jobs, Claim(j) \/ Refuse(j) \/ Cancel(j) PROVE JobInv'
  <2>1. \E state \in {"queued", "running", "settled"} :
          job[j] # Absent /\ Moves(j, state)
    BY <1>7 DEF Claim, Refuse, Cancel, InState
  <2>2. UNCHANGED <<vault, call, handler, account, faults>>
    BY <1>7 DEF Claim, Refuse, Cancel
  <2> QED BY <1>6, <2>1, <2>2
<1>8. ASSUME NEW j \in Jobs, BeginPage(j) PROVE JobInv'
  <2> DEFINE e == entries[job[j].conn]
             b == [config |-> e.config, secret |-> e.secret]
  <2>1. job[j] # Absent /\ job[j].conn \in Conns
    BY <1>8 DEF BeginPage, InState, JobInv, Shapes, Job
  <2>2. e \in Entry /\ e.config = job[j].config
    BY <1>8, <2>1 DEF BeginPage, Usable, Found, JobInv, Shapes
  <2>3. b \in Binding /\ b.config = job[j].config
    BY <2>2 DEF Entry, Binding
  <2>4. call' = [call EXCEPT ![j] = b] /\ UNCHANGED <<vault, job, handler, account, faults>>
    BY <1>8 DEF BeginPage
  <2> HIDE DEF b
  <2>5. call' \in [Jobs -> Binding \cup {Absent}] /\ call'[j] = b
        /\ \A k \in Jobs \ {j} : call'[k] = call[k]
    BY <2>3, <2>4 DEF JobInv, Shapes
  <2>6. Shapes' /\ Submissions' /\ Resumes'
    BY <2>4, <2>5 DEF JobInv, Shapes, Submissions, Resumes, vault, account
  <2>7. Called' /\ ChosenProvider'
    BY <2>1, <2>3, <2>4, <2>5 DEF JobInv, Called, ChosenProvider
  <2> QED BY <2>6, <2>7 DEF JobInv
<1>9. ASSUME NEW j \in Jobs, EndPage(j) PROVE JobInv'
  <2>1. /\ call[j] # Absent /\ call' = [call EXCEPT ![j] = Absent]
        /\ UNCHANGED <<vault, handler, account, faults>>
    BY <1>9 DEF EndPage
  <2>2. /\ call' \in [Jobs -> Binding \cup {Absent}]
        /\ \A k \in Jobs : call'[k] \in {call[k], Absent}
    BY <2>1 DEF JobInv, Shapes
  <2>3. CASE job' = job
    BY <2>1, <2>2, <2>3
       DEF JobInv, Shapes, Submissions, Resumes, Called, ChosenProvider, vault, account
  <2>4. ASSUME NEW state \in {"queued", "settled"}, Moves(j, state) PROVE JobInv'
    <3>1. job[j] # Absent
      BY <2>1 DEF JobInv, Called
    <3>2. /\ handler' \in [Handlers -> Request \cup {Absent}]
          /\ \A k \in Handlers : handler'[k] \in {handler[k], Absent}
      BY <2>1 DEF JobInv, Shapes
    <3> QED BY <2>1, <2>2, <2>4, <3>1, <3>2, Moved
  <2> QED BY <1>9, <2>3, <2>4 DEF EndPage
<1> QED BY <1>1, <1>2, <1>3, <1>4, <1>5, <1>7, <1>8, <1>9 DEF RequestStep, Step

-----------------------------------------------------------------------------
\* The jobs when requests and calls are only dropped.
LEMMA JobsUntouched ==
  ASSUME JobInv, UNCHANGED job,
         \A k \in Jobs : call'[k] \in {call[k], Absent},
         \A h \in Handlers : handler'[h] \in {handler[h], Absent}
  PROVE  Submissions' /\ Resumes' /\ Called' /\ ChosenProvider'
<1>1. Submissions' /\ Resumes'
  BY DEF JobInv, Submissions, Resumes
<1>2. Called' /\ ChosenProvider'
  BY DEF JobInv, Called, ChosenProvider
<1> QED BY <1>1, <1>2

\* What is left of requests and calls when the process ends.
LEMMA DownDrops ==
  ASSUME Shapes, Down
  PROVE  /\ call' \in [Jobs -> Binding \cup {Absent}]
         /\ \A k \in Jobs : call'[k] \in {call[k], Absent}
         /\ handler' \in [Handlers -> Request \cup {Absent}]
         /\ \A h \in Handlers : handler'[h] \in {handler[h], Absent}
         /\ up' = FALSE /\ poison' = FALSE
         /\ entries' = None
BY DEF Shapes, Down

\* Faults stay within their bound.
LEMMA FaultCounts == ASSUME Shapes, Fault PROVE faults' \in 0..MaxFaults
BY VaultAssumption DEF Shapes, Fault

\* A change of a file, however it ends: the memory follows, or the vault is
\* poisoned, or the process is gone.
LEMMA ChangeOfFile ==
  ASSUME Shapes, Limited, AnswersFromFile, Serving,
         NEW new \in [Conns -> Entry \cup {Absent}], Few(new),
         Saved(new) \/ SaveFails(new) \/ SaveKilled(new)
  PROVE  /\ file' = new
         /\ AnswersFromFile' /\ Limited'
         /\ up' \in BOOLEAN /\ poison' \in BOOLEAN
         /\ entries' \in [Conns -> Entry \cup {Absent}]
         /\ call' \in [Jobs -> Binding \cup {Absent}]
         /\ \A k \in Jobs : call'[k] \in {call[k], Absent}
         /\ faults' \in 0..MaxFaults
<1>1. CASE Saved(new)
  BY <1>1 DEF Saved, Shapes, Limited, Few, AnswersFromFile, Serving
<1>2. CASE SaveFails(new)
  <2>1. faults' \in 0..MaxFaults
    BY <1>2, FaultCounts DEF SaveFails
  <2> QED BY <1>2, <2>1 DEF SaveFails, Shapes, Limited, Few, AnswersFromFile, Serving
<1>3. CASE SaveKilled(new)
  <2>1. faults' \in 0..MaxFaults
    BY <1>3, FaultCounts DEF SaveKilled
  <2>2. Few(entries')
    BY <1>3, FewNone, DownDrops DEF SaveKilled
  <2>3. None \in [Conns -> Entry \cup {Absent}]
    BY DEF None
  <2>4. file' = new /\ Down
    BY <1>3 DEF SaveKilled
  <2>5. Limited'
    BY <2>2, <2>4 DEF Limited, Few
  <2> QED BY <2>1, <2>3, <2>4, <2>5, DownDrops DEF AnswersFromFile, Serving
<1> QED BY <1>1, <1>2, <1>3

\* An entry gets new credentials.
LEMMA EntryRotates ==
  ASSUME NEW x \in Entry, NEW v \in Versions
  PROVE  /\ [x EXCEPT !.secret = v] \in Entry
         /\ [x EXCEPT !.secret = v].secret = v
         /\ [x EXCEPT !.secret = v].first = x.first
BY DEF Entry

\* The file after a rotation.
LEMMA RotatedFile ==
  ASSUME Shapes, NEW i \in Conns, file[i] # Absent, NEW v \in Versions
  PROVE  /\ Rotated(i, v) \in [Conns -> Entry \cup {Absent}]
         /\ \A k \in Conns \ {i} : Rotated(i, v)[k] = file[k]
         /\ Rotated(i, v)[i] # Absent
         /\ Rotated(i, v)[i].secret = v
         /\ Rotated(i, v)[i].first = file[i].first
<1> DEFINE x == [file[i] EXCEPT !.secret = v]
<1>1. file[i] \in Entry
  BY DEF Shapes
<1>2. x \in Entry /\ x # Absent /\ x.secret = v /\ x.first = file[i].first
  BY <1>1, EntryRotates, NothingIsAbsent
<1>3. Rotated(i, v) = [file EXCEPT ![i] = x]
  BY DEF Rotated
<1> HIDE DEF x
<1>4. Rotated(i, v)[i] = x /\ \A k \in Conns \ {i} : Rotated(i, v)[k] = file[k]
  BY <1>3 DEF Shapes
<1>5. Rotated(i, v) \in [Conns -> Entry \cup {Absent}]
  BY <1>2, <1>3 DEF Shapes
<1> QED BY <1>2, <1>4, <1>5

-----------------------------------------------------------------------------
\* New credentials are the highest number, so what was told stays true even if
\* the answer to the rotation is lost.
LEMMA RotateKeeps == ASSUME Sound, NEW i \in Conns, Rotate(i) PROVE Sound'
<1> DEFINE v == version + 1
           new == Rotated(i, v)
<1>1. /\ Serving /\ entries[i] # Absent /\ v \in Versions /\ version' = v
      /\ UNCHANGED <<job, gone>>
  BY DEF Rotate, Found
<1>2. /\ file = entries /\ file[i] # Absent /\ file[i] \in Entry
      /\ version \in Nat /\ told[i] <= version
  BY <1>1, VaultAssumption
     DEF Sound, JobInv, VaultInv, AnswersFromFile, Shapes, Ordered
<1>3. /\ new \in [Conns -> Entry \cup {Absent}]
      /\ \A k \in Conns \ {i} : new[k] = file[k]
      /\ new[i] # Absent /\ new[i].secret = v /\ new[i].first = file[i].first
  BY <1>1, <1>2, RotatedFile DEF Sound, JobInv
<1>4. Saved(new) \/ SaveFails(new) \/ SaveKilled(new)
  BY DEF Rotate
<1>5. told' = told \/ told' = [told EXCEPT ![i] = v]
  BY DEF Rotate
<1>6. /\ handler' \in [Handlers -> Request \cup {Absent}]
      /\ \A h \in Handlers : handler'[h] \in {handler[h], Absent}
  BY DownDrops DEF Rotate, SaveKilled, Sound, JobInv, Shapes
<1> HIDE DEF new
<1>7. Few(new)
  BY <1>2, <1>3, FewKept DEF Sound, VaultInv, Limited
<1>8. /\ file' = new /\ AnswersFromFile' /\ Limited'
      /\ up' \in BOOLEAN /\ poison' \in BOOLEAN
      /\ entries' \in [Conns -> Entry \cup {Absent}]
      /\ call' \in [Jobs -> Binding \cup {Absent}]
      /\ \A k \in Jobs : call'[k] \in {call[k], Absent}
      /\ faults' \in 0..MaxFaults
  BY <1>1, <1>3, <1>4, <1>7, ChangeOfFile DEF Sound, JobInv, VaultInv
<1>9. told' \in [Conns -> 0..MaxVersions] /\ version' \in 0..MaxVersions
  BY <1>1, <1>2, <1>5, VaultAssumption DEF Sound, JobInv, Shapes, Versions
<1>10. Shapes'
  BY <1>1, <1>3, <1>6, <1>8, <1>9 DEF Sound, JobInv, Shapes
<1>11. Submissions' /\ Resumes' /\ Called' /\ ChosenProvider'
  BY <1>1, <1>6, <1>8, JobsUntouched DEF Sound
<1>12. \A k \in Conns \ {i} : told'[k] = told[k] /\ file'[k] = file[k]
  BY <1>3, <1>5, <1>8 DEF Sound, JobInv, Shapes
<1>13. told'[i] \in {told[i], v} /\ told[i] \in Nat
  BY <1>5 DEF Sound, JobInv, Shapes
<1>14. /\ file[i].first \in Nat /\ file[i].secret \in Nat
       /\ file[i].first <= file[i].secret /\ file[i].secret <= version
  BY <1>2 DEF Sound, VaultInv, Ordered, Entry, Versions
<1>15. Ordered'
  <2> SUFFICES ASSUME NEW k \in Conns
               PROVE  /\ told'[k] <= version'
                      /\ file'[k] # Absent =>
                           file'[k].first <= file'[k].secret /\ file'[k].secret <= version'
    BY DEF Ordered
  <2>1. CASE k = i
    BY <2>1, <1>1, <1>2, <1>3, <1>8, <1>13, <1>14
  <2>2. CASE k # i
    <3>1. told[k] \in Nat /\ (file[k] # Absent => file[k].secret \in Nat)
      BY DEF Sound, JobInv, Shapes, Entry, Versions
    <3> QED BY <2>2, <3>1, <1>1, <1>2, <1>12 DEF Sound, VaultInv, Ordered
  <2> QED BY <2>1, <2>2
<1>16. AcknowledgedStays'
  <2> SUFFICES ASSUME NEW k \in Conns
               PROVE  /\ told'[k] > 0 => file'[k] # Absent /\ file'[k].secret >= told'[k]
                      /\ k \in gone' => file'[k] = Absent
    BY DEF AcknowledgedStays
  <2>1. CASE k = i
    BY <2>1, <1>1, <1>2, <1>3, <1>8, <1>13 DEF Sound, VaultInv, AcknowledgedStays
  <2>2. CASE k # i
    BY <2>2, <1>1, <1>12 DEF Sound, VaultInv, AcknowledgedStays
  <2> QED BY <2>1, <2>2
<1> QED BY <1>8, <1>10, <1>11, <1>15, <1>16 DEF Sound, JobInv, VaultInv

\* A connection that is known and sent again.
LEMMA RepeatKeeps ==
  ASSUME Sound, NEW i \in Conns, NEW v \in Versions, NEW f \in Configs, Serving,
         v <= version + 1, version' = IF v > version THEN v ELSE version,
         Repeats(i, f, v),
         told' = [told EXCEPT ![i] = IF @ = 0 THEN v ELSE @],
         UNCHANGED <<vault, job, call, handler, gone, faults>>
  PROVE  Sound'
<1>1. file = entries /\ file[i] \in Entry /\ file[i].first = v
  BY DEF Sound, JobInv, VaultInv, AnswersFromFile, Shapes, Repeats
<1>2. version \in Nat /\ v \in Nat /\ version' \in 0..MaxVersions /\ version <= version'
  BY VaultAssumption DEF Sound, JobInv, Shapes, Versions
<1>3. told' \in [Conns -> 0..MaxVersions] /\ told'[i] \in {told[i], v}
      /\ \A k \in Conns \ {i} : told'[k] = told[k]
  BY VaultAssumption DEF Sound, JobInv, Shapes, Versions
<1>4. \A k \in Conns : /\ told[k] \in Nat
                        /\ file[k] # Absent => file[k].secret \in Nat /\ file[k].first \in Nat
  BY DEF Sound, JobInv, Shapes, Entry, Versions
<1>5. file[i].first <= file[i].secret /\ file[i].secret <= version /\ file[i] # Absent
  BY <1>1, NothingIsAbsent DEF Sound, VaultInv, Ordered
<1>6. Shapes'
  BY <1>2, <1>3 DEF Sound, JobInv, Shapes, vault
<1>7. Submissions' /\ Resumes' /\ Called' /\ ChosenProvider'
  BY JobsUntouched DEF Sound
<1>8. Limited' /\ AnswersFromFile'
  BY DEF Sound, VaultInv, Limited, Few, AnswersFromFile, Serving, vault
<1>9. UNCHANGED <<file, gone>>
  BY DEF vault
<1>10. Ordered'
  BY <1>1, <1>2, <1>3, <1>4, <1>5, <1>9 DEF Sound, VaultInv, Ordered
<1>11. AcknowledgedStays'
  BY <1>1, <1>2, <1>3, <1>4, <1>5, <1>9 DEF Sound, VaultInv, AcknowledgedStays
<1> QED BY <1>6, <1>7, <1>8, <1>10, <1>11 DEF Sound, JobInv, VaultInv

\* A connection that is new.
LEMMA CreateKeeps ==
  ASSUME Sound, NEW i \in Conns, NEW f \in Configs, NEW v \in Versions, Create(i, f, v)
  PROVE  Sound'
<1> DEFINE x == [config |-> f, secret |-> v, first |-> v]
           new == [file EXCEPT ![i] = x]
<1>1. /\ Serving /\ v <= version + 1 /\ version' = (IF v > version THEN v ELSE version)
      /\ UNCHANGED job
  BY DEF Create
<1>2. CASE entries[i] # Absent
  BY <1>1, <1>2, RepeatKeeps DEF Create
<1>3. CASE entries[i] = Absent
  <2>1. /\ Room /\ gone' = gone \ {i}
        /\ Saved(new) \/ SaveFails(new) \/ SaveKilled(new)
        /\ told' = told \/ told' = [told EXCEPT ![i] = v]
    BY <1>3 DEF Create, Repeats
  <2>2. /\ handler' \in [Handlers -> Request \cup {Absent}]
        /\ \A h \in Handlers : handler'[h] \in {handler[h], Absent}
    BY <1>3, DownDrops DEF Create, Repeats, SaveKilled, Sound, JobInv, Shapes
  <2>3. /\ file = entries /\ file[i] = Absent /\ told[i] = 0
        /\ version \in Nat /\ v \in Nat /\ version' \in 0..MaxVersions
        /\ version <= version' /\ v <= version'
    BY <1>1, <1>3, VaultAssumption
       DEF Sound, JobInv, VaultInv, AnswersFromFile, AcknowledgedStays, Shapes, Versions
  <2>4. x \in Entry /\ x # Absent /\ x.secret = v /\ x.first = v
    BY NothingIsAbsent DEF Entry
  <2> HIDE DEF x
  <2>5. /\ new \in [Conns -> Entry \cup {Absent}] /\ new[i] = x
        /\ \A k \in Conns \ {i} : new[k] = file[k]
    BY <2>4 DEF Sound, JobInv, Shapes
  <2>6. Few(new)
    BY <2>1, <2>3, <2>4, FewAdded DEF Room, Sound, JobInv, Shapes
  <2> HIDE DEF new
  <2>7. /\ file' = new /\ AnswersFromFile' /\ Limited'
        /\ up' \in BOOLEAN /\ poison' \in BOOLEAN
        /\ entries' \in [Conns -> Entry \cup {Absent}]
        /\ call' \in [Jobs -> Binding \cup {Absent}]
        /\ \A k \in Jobs : call'[k] \in {call[k], Absent}
        /\ faults' \in 0..MaxFaults
    BY <1>1, <2>1, <2>5, <2>6, ChangeOfFile DEF Sound, JobInv, VaultInv
  <2>8. told' \in [Conns -> 0..MaxVersions] /\ told'[i] \in {0, v}
        /\ \A k \in Conns \ {i} : told'[k] = told[k]
    BY <2>1, <2>3 DEF Sound, JobInv, Shapes, Versions
  <2>9. gone' \subseteq Conns
    BY <2>1 DEF Sound, JobInv, Shapes
  <2>10. Shapes'
    BY <1>1, <2>2, <2>3, <2>5, <2>7, <2>8, <2>9 DEF Sound, JobInv, Shapes
  <2>11. Submissions' /\ Resumes' /\ Called' /\ ChosenProvider'
    BY <1>1, <2>2, <2>7, JobsUntouched DEF Sound
  <2>12. \A k \in Conns : /\ told[k] \in Nat
                           /\ file[k] # Absent => file[k].secret \in Nat /\ file[k].first \in Nat
    BY DEF Sound, JobInv, Shapes, Entry, Versions
  <2>13. Ordered'
    BY <2>3, <2>4, <2>5, <2>7, <2>8, <2>12 DEF Sound, VaultInv, Ordered
  <2>14. AcknowledgedStays'
    BY <2>1, <2>3, <2>4, <2>5, <2>7, <2>8, <2>12 DEF Sound, VaultInv, AcknowledgedStays
  <2> QED BY <2>7, <2>10, <2>11, <2>13, <2>14 DEF Sound, JobInv, VaultInv
<1> QED BY <1>2, <1>3

\* A removal, whether it still finds the connection or not.
LEMMA DeleteKeeps == ASSUME Sound, NEW h \in Handlers, FinishDelete(h) PROVE Sound'
<1> DEFINE i == handler[h].conn
           new == [file EXCEPT ![i] = Absent]
<1>1. i \in Conns
  BY RequestFields DEF FinishDelete, Sound, JobInv, Shapes
<1>2. /\ handler' \in [Handlers -> Request \cup {Absent}]
      /\ \A k \in Handlers : handler'[k] \in {handler[k], Absent}
  BY DownDrops DEF FinishDelete, SaveKilled, Becomes, Sound, JobInv, Shapes
<1>3. UNCHANGED <<job, version>>
  BY DEF FinishDelete
<1> HIDE DEF i
<1>4. CASE ~Found(i)
  <2>1. UNCHANGED <<vault, call, told, gone, faults>>
    BY <1>4 DEF FinishDelete, i
  <2>2. Shapes'
    BY <1>2, <1>3, <2>1 DEF Sound, JobInv, Shapes, vault
  <2>3. \A k \in Jobs : call'[k] \in {call[k], Absent}
    BY <2>1
  <2>4. Submissions' /\ Resumes' /\ Called' /\ ChosenProvider'
    BY <1>2, <1>3, <2>3, JobsUntouched DEF Sound
  <2>5. VaultInv'
    BY <1>3, <2>1 DEF Sound, VaultInv, Limited, Few, Ordered, AnswersFromFile, Serving,
                      AcknowledgedStays, vault
  <2> QED BY <2>2, <2>4, <2>5 DEF Sound, JobInv
<1>5. CASE Found(i)
  <2>1. /\ Serving /\ told' = [told EXCEPT ![i] = 0] /\ gone' \in {gone, gone \cup {i}}
        /\ Saved(new) \/ SaveFails(new) \/ SaveKilled(new)
    BY <1>5 DEF FinishDelete, Found, i
  <2>2. new \in [Conns -> Entry \cup {Absent}] /\ new[i] = Absent
        /\ \A k \in Conns \ {i} : new[k] = file[k]
    BY <1>1 DEF Sound, JobInv, Shapes
  <2> HIDE DEF new
  <2>3. Few(new)
    BY <1>1, <2>2, FewKept DEF Sound, VaultInv, Limited
  <2>4. /\ file' = new /\ AnswersFromFile' /\ Limited'
        /\ up' \in BOOLEAN /\ poison' \in BOOLEAN
        /\ entries' \in [Conns -> Entry \cup {Absent}]
        /\ call' \in [Jobs -> Binding \cup {Absent}]
        /\ \A k \in Jobs : call'[k] \in {call[k], Absent}
        /\ faults' \in 0..MaxFaults
    BY <2>1, <2>2, <2>3, ChangeOfFile DEF Sound, JobInv, VaultInv
  <2>5. told' \in [Conns -> 0..MaxVersions] /\ told'[i] = 0
        /\ \A k \in Conns \ {i} : told'[k] = told[k]
    BY <1>1, <2>1, VaultAssumption DEF Sound, JobInv, Shapes
  <2>6. Shapes'
    BY <1>1, <1>2, <1>3, <2>1, <2>2, <2>4, <2>5 DEF Sound, JobInv, Shapes
  <2>7. Submissions' /\ Resumes' /\ Called' /\ ChosenProvider'
    BY <1>2, <1>3, <2>4, JobsUntouched DEF Sound
  <2>8. version \in Nat
    BY DEF Sound, JobInv, Shapes
  <2>9. Ordered'
    BY <1>3, <2>2, <2>4, <2>5, <2>8 DEF Sound, VaultInv, Ordered
  <2>10. AcknowledgedStays'
    BY <2>1, <2>2, <2>4, <2>5 DEF Sound, VaultInv, AcknowledgedStays
  <2> QED BY <2>4, <2>6, <2>7, <2>9, <2>10 DEF Sound, JobInv, VaultInv
<1> QED BY <1>4, <1>5

-----------------------------------------------------------------------------
\* The process ends.
LEMMA EndKeeps == ASSUME Sound, Kill \/ OperatorStops PROVE Sound'
<1>1. Down /\ UNCHANGED <<file, job, account>> /\ faults' \in 0..MaxFaults
  BY FaultCounts DEF Kill, OperatorStops, Sound, JobInv, Shapes
<1>2. /\ call' \in [Jobs -> Binding \cup {Absent}]
      /\ \A k \in Jobs : call'[k] \in {call[k], Absent}
      /\ handler' \in [Handlers -> Request \cup {Absent}]
      /\ \A h \in Handlers : handler'[h] \in {handler[h], Absent}
      /\ up' = FALSE /\ poison' = FALSE /\ entries' = None
  BY <1>1, DownDrops DEF Sound, JobInv
<1>3. None \in [Conns -> Entry \cup {Absent}]
  BY DEF None
<1>4. Shapes'
  BY <1>1, <1>2, <1>3 DEF Sound, JobInv, Shapes, account
<1>5. Submissions' /\ Resumes' /\ Called' /\ ChosenProvider'
  BY <1>1, <1>2, JobsUntouched DEF Sound
<1>6. Limited'
  BY <1>1, <1>2, FewNone DEF Sound, VaultInv, Limited, Few
<1>7. AnswersFromFile' /\ Ordered' /\ AcknowledgedStays'
  BY <1>1, <1>2 DEF Sound, VaultInv, AnswersFromFile, Serving, Ordered, AcknowledgedStays, account
<1> QED BY <1>4, <1>5, <1>6, <1>7 DEF Sound, JobInv, VaultInv

\* The vault is read and Recover requeues what was running.
LEMMA OpenKeeps == ASSUME Sound, OpenConnections PROVE Sound'
<1>1. /\ up' = TRUE /\ entries' = file
      /\ UNCHANGED <<file, poison, call, handler, account, faults>>
  BY DEF OpenConnections
<1>2. ASSUME NEW j \in Jobs
      PROVE  /\ job'[j] \in Job \cup {Absent}
             /\ job'[j] = Absent <=> job[j] = Absent
             /\ job[j] # Absent => job'[j].config = job[j].config
  <2>1. job'[j] = IF InState(j, {"running"}) THEN [job[j] EXCEPT !.state = "queued"]
                  ELSE job[j]
    BY DEF OpenConnections
  <2>2. CASE InState(j, {"running"})
    <3>1. job[j] \in Job /\ job[j] # Absent
      BY <2>2 DEF InState, Sound, JobInv, Shapes
    <3>2. [job[j] EXCEPT !.state = "queued"] \in Job
          /\ [job[j] EXCEPT !.state = "queued"].config = job[j].config
      BY <3>1, JobMoves
    <3> QED BY <2>1, <2>2, <3>1, <3>2, NothingIsAbsent
  <2>3. CASE ~InState(j, {"running"})
    BY <2>1, <2>3 DEF Sound, JobInv, Shapes
  <2> QED BY <2>2, <2>3
<1>3. \E g : job' = [j \in Jobs |-> g[j]]
  <2>1. job' = [j \in Jobs |-> job'[j]]
    BY DEF OpenConnections
  <2> QED BY <2>1
<1>4. job' \in [Jobs -> Job \cup {Absent}]
  BY <1>2, <1>3
<1>5. Shapes'
  BY <1>1, <1>4 DEF Sound, JobInv, Shapes, account
<1>6. \A h \in Handlers : handler[h] # Absent /\ handler[h].kind \in {"submit", "resume"} =>
        handler[h].job \in Jobs
  BY RequestFields DEF Sound, JobInv, Shapes
<1>7. Submissions' /\ Resumes'
  BY <1>1, <1>2, <1>6 DEF Sound, JobInv, Submissions, Resumes
<1>8. Called' /\ ChosenProvider'
  BY <1>1, <1>2 DEF Sound, JobInv, Called, ChosenProvider
<1>9. VaultInv'
  BY <1>1 DEF Sound, VaultInv, Limited, Few, Ordered, AnswersFromFile, Serving,
              AcknowledgedStays, account
<1> QED BY <1>5, <1>7, <1>8, <1>9 DEF Sound, JobInv

\* Requests and jobs do not touch the vault.
LEMMA RequestsKeep == ASSUME Sound, RequestStep PROVE Sound'
<1>1. UNCHANGED <<vault, account, faults>>
  BY RequestsLeaveVault
<1>2. JobInv'
  BY RequestsKeepJobs DEF Sound, VaultInv
<1>3. VaultInv'
  BY <1>1 DEF Sound, VaultInv, Limited, Few, Ordered, AnswersFromFile, Serving,
              AcknowledgedStays, vault, account
<1> QED BY <1>2, <1>3 DEF Sound

\* The invariant holds at the start, by what the empty vault is.
LEMMA SoundInit == ASSUME Init PROVE Sound
<1>1. None \in [Conns -> Entry \cup {Absent}]
  BY DEF None
<1>2. Shapes
  <2>1. 0 \in 0..MaxVersions /\ 0 \in 0..MaxFaults
    BY VaultAssumption
  <2>2. told \in [Conns -> 0..MaxVersions] /\ version \in 0..MaxVersions
        /\ faults \in 0..MaxFaults
    BY <2>1 DEF Init
  <2>3. /\ up \in BOOLEAN /\ poison \in BOOLEAN /\ gone \subseteq Conns
        /\ entries \in [Conns -> Entry \cup {Absent}]
        /\ file \in [Conns -> Entry \cup {Absent}]
        /\ job \in [Jobs -> Job \cup {Absent}]
        /\ call \in [Jobs -> Binding \cup {Absent}]
        /\ handler \in [Handlers -> Request \cup {Absent}]
    BY <1>1 DEF Init
  <2> QED BY <2>2, <2>3 DEF Shapes
<1>3. Limited
  BY FewNone DEF Init, Limited, Few
<1>4. Ordered /\ AnswersFromFile /\ AcknowledgedStays
  BY DEF Init, None, Ordered, AnswersFromFile, AcknowledgedStays
<1>5. Submissions /\ Resumes /\ Called /\ ChosenProvider
  BY DEF Init, Submissions, Resumes, Called, ChosenProvider
<1> QED BY <1>2, <1>3, <1>4, <1>5 DEF Sound, JobInv, VaultInv

\* Every step keeps the invariant.
LEMMA SoundStep == ASSUME Sound, [Next]_vars PROVE Sound'
<1>1. CASE Next
  BY <1>1, Steps, EndKeeps, OpenKeeps, RotateKeeps, CreateKeeps, DeleteKeeps, RequestsKeep
<1>2. CASE UNCHANGED vars
  BY <1>2 DEF vars, vault, account, Sound, JobInv, VaultInv, Shapes, Limited, Few, Ordered,
              Submissions, Resumes, Called, AnswersFromFile, Serving, AcknowledgedStays,
              ChosenProvider
<1> QED BY <1>1, <1>2

\* The inductive invariant: vault and file agree, what was told holds, and
\* requests and calls only refer to jobs that are there.
THEOREM AlwaysSound == Spec => []Sound
<1>1. Init => Sound
  BY SoundInit
<1>2. Sound /\ [Next]_vars => Sound'
  BY SoundStep
<1> QED BY <1>1, <1>2, PTL DEF Spec

-----------------------------------------------------------------------------
\* Every variable keeps its type, and no account exceeds its connections
\* (connections.go:228-236), through failed saves and restarts.
THEOREM VaultTypes == Spec => []TypeOK
<1>1. Sound => TypeOK
  BY ManyOrFew DEF Sound, JobInv, VaultInv, Limited
<1> QED BY <1>1, AlwaysSound, PTL

\* The vault never answers from what a restart would not find
\* (connections.go:193-202, 316-331).
THEOREM VaultAnswersFromFile == Spec => []AnswersFromFile
<1>1. Sound => AnswersFromFile
  BY DEF Sound, VaultInv
<1> QED BY <1>1, AlwaysSound, PTL

\* What an account was told about a connection lasts
\* (connections.go:242-248, 296-304, 316-332).
THEOREM VaultKeepsWord == Spec => []AcknowledgedStays
<1>1. Sound => AcknowledgedStays
  BY DEF Sound, VaultInv
<1> QED BY <1>1, AlwaysSound, PTL

\* A page goes where its job was submitted to, whatever became of the
\* connection since (engine.go:219-223).
THEOREM PagesGoWhereChosen == Spec => []ChosenProvider
<1>1. Sound => ChosenProvider
  BY DEF Sound, JobInv
<1> QED BY <1>1, AlwaysSound, PTL

\* A page begun after an acknowledged rotation uses its credentials, or newer
\* ones (connections.go:296-303).
THEOREM RotationReachesPages == Spec => RotationApplies
<1> DEFINE Newer == \A j \in Jobs : call[j] = Absent /\ call'[j] # Absent =>
                      call'[j].secret >= told[job[j].conn]
<1>1. ASSUME Sound, [Next]_vars PROVE Newer
  <2> SUFFICES ASSUME NEW j \in Jobs, call[j] = Absent, call'[j] # Absent
               PROVE  call'[j].secret >= told[job[j].conn]
    OBVIOUS
  <2>1. BeginPage(j)
    <3>1. ~ \A k \in Jobs : call'[k] \in {call[k], Absent}
      OBVIOUS
    <3>2. Next
      BY <1>1, <3>1 DEF vars
    <3>3. \E k \in Jobs : BeginPage(k) /\ call'[j] # call[j]
      <4>1. CASE Kill \/ OperatorStops \/ OpenConnections
        BY <1>1, <3>1, <4>1, DownDrops DEF Kill, OperatorStops, OpenConnections, Sound, JobInv
      <4>2. ASSUME NEW new, Saved(new) \/ SaveFails(new) \/ SaveKilled(new) PROVE FALSE
        BY <1>1, <3>1, <4>2, DownDrops DEF Saved, SaveFails, SaveKilled, Sound, JobInv
      <4>3. CASE \E i \in Conns : Rotate(i)
        BY <4>2, <4>3 DEF Rotate
      <4>4. CASE \E i \in Conns, f \in Configs, v \in Versions : Create(i, f, v)
        BY <3>1, <4>2, <4>4 DEF Create
      <4>5. CASE \E h \in Handlers : FinishDelete(h)
        BY <3>1, <4>2, <4>5 DEF FinishDelete
      <4>6. ASSUME NEW k \in Jobs, EndPage(k) PROVE FALSE
        BY <1>1, <3>1, <4>6 DEF EndPage, Sound, JobInv, Shapes
      <4>7. CASE RequestStep
        BY <3>1, <4>6, <4>7
           DEF RequestStep, Step, BeginDelete, BeginSubmit, BeginResume, FinishSubmit,
               FinishResume, Claim, Refuse, Cancel
      <4> QED BY <3>2, <4>1, <4>3, <4>4, <4>5, <4>7, Steps
    <3> QED BY <1>1, <3>3 DEF BeginPage, Sound, JobInv, Shapes
  <2>2. Serving /\ entries[job[j].conn] # Absent
        /\ job[j] # Absent /\ call'[j].secret = entries[job[j].conn].secret
    BY <1>1, <2>1 DEF BeginPage, Usable, Found, InState, Sound, JobInv, Shapes
  <2>3. job[j].conn \in Conns /\ entries = file
    BY <1>1, <2>2 DEF Sound, JobInv, VaultInv, Shapes, Job, AnswersFromFile
  <2>4. told[job[j].conn] \in Nat /\ entries[job[j].conn].secret \in Nat
    BY <1>1, <2>2, <2>3 DEF Sound, JobInv, Shapes, Entry, Versions
  <2> QED BY <1>1, <2>2, <2>3, <2>4 DEF Sound, VaultInv, AcknowledgedStays
<1>2. Sound /\ [Next]_vars => [Newer]_vars
  BY <1>1
<1> QED BY <1>2, AlwaysSound, PTL DEF Spec, RotationApplies

-----------------------------------------------------------------------------
(* Requests one at a time.  Removal looks for active jobs and removes in   *)
(* two steps, as a submission and a resume look and then act; NoDanglingJob *)
(* fails when two of them overlap, and only then.                          *)

OneRequest == \A g, h \in Handlers : g = h

\* What request r has found is still so.
Stands(r) ==
  /\ r.kind = "submit" => r.conn \notin gone
  /\ r.kind = "resume" => job[r.job].conn \notin gone
  /\ r.kind = "delete" => Unused(r.conn)

StillSo == \A h \in Handlers : handler[h] # Absent => Stands(handler[h])

\* Only running jobs call, and only while the process runs.
Calling == \A j \in Jobs : call[j] # Absent => up /\ InState(j, {"running"})

Undangled == NoDanglingJob /\ StillSo /\ Calling

\* A connection that is found was not removed.
LEMMA FoundStays == ASSUME Sound, NEW i \in Conns, Found(i) PROVE i \notin gone
  BY DEF Sound, VaultInv, AnswersFromFile, AcknowledgedStays, Found

\* A step that activates no job, removes no connection and begins no request.
LEMMA NothingDangles ==
  ASSUME Sound, Undangled, gone' \subseteq gone,
         \A j \in Jobs : Active(j)' => Active(j),
         \A j \in Jobs : job[j] # Absent => job'[j].conn = job[j].conn,
         \A h \in Handlers : handler'[h] \in {handler[h], Absent}
  PROVE  NoDanglingJob' /\ StillSo'
<1>1. NoDanglingJob'
  BY DEF Undangled, NoDanglingJob, Active
<1>2. ASSUME NEW h \in Handlers, handler'[h] # Absent
      PROVE  Stands(handler[h])'
  <2>1. handler'[h] = handler[h] /\ handler[h] # Absent /\ handler[h] \in Request
    BY <1>2 DEF Sound, JobInv, Shapes
  <2>2. Stands(handler[h])
    BY <2>1 DEF Undangled, StillSo
  <2>3. handler[h].kind = "resume" =>
          handler[h].job \in Jobs /\ job[handler[h].job] # Absent
    BY <2>1, RequestFields DEF Sound, JobInv, Resumes
  <2>4. \A j \in Jobs : Active(j)' => Active(j) /\ job'[j].conn = job[j].conn
    BY DEF Active
  <2> QED  BY <2>1, <2>2, <2>3, <2>4 DEF Stands, Unused
<1> QED  BY <1>1, <1>2 DEF StillSo

\* A job that only changes its state.
LEMMA OnlyStates ==
  ASSUME Sound, NEW j \in Jobs, job[j] # Absent,
         NEW state \in {"queued", "running", "settled"}, Moves(j, state)
  PROVE  /\ job'[j] # Absent /\ job'[j].state = state /\ job'[j].conn = job[j].conn
         /\ \A k \in Jobs : k # j => job'[k] = job[k]
<1>1. job[j] \in Job
  BY DEF Sound, JobInv, Shapes
<1>2. job'[j] = [job[j] EXCEPT !.state = state] /\ \A k \in Jobs : k # j => job'[k] = job[k]
  BY DEF Moves, Sound, JobInv, Shapes
<1>3. [job[j] EXCEPT !.state = state].state = state
  BY <1>1 DEF Job
<1> QED  BY <1>1, <1>2, <1>3, JobMoves, NothingIsAbsent

\* An active job that moves, or one that comes to rest.
LEMMA MovesDangleNothing ==
  ASSUME Sound, Undangled, NEW j \in Jobs, Active(j),
         NEW state \in {"queued", "running", "settled"}, Moves(j, state),
         call[j] = Absent \/ call'[j] = Absent, \A k \in Jobs : call'[k] \in {call[k], Absent},
         UNCHANGED <<vault, account, faults, handler>>
  PROVE  Undangled'
<1>1. /\ job'[j] # Absent /\ job'[j].state = state /\ job'[j].conn = job[j].conn
      /\ \A k \in Jobs : k # j => job'[k] = job[k]
  BY OnlyStates DEF Active
<1>2. NoDanglingJob' /\ StillSo'
  <2>1. \A k \in Jobs : Active(k)' => Active(k)
    BY <1>1 DEF Active
  <2>2. \A k \in Jobs : job[k] # Absent => job'[k].conn = job[k].conn
    BY <1>1
  <2>3. gone' \subseteq gone /\ \A h \in Handlers : handler'[h] \in {handler[h], Absent}
    BY DEF account
  <2> QED  BY <2>1, <2>2, <2>3, NothingDangles
<1>3. Calling'
  BY <1>1 DEF Undangled, Calling, InState, vault
<1> QED  BY <1>2, <1>3 DEF Undangled

\* Where requests come one at a time, there is no other to look at.
LEMMA AloneStillSo ==
  ASSUME OneRequest, NEW h \in Handlers, (handler[h] # Absent => Stands(handler[h]))'
  PROVE  StillSo'
<1>1. \A g \in Handlers : g = h
  BY DEF OneRequest
<1> QED  BY <1>1 DEF StillSo

-----------------------------------------------------------------------------
\* A request begins: there is no other, and what it found is so.
LEMMA BeginsUndangled ==
  ASSUME Sound, Undangled, OneRequest, NEW h \in Handlers, NEW r \in Request,
         Becomes(h, r), Stands(r), UNCHANGED <<vault, job, call, account, faults>>
  PROVE  Undangled'
<1>1. handler'[h] = r
  BY DEF Becomes, Sound, JobInv, Shapes
<1>2. Stands(handler[h])'
  BY <1>1 DEF Stands, Unused, Active, account
<1>3. NoDanglingJob' /\ Calling'
  BY DEF Undangled, NoDanglingJob, Active, Calling, InState, vault, account
<1> QED  BY <1>2, <1>3, AloneStillSo DEF Undangled

\* The requests that begin: submission, resume and removal look first.
LEMMA RequestsUndangled ==
  ASSUME Sound, Undangled, OneRequest, NEW h \in Handlers,
         \/ \E i \in Conns : BeginDelete(h, i) \/ \E j \in Jobs : BeginSubmit(h, j, i)
         \/ \E j \in Jobs : BeginResume(h, j)
  PROVE  Undangled'
<1>1. ASSUME NEW i \in Conns, BeginDelete(h, i) PROVE Undangled'
  <2> DEFINE r == [kind |-> "delete", conn |-> i]
  <2>1. r \in Request /\ Stands(r)
    BY <1>1 DEF Request, Stands, BeginDelete
  <2> HIDE DEF r
  <2> QED  BY <1>1, <2>1, BeginsUndangled DEF BeginDelete, r
<1>2. ASSUME NEW i \in Conns, NEW j \in Jobs, BeginSubmit(h, j, i) PROVE Undangled'
  <2> DEFINE r == [kind |-> "submit", job |-> j, conn |-> i, config |-> entries[i].config]
  <2>1. entries[i] \in Entry
    BY <1>2 DEF BeginSubmit, Found, Sound, JobInv, Shapes
  <2>2. r \in Request
    BY <2>1 DEF Request, Entry
  <2>3. Stands(r)
    BY <1>2, FoundStays DEF BeginSubmit, Stands
  <2>4. Becomes(h, r)
    BY <1>2 DEF BeginSubmit
  <2> HIDE DEF r
  <2> QED  BY <1>2, <2>2, <2>3, <2>4, BeginsUndangled DEF BeginSubmit
<1>3. ASSUME NEW j \in Jobs, BeginResume(h, j) PROVE Undangled'
  <2> DEFINE r == [kind |-> "resume", job |-> j]
  <2>1. r \in Request
    BY DEF Request
  <2>2. job[j].conn \in Conns
    BY <1>3 DEF BeginResume, Sound, JobInv, Shapes, Job
  <2>3. Stands(r)
    BY <1>3, <2>2, FoundStays DEF BeginResume, Stands
  <2>4. Becomes(h, r)
    BY <1>3 DEF BeginResume
  <2> HIDE DEF r
  <2> QED  BY <1>3, <2>1, <2>3, <2>4, BeginsUndangled DEF BeginResume
<1> QED  BY <1>1, <1>2, <1>3

\* A submission creates its job on a connection that is still there.
LEMMA SubmitUndangled ==
  ASSUME Sound, Undangled, OneRequest, NEW h \in Handlers, FinishSubmit(h)
  PROVE  Undangled'
<1> DEFINE r == handler[h]
           new == [state |-> "queued", conn |-> r.conn, config |-> r.config]
<1>1. r \in Request /\ r # Absent /\ r.kind = "submit"
  BY DEF FinishSubmit, Sound, JobInv, Shapes
<1>2. r.job \in Jobs /\ r.conn \notin gone
  BY <1>1, RequestFields DEF Undangled, StillSo, Stands
<1>3. /\ job' = [job EXCEPT ![r.job] = new] /\ Becomes(h, Absent)
      /\ UNCHANGED <<vault, call, account, faults>>
  BY DEF FinishSubmit, Queued
<1>4. job'[r.job] = new /\ \A k \in Jobs : k # r.job => job'[k] = job[k]
  BY <1>2, <1>3 DEF Sound, JobInv, Shapes
<1>5. NoDanglingJob'
  BY <1>2, <1>3, <1>4 DEF Undangled, NoDanglingJob, Active, account
<1>6. handler'[h] = Absent
  BY <1>3 DEF Becomes, Sound, JobInv, Shapes
<1>7. Calling'
  <2>1. call[r.job] = Absent
    BY <1>1, <1>2 DEF Sound, JobInv, Submissions, Called
  <2> QED  BY <1>3, <1>4, <2>1 DEF Undangled, Calling, InState, vault
<1> QED  BY <1>5, <1>6, <1>7, AloneStillSo DEF Undangled

\* A resume queues its job on a connection that is still there.
LEMMA ResumeUndangled ==
  ASSUME Sound, Undangled, OneRequest, NEW h \in Handlers, FinishResume(h)
  PROVE  Undangled'
<1> DEFINE j == handler[h].job
<1>1. handler[h] \in Request /\ handler[h] # Absent /\ handler[h].kind = "resume"
  BY DEF FinishResume, Sound, JobInv, Shapes
<1>2. j \in Jobs /\ job[j] # Absent /\ job[j].conn \notin gone
  BY <1>1, RequestFields DEF Undangled, StillSo, Stands, Sound, JobInv, Resumes
<1>3. Becomes(h, Absent) /\ UNCHANGED <<vault, call, account, faults>>
  BY DEF FinishResume
<1>4. StillSo'
  <2>1. handler'[h] = Absent
    BY <1>3 DEF Becomes, Sound, JobInv, Shapes
  <2> QED  BY <2>1, AloneStillSo
<1>5. CASE Active(j)
  <2>1. job' = job
    BY <1>5 DEF FinishResume
  <2> QED  BY <1>3, <1>4, <2>1
           DEF Undangled, NoDanglingJob, Active, Calling, InState, vault, account
<1>6. CASE ~Active(j)
  <2>1. Moves(j, "queued")
    BY <1>6 DEF FinishResume, Moves
  <2> HIDE DEF j
  <2>2. /\ job'[j] # Absent /\ job'[j].conn = job[j].conn
        /\ \A k \in Jobs : k # j => job'[k] = job[k]
    BY <1>2, <2>1, OnlyStates
  <2>3. NoDanglingJob'
    BY <1>2, <1>3, <2>2 DEF Undangled, NoDanglingJob, Active, account
  <2>4. Calling'
    <3>1. call[j] = Absent
      BY <1>2, <1>6 DEF Undangled, Calling, InState, Active
    <3> QED  BY <1>3, <2>2, <3>1 DEF Undangled, Calling, InState, vault
  <2> QED  BY <1>4, <2>3, <2>4 DEF Undangled
<1> QED  BY <1>5, <1>6

-----------------------------------------------------------------------------
\* The steps of a job.
LEMMA JobsUndangled ==
  ASSUME Sound, Undangled, NEW j \in Jobs, Step(j) \/ Cancel(j)
  PROVE  Undangled'
<1>1. CASE Claim(j) \/ Refuse(j) \/ Cancel(j)
  <2>1. Active(j) /\ UNCHANGED <<vault, call, handler, account, faults>>
    BY <1>1 DEF Claim, Refuse, Cancel, InState, Active
  <2>2. \E state \in {"queued", "running", "settled"} : Moves(j, state)
    BY <1>1 DEF Claim, Refuse, Cancel
  <2>3. call[j] = Absent
    BY <1>1 DEF Claim, Refuse, Cancel, InState, Undangled, Calling
  <2> QED  BY <2>1, <2>2, <2>3, MovesDangleNothing
<1>2. CASE BeginPage(j)
  <2>1. /\ up /\ InState(j, {"running"})
        /\ UNCHANGED <<vault, job, handler, account, faults>>
        /\ \A k \in Jobs : k # j => call'[k] = call[k]
    BY <1>2 DEF BeginPage, Sound, JobInv, Shapes
  <2>2. Calling'
    BY <2>1 DEF Undangled, Calling, InState, vault
  <2>3. NoDanglingJob' /\ StillSo'
    BY <2>1 DEF Undangled, NoDanglingJob, StillSo, Stands, Unused, Active, account
  <2> QED  BY <2>2, <2>3 DEF Undangled
<1>3. CASE EndPage(j)
  <2>1. /\ call[j] # Absent /\ UNCHANGED <<vault, handler, account, faults>>
        /\ call'[j] = Absent /\ \A k \in Jobs : call'[k] \in {call[k], Absent}
    BY <1>3 DEF EndPage, Sound, JobInv, Shapes
  <2>2. Active(j)
    BY <2>1 DEF Undangled, Calling, InState, Active
  <2>3. CASE UNCHANGED job
    <3>1. Calling'
      BY <2>1, <2>3 DEF Undangled, Calling, InState, vault
    <3>2. NoDanglingJob' /\ StillSo'
      BY <2>1, <2>3 DEF Undangled, NoDanglingJob, StillSo, Stands, Unused, Active, account
    <3> QED  BY <3>1, <3>2 DEF Undangled
  <2>4. ASSUME NEW state \in {"queued", "settled"}, Moves(j, state)
        PROVE  Undangled'
    BY <2>1, <2>2, <2>4, MovesDangleNothing
  <2> QED  BY <1>3, <2>3, <2>4 DEF EndPage
<1> QED  BY <1>1, <1>2, <1>3 DEF Step

\* Jobs and requests stay, or requests and calls end with the process.
LEMMA QuietUndangled ==
  ASSUME Sound, Undangled, UNCHANGED job, gone' \subseteq gone,
         \/ UNCHANGED <<up, call, handler>>
         \/ Down
  PROVE  Undangled'
<1>1. \A h \in Handlers : handler'[h] \in {handler[h], Absent}
  BY DownDrops DEF Sound, JobInv
<1>2. NoDanglingJob' /\ StillSo'
  BY <1>1, NothingDangles DEF Active
<1>3. Calling'
  BY DEF Undangled, Calling, InState, Down
<1> QED  BY <1>2, <1>3 DEF Undangled

\* A removal ends: it looked for active jobs, and no request came between.
LEMMA DeleteUndangled ==
  ASSUME Sound, Undangled, OneRequest, NEW h \in Handlers, FinishDelete(h)
  PROVE  Undangled'
<1> DEFINE i == handler[h].conn
           new == [file EXCEPT ![i] = Absent]
<1>1. Unused(i) /\ UNCHANGED job /\ gone' \subseteq gone \cup {i}
  BY DEF FinishDelete, Undangled, StillSo, Stands
<1>2. NoDanglingJob'
  BY <1>1 DEF Undangled, NoDanglingJob, Unused, Active
<1>3. handler'[h] = Absent
  BY DEF FinishDelete, SaveKilled, Down, Becomes, Sound, JobInv, Shapes
<1>4. Calling'
  <2>1. UNCHANGED <<up, call>> \/ Down
    BY DEF FinishDelete, Saved, SaveFails, SaveKilled, vault
  <2> QED  BY <1>1, <2>1 DEF Undangled, Calling, InState, Down
<1> QED  BY <1>2, <1>3, <1>4, AloneStillSo DEF Undangled

\* Every step, when requests come one at a time.
LEMMA StepUndangled ==
  ASSUME Sound, Undangled, OneRequest, [Next]_vars
  PROVE  Undangled'
<1>1. CASE Kill \/ OperatorStops
  BY <1>1, QuietUndangled DEF Kill, OperatorStops, account
<1>2. CASE OpenConnections
  <2>1. /\ \A j \in Jobs : call[j] = Absent
        /\ UNCHANGED <<call, handler, account>>
    BY <1>2 DEF OpenConnections, Undangled, Calling
  <2>2. ASSUME NEW j \in Jobs
        PROVE  /\ Active(j)' => Active(j)
               /\ job[j] # Absent => job'[j].conn = job[j].conn
    <3>1. job'[j] = IF InState(j, {"running"}) THEN [job[j] EXCEPT !.state = "queued"]
                    ELSE job[j]
      BY <1>2 DEF OpenConnections
    <3>2. CASE InState(j, {"running"})
      <4>1. job[j] \in Job
        BY <3>2 DEF InState, Sound, JobInv, Shapes
      <4> QED  BY <3>1, <3>2, <4>1, JobMoves DEF InState, Active
    <3>3. CASE ~InState(j, {"running"})
      BY <3>1, <3>3 DEF Active
    <3> QED  BY <3>2, <3>3
  <2>3. NoDanglingJob' /\ StillSo'
    BY <2>1, <2>2, NothingDangles DEF account
  <2> QED  BY <2>1, <2>3 DEF Undangled, Calling
<1>3. ASSUME NEW i \in Conns, Rotate(i) PROVE Undangled'
  BY <1>3, QuietUndangled DEF Rotate, Saved, SaveFails, SaveKilled
<1>4. ASSUME NEW i \in Conns, NEW f \in Configs, NEW v \in Versions, Create(i, f, v)
      PROVE  Undangled'
  BY <1>4, QuietUndangled DEF Create, Saved, SaveFails, SaveKilled, vault
<1>5. ASSUME NEW h \in Handlers, FinishDelete(h) PROVE Undangled'
  BY <1>5, DeleteUndangled
<1>6. CASE RequestStep
  BY <1>6, RequestsUndangled, SubmitUndangled, ResumeUndangled, JobsUndangled DEF RequestStep
<1>7. CASE UNCHANGED vars
  BY <1>7, QuietUndangled DEF vars, vault, account
<1> QED  BY <1>1, <1>2, <1>3, <1>4, <1>5, <1>6, <1>7, Steps

\* While requests of an account come one at a time, no active job is on a
\* connection that was removed: the two steps of each are all that goes wrong
\* in NoDanglingJob (api.go:132-141; engine.go:90-105).
THEOREM NothingDanglesAlone == ASSUME OneRequest PROVE Spec => []NoDanglingJob
<1>1. Init => Undangled
  BY DEF Init, Undangled, NoDanglingJob, StillSo, Calling, Active
<1>2. Sound /\ Undangled /\ [Next]_vars => Undangled'
  BY StepUndangled
<1>3. Undangled => NoDanglingJob
  BY DEF Undangled
<1> QED  BY <1>1, <1>2, <1>3, AlwaysSound, PTL DEF Spec
=============================================================================
