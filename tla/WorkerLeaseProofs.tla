--------------------------- MODULE WorkerLeaseProofs ---------------------------
(***************************************************************************)
(* Theorems about WorkerLease: the safety properties of the runs           *)
(* "lease_one" and "lease_two", for any number of jobs, pages and faults   *)
(* and any periods of which the lease is longer than the worker's timer    *)
(* and the time-out of its request together.                               *)
(*                                                                         *)
(* The argument is about what the worker may rely on.  An answer on its    *)
(* way was given after the request was sent, so what is left of the lease  *)
(* outlasts what is left of the timer (Leased, Assigned); a lease that     *)
(* still runs keeps every claim away, and a report that is served late is  *)
(* of another lease or says nothing new of this one (Harmless).            *)
(***************************************************************************)
EXTENDS WorkerLease, FiniteSetTheorems, TLAPS

CPRec == [state : States, pages : 0..LastPage, gen : 0..MaxResumes,
          lease : Leases \cup {0}]
WorkerRec == [pc : {"down", "publish", "claim", "claiming", "rejecting",
                    "executing", "reporting", "joining"},
              job : 0..NumJobs, lease : Leases \cup {0}, final : BOOLEAN]
Reports == [kind : {"report"}, job : Jobs, lease : Leases, state : States,
            pages : 0..LastPage]
Assignments == [kind : {"assigned"}, job : Jobs, lease : Leases,
                gen : 0..MaxResumes, pages : 0..LastPage, cancel : BOOLEAN]

\* Messages carry what their kinds say.
Messages ==
  /\ link.kind = "report" => link \in Reports
  /\ link.kind = "assigned" => link \in Assignments
  /\ late.kind = "report" => late \in Reports

\* A resume is counted, and a scan that has not ended has a page to read.
Counted == \A j \in Jobs : cp[j].gen <= resumes
Scanning == \A j \in Jobs : local[j].exhausted \/ local[j].cursor < LastPage

Holds == {"executing", "reporting", "joining"}

\* Where the worker stands, what it holds there, and what its request is.
Places ==
  /\ worker.pc \in Holds <=> worker.job # 0
  /\ worker.job # 0 => worker.lease # 0
  /\ link.kind \in {"claim", "nothing", "assigned"} => worker.pc = "claiming"
  /\ link.kind \in {"report", "accepted", "refused"} =>
       worker.pc \in {"reporting", "rejecting"}
  /\ link.kind = "report" /\ worker.pc = "reporting" =>
       link.job = worker.job /\ link.lease = worker.lease

\* The engine runs for an assignment, and its job with it.
Runs ==
  /\ engine # "none" => worker.pc \in Holds /\ ~worker.final
  /\ engine = "starting" => worker.pc # "reporting"
  /\ engine \in {"working", "acknowledged"} => local[worker.job].state \in Busy
  /\ engine = "acknowledged" => ~local[worker.job].exhausted

\* What an answer may rely on: its lease was granted or renewed after it was
\* asked for.
Remains == LeaseTicks - (RequestTicks - asked)

\* While the engine runs, the lease outlasts the worker's timer, and the
\* control plane knows no more of the job than the worker.
Leased ==
  engine # "none" =>
    /\ cp[worker.job].state \in Busy
    /\ cp[worker.job].lease = worker.lease
    /\ left[worker.job] > timer
    /\ localGen[worker.job] = cp[worker.job].gen
    /\ local[worker.job].cursor >= cp[worker.job].pages
    /\ link.kind = "accepted" => left[worker.job] >= Remains

\* A report of the running job does not end it, nor goes beyond the worker.
Harmless(r) ==
  engine # "none" /\ r.kind = "report" /\ r.job = worker.job /\ r.lease = worker.lease =>
    r.state \in Busy /\ r.pages <= local[r.job].cursor

\* An assignment under way is of the live lease, and as it was made.
Assigned ==
  link.kind = "assigned" =>
    /\ cp[link.job].state \in Busy
    /\ cp[link.job].lease = link.lease
    /\ left[link.job] >= Remains
    /\ cp[link.job].pages = link.pages
    /\ cp[link.job].gen = link.gen
    /\ late.kind = "report" => late.lease # link.lease

Sound ==
  /\ TypeOK
  /\ Messages /\ Counted /\ Scanning /\ Places /\ Runs
  /\ Leased /\ Harmless(link) /\ Harmless(late) /\ Assigned
  /\ OneLiveLease

-----------------------------------------------------------------------------
(* Facts about the operators of the model.                                 *)

\* What is left of a fresh lease outlasts both of the worker's clocks.
LEMMA Clocks ==
  ASSUME TypeOK
  PROVE  /\ Remains \in 1..LeaseTicks
         /\ Heard \in 0..TimerTicks
         /\ Remains > Heard /\ Remains > 0
         /\ LeaseTicks > TimerTicks /\ RequestTicks \in Nat /\ TimerTicks \in Nat
<1>1. asked \in 0..RequestTicks
  BY DEF TypeOK
<1> QED  BY <1>1, LeaseAssumption DEF Remains, Heard

\* A lease is free whenever at most one report is under way, so that the one
\* a claim grants is nobody's.
LEMMA NewLeaseIsNew ==
  ASSUME TypeOK, link.kind # "report" \/ late.kind # "report"
  PROVE  NewLease \in Leases /\ NewLease \notin InUse
<1> DEFINE Held == {cp[j].lease : j \in Jobs}
           f == [j \in Jobs |-> cp[j].lease]
<1>1. IsFiniteSet(Held) /\ Cardinality(Held) \in Nat /\ Cardinality(Held) <= NumJobs
  <2>1. f \in Surjection(Jobs, Held)
    BY DEF Surjection
  <2>2. IsFiniteSet(Jobs) /\ Cardinality(Jobs) = NumJobs
    BY FS_Interval, LeaseAssumption DEF Jobs
  <2> HIDE DEF f, Held
  <2>3. IsFiniteSet(Held) /\ Cardinality(Held) <= Cardinality(Jobs)
    BY <2>1, <2>2, FS_Surjection
  <2> QED  BY <2>2, <2>3, FS_CardinalityType
<1>2. PICK x \in {link.lease, late.lease} : InUse \subseteq (Held \cup {worker.lease}) \cup {x}
  BY DEF InUse
<1> HIDE DEF Held
<1> DEFINE A == Held \cup {worker.lease}
           B == A \cup {x}
<1>3. IsFiniteSet(A) /\ Cardinality(A) \in Nat /\ Cardinality(A) <= NumJobs + 1
  <2>1. IsFiniteSet(A) /\ (\/ Cardinality(A) = Cardinality(Held)
                          \/ Cardinality(A) = Cardinality(Held) + 1)
    BY <1>1, FS_AddElement
  <2> HIDE DEF A
  <2> QED  BY <1>1, <2>1, LeaseAssumption
<1>4. IsFiniteSet(B) /\ Cardinality(B) \in Nat /\ Cardinality(B) <= NumJobs + 2
  <2> HIDE DEF A
  <2>1. IsFiniteSet(B) /\ (\/ Cardinality(B) = Cardinality(A)
                          \/ Cardinality(B) = Cardinality(A) + 1)
    BY <1>3, FS_AddElement
  <2> HIDE DEF B
  <2> QED  BY <1>3, <2>1, LeaseAssumption
<1>5. InUse \subseteq B
  BY <1>2
<1> HIDE DEF A, B
<1>6. IsFiniteSet(Leases) /\ Cardinality(Leases) = NumJobs + 3
  BY FS_Interval, LeaseAssumption DEF Leases
<1>7. ~(Leases \subseteq B)
  <2>1. SUFFICES ASSUME Leases \in SUBSET B
                 PROVE  FALSE
    OBVIOUS
  <2>2. Cardinality(Leases) <= Cardinality(B)
    BY <1>4, <2>1, FS_Subset
  <2> QED  BY <1>4, <1>6, <2>2, LeaseAssumption
<1>8. \E l \in Leases : l \notin InUse
  BY <1>5, <1>7
<1> QED  BY <1>8 DEF NewLease

\* The updates of a job that leave its scan alone.
Keeps(r, q) ==
  /\ q \in JobType(LastPage)
  /\ q.cursor = r.cursor /\ q.exhausted = r.exhausted

LEMMA UpdatesKeep ==
  ASSUME NEW r \in JobType(LastPage)
  PROVE  /\ Keeps(r, CancelAsked(r)) /\ Keeps(r, Resumed(r)) /\ Keeps(r, Started(r))
         /\ Keeps(r, Recovered(r)) /\ Keeps(r, RestartScheduled(r))
         /\ \A v \in States : Keeps(r, Finished(r, v))
<1> USE DEF Keeps, JobType, States
<1>1. Keeps(r, CancelAsked(r))
  BY DEF CancelAsked
<1>2. Keeps(r, Resumed(r))
  BY DEF Resumed
<1>3. Keeps(r, Started(r))
  BY DEF Started
<1>4. Keeps(r, Recovered(r))
  BY DEF Recovered, CancelWins
<1>5. Keeps(r, RestartScheduled(r))
  <2>1. CASE r.state = "cancel_requested"
    <3>1. RestartScheduled(r) = [r EXCEPT !.state = "canceled"]
      BY <2>1 DEF RestartScheduled
    <3> QED  BY <3>1
  <2>2. CASE r.state # "cancel_requested"
    <3> DEFINE q == [r EXCEPT !.state = "retry_wait"]
    <3>1. q \in JobType(LastPage) /\ Keeps(r, q)
      OBVIOUS
    <3>2. RestartScheduled(r) = [q EXCEPT !.restarts = r.restarts + 1]
      BY <2>2 DEF RestartScheduled
    <3>3. r.restarts + 1 \in Nat
      OBVIOUS
    <3> HIDE DEF q
    <3> QED  BY <3>1, <3>2, <3>3
  <2> QED  BY <2>1, <2>2
<1>6. \A v \in States : Keeps(r, Finished(r, v))
  BY DEF Finished, CancelWins
<1> QED  BY <1>1, <1>2, <1>3, <1>4, <1>5, <1>6

LEMMA NewJobType ==
  /\ Absent \in JobType(LastPage) /\ NewJob \in JobType(LastPage)
  /\ NewJob.cursor = 0 /\ NewJob.state = "queued" /\ 0 < LastPage
  /\ Absent.cursor = 0
<1>1. LastPage \in Nat \ {0}
  BY LeaseAssumption
<1>2. Absent \in JobType(LastPage) /\ Absent.cursor = 0
  BY <1>1 DEF Absent, JobType, States
<1>3. NewJob \in JobType(LastPage) /\ NewJob.cursor = 0 /\ NewJob.state = "queued"
  BY <1>2 DEF NewJob, JobType, States
<1> QED  BY <1>1, <1>2, <1>3

\* The record of the job in the worker's hands.
LEMMA Typed ==
  ASSUME TypeOK
  PROVE  /\ cp \in [Jobs -> CPRec] /\ left \in [Jobs -> 0..LeaseTicks]
         /\ local \in [Jobs -> JobType(LastPage)]
         /\ localGen \in [Jobs -> 0..MaxResumes]
         /\ worker \in WorkerRec
         /\ worker.job # 0 => worker.job \in Jobs
         /\ LastPage \in Nat /\ MaxResumes \in Nat /\ NumJobs \in Nat
         /\ LeaseTicks \in Nat /\ TimerTicks \in Nat /\ RequestTicks \in Nat
         /\ timer \in 0..TimerTicks /\ resumes \in 0..MaxResumes
         /\ asked \in 0..RequestTicks
<1>1. worker \in WorkerRec
  BY DEF TypeOK, WorkerRec
<1>2. worker.job \in 0..NumJobs
  BY <1>1 DEF WorkerRec
<1>3. worker.job # 0 => worker.job \in Jobs
  BY <1>2, LeaseAssumption DEF Jobs
<1> QED  BY <1>1, <1>3, LeaseAssumption DEF TypeOK, CPRec

LEMMA SetCPTyped ==
  ASSUME TypeOK, NEW j \in Jobs, NEW new \in CPRec, SetCP(j, new)
  PROVE  /\ cp' \in [Jobs -> CPRec] /\ cp'[j] = new
         /\ \A k \in Jobs : k # j => cp'[k] = cp[k]
<1>1. cp \in [Jobs -> CPRec]
  BY Typed
<1> QED  BY <1>1 DEF SetCP

-----------------------------------------------------------------------------
(* Steps of the control plane.                                             *)

\* The owner's calls leave what is executed and its lease alone.
Steady ==
  /\ cp' \in [Jobs -> CPRec] /\ left' \in [Jobs -> 0..LeaseTicks]
  /\ resumes' \in 0..MaxResumes
  /\ \A j \in Jobs :
       /\ cp'[j].gen <= resumes'
       /\ cp'[j].state \in Busy <=> cp[j].state \in Busy
       /\ cp[j].state \in Busy =>
            /\ cp'[j].lease = cp[j].lease /\ cp'[j].pages = cp[j].pages
            /\ cp'[j].gen = cp[j].gen /\ left'[j] = left[j]
  /\ UNCHANGED <<published, workerVars, link, asked, late, stored, faults>>

LEMMA SteadyKeeps ==
  ASSUME Sound, Steady
  PROVE  Sound'
<1> USE DEF workerVars
<1>1. TypeOK'
  BY DEF Sound, TypeOK, Steady, CPRec
<1>2. Messages' /\ Counted' /\ Scanning' /\ Places' /\ Runs'
  BY DEF Sound, Messages, Counted, Scanning, Places, Runs, Steady
<1>3. Harmless(link)' /\ Harmless(late)'
  BY DEF Sound, Harmless, Steady
<1>4. Leased'
  <2>1. engine # "none" => worker.job \in Jobs
    BY Typed DEF Sound, Runs, Places
  <2> QED  BY <2>1 DEF Sound, Leased, Remains, Steady
<1>5. Assigned'
  <2>1. link.kind = "assigned" => link.job \in Jobs
    BY DEF Sound, Messages, Assignments
  <2> QED  BY <2>1 DEF Sound, Assigned, Remains, Steady
<1>6. OneLiveLease'
  BY DEF Sound, OneLiveLease, Steady
<1> QED  BY <1>1, <1>2, <1>3, <1>4, <1>5, <1>6 DEF Sound

LEMMA SubmitKeeps ==
  ASSUME Sound, NEW j \in Jobs, Submit(j)
  PROVE  Sound'
<1> DEFINE new == [CPAbsent EXCEPT !.state = "queued"]
<1>1. TypeOK /\ Counted
  BY DEF Sound
<1>2. new \in CPRec /\ new.gen = 0 /\ new.state = "queued"
  BY Typed, <1>1 DEF CPRec, CPAbsent, States
<1>3. cp[j].state = "absent"
  BY DEF Submit, CPAbsent
<1>4. SetCP(j, new)
  BY DEF Submit
<1> HIDE DEF new
<1>5. /\ cp' \in [Jobs -> CPRec] /\ cp'[j] = new
      /\ \A k \in Jobs : k # j => cp'[k] = cp[k]
  BY <1>1, <1>2, <1>4, SetCPTyped
<1>6. left' = left /\ resumes' = resumes
  BY DEF Submit
<1>7. UNCHANGED <<published, workerVars, link, asked, late, stored, faults>>
  BY DEF Submit
<1>8. Steady
  BY Typed, <1>1, <1>2, <1>3, <1>5, <1>6, <1>7 DEF Steady, Counted, Busy
<1> QED  BY <1>8, SteadyKeeps

LEMMA CancelKeeps ==
  ASSUME Sound, NEW j \in Jobs, Cancel(j)
  PROVE  Sound'
<1> DEFINE new == CancelAsked(cp[j])
<1>1. TypeOK /\ Counted /\ cp[j] \in CPRec
  BY Typed DEF Sound
<1>2. /\ new \in CPRec /\ new.gen = cp[j].gen /\ new.lease = cp[j].lease
      /\ new.pages = cp[j].pages
      /\ new.state \in Busy <=> cp[j].state \in Busy
  BY <1>1 DEF CPRec, CancelAsked, States, Busy
<1>3. SetCP(j, new)
  BY DEF Cancel
<1> HIDE DEF new
<1>4. /\ cp' \in [Jobs -> CPRec] /\ cp'[j] = new
      /\ \A k \in Jobs : k # j => cp'[k] = cp[k]
  BY <1>1, <1>2, <1>3, SetCPTyped
<1>5. left' = left /\ resumes' = resumes
  BY DEF Cancel
<1>6. UNCHANGED <<published, workerVars, link, asked, late, stored, faults>>
  BY DEF Cancel
<1>7. Steady
  BY Typed, <1>1, <1>2, <1>4, <1>5, <1>6 DEF Steady, Counted
<1> QED  BY <1>7, SteadyKeeps

LEMMA ResumeKeeps ==
  ASSUME Sound, NEW j \in Jobs, Resume(j)
  PROVE  Sound'
<1> DEFINE new == [cp[j] EXCEPT !.state = "queued", !.gen = @ + 1, !.lease = 0]
<1>1. TypeOK /\ Counted /\ cp[j] \in CPRec /\ cp[j].gen <= resumes
  BY Typed DEF Sound, Counted
<1>2. resumes' = resumes + 1 /\ resumes' \in 0..MaxResumes
  BY Typed, <1>1 DEF Resume
<1>3. cp[j].gen + 1 \in 0..MaxResumes /\ cp[j].gen + 1 <= resumes'
  BY Typed, <1>1, <1>2 DEF CPRec
<1>4. new \in CPRec /\ new.gen = cp[j].gen + 1 /\ new.state = "queued"
  BY <1>1, <1>3 DEF CPRec, States
<1>5. cp[j].state \notin Busy
  BY DEF Resume, Resumable, Busy
<1>6. SetCP(j, new) /\ left' = [left EXCEPT ![j] = 0]
  BY DEF Resume
<1> HIDE DEF new
<1>7. /\ cp' \in [Jobs -> CPRec] /\ cp'[j] = new
      /\ \A k \in Jobs : k # j => cp'[k] = cp[k]
  BY <1>1, <1>4, <1>6, SetCPTyped
<1>8. left' \in [Jobs -> 0..LeaseTicks] /\ \A k \in Jobs : k # j => left'[k] = left[k]
  BY Typed, <1>1, <1>6
<1>9. UNCHANGED <<published, workerVars, link, asked, late, stored, faults>>
  BY DEF Resume, workerVars
<1>10. \A k \in Jobs : cp'[k].gen <= resumes'
  <2>1. \A k \in Jobs : cp[k].gen \in Int /\ cp[k].gen <= resumes
    BY Typed, <1>1 DEF Counted, CPRec
  <2> QED  BY Typed, <1>1, <1>2, <1>3, <1>4, <1>7, <2>1
<1>11. Steady
  BY <1>2, <1>4, <1>5, <1>7, <1>8, <1>9, <1>10 DEF Steady, Busy
<1> QED  BY <1>11, SteadyKeeps

\* What ClaimWorker leaves behind: a live lease of the job it granted, if any,
\* and no other.
LEMMA ClaimMoves ==
  ASSUME TypeOK, Counted, link.kind # "report" \/ late.kind # "report",
         NEW due, NEW j \in Jobs, Picked(j, due), LeasePicked(j) \/ RefusePicked(j)
  PROVE  /\ cp' \in [Jobs -> CPRec] /\ left' \in [Jobs -> 0..LeaseTicks]
         /\ \A k \in Jobs : cp'[k].gen <= resumes
         /\ OneLiveLease'
         /\ LeasePicked(j) =>
              /\ cp'[j].state \in Busy /\ cp'[j].lease = NewLease
              /\ left'[j] = LeaseTicks
<1>1. PICK new \in CPRec : /\ SetCP(j, new) /\ new.gen = cp[j].gen
                           /\ LeasePicked(j) => new.state \in Busy /\ new.lease = NewLease
  <2>0. cp[j] \in CPRec /\ NewLease \in Leases
    BY Typed, NewLeaseIsNew
  <2>1. CASE LeasePicked(j)
    <3>1. /\ Granted(j) \in CPRec /\ Granted(j).gen = cp[j].gen
          /\ Granted(j).state \in Busy /\ Granted(j).lease = NewLease
      BY <2>0 DEF Granted, CPRec, Busy, States
    <3>2. SetCP(j, Granted(j))
      BY <2>1 DEF LeasePicked
    <3> QED  BY <3>1, <3>2
  <2>2. CASE RefusePicked(j) /\ ~LeasePicked(j)
    <3> DEFINE new == [cp[j] EXCEPT !.state = "failed", !.lease = 0]
    <3>1. new \in CPRec /\ new.gen = cp[j].gen
      BY <2>0 DEF CPRec, States
    <3>2. SetCP(j, new)
      BY <2>2 DEF RefusePicked
    <3> HIDE DEF new
    <3> QED  BY <2>2, <3>1, <3>2
  <2> QED  BY <2>1, <2>2
<1>2. /\ cp' \in [Jobs -> CPRec] /\ cp'[j] = new
      /\ \A k \in Jobs : k # j => cp'[k] = cp[k]
  BY <1>1, SetCPTyped
<1>3. PICK ticks \in 0..LeaseTicks : /\ left' = [left EXCEPT ![j] = ticks]
                                     /\ LeasePicked(j) => ticks = LeaseTicks
  <2>0. LeaseTicks \in 0..LeaseTicks /\ 0 \in 0..LeaseTicks
    BY Typed
  <2>1. CASE LeasePicked(j)
    <3>1. left' = [left EXCEPT ![j] = LeaseTicks]
      BY <2>1 DEF LeasePicked
    <3> QED  BY <2>0, <3>1
  <2>2. CASE RefusePicked(j) /\ ~LeasePicked(j)
    <3>1. left' = [left EXCEPT ![j] = 0]
      BY <2>2 DEF RefusePicked
    <3> QED  BY <2>0, <2>2, <3>1
  <2> QED  BY <2>1, <2>2
<1>4. /\ left' \in [Jobs -> 0..LeaseTicks] /\ left'[j] = ticks
      /\ \A k \in Jobs : k # j => left'[k] = left[k]
  BY Typed, <1>3
<1>5. \A k \in Jobs : cp'[k].gen <= resumes
  BY <1>1, <1>2 DEF Counted
<1>6. OneLiveLease'
  <2>1. \A k \in Jobs : ~(cp[k].state \in Busy /\ left[k] > 0)
    BY DEF Picked, LiveLease
  <2> QED  BY <1>2, <1>4, <2>1 DEF OneLiveLease
<1> QED  BY <1>1, <1>2, <1>3, <1>4, <1>5, <1>6

\* A report under way is one that the worker's state bears out.
Renewing(r) ==
  /\ r \in Reports
  /\ Harmless(r)
  /\ Acceptable(r) /\ ReportWorker(r)

\* What ReportWorker leaves behind: it renews the lease of the running job, or
\* takes a job away from the worker that the engine does not run.
LEMMA ReportMoves ==
  ASSUME Sound, NEW r, Renewing(r)
  PROVE  /\ cp' \in [Jobs -> CPRec] /\ left' \in [Jobs -> 0..LeaseTicks]
         /\ \A k \in Jobs : cp'[k].gen = cp[k].gen
         /\ \A k \in Jobs : k # r.job => cp'[k] = cp[k] /\ left'[k] = left[k]
         /\ OneLiveLease'
         /\ engine # "none" =>
              /\ cp'[worker.job].state \in Busy
              /\ cp'[worker.job].lease = worker.lease
              /\ left'[worker.job] \in {left[worker.job], LeaseTicks}
              /\ r.job = worker.job => left'[worker.job] = LeaseTicks
              /\ local[worker.job].cursor >= cp'[worker.job].pages
<1> DEFINE j == r.job
           state == Reported(cp[j].state, r.state)
           held == state \in Busy
           new == [cp[j] EXCEPT !.state = state, !.pages = r.pages,
                                !.lease = IF held THEN @ ELSE 0]
<1>1. /\ TypeOK /\ j \in Jobs /\ r.state \in States /\ r.pages \in 0..LastPage
      /\ cp[j] \in CPRec
  BY Typed DEF Sound, Renewing, Reports
<1>2. /\ cp[j].lease = r.lease /\ left[j] > 0 /\ cp[j].state \in Busy
      /\ r.pages >= cp[j].pages
  BY DEF Renewing, Acceptable
<1>3. state \in States /\ (r.state \in Busy => held)
  BY <1>1 DEF Reported, Busy, States
<1>4. SetCP(j, new) /\ left' = [left EXCEPT ![j] = Renewed(j, held)]
  BY DEF Renewing, ReportWorker
<1> HIDE DEF state
<1>5. /\ new \in CPRec /\ new.gen = cp[j].gen /\ new.pages = r.pages
      /\ new.state = state /\ (held => new.lease = cp[j].lease)
  BY <1>1, <1>3 DEF CPRec
<1> HIDE DEF new
<1>6. /\ cp' \in [Jobs -> CPRec] /\ cp'[j] = new
      /\ \A k \in Jobs : k # j => cp'[k] = cp[k]
  BY <1>1, <1>4, <1>5, SetCPTyped
<1>7. /\ left' \in [Jobs -> 0..LeaseTicks]
      /\ left'[j] = IF held THEN LeaseTicks ELSE 0
      /\ \A k \in Jobs : k # j => left'[k] = left[k]
  <2>1. Renewed(j, held) \in 0..LeaseTicks
    BY Typed, <1>1 DEF Renewed
  <2> QED  BY Typed, <1>1, <1>4, <2>1 DEF Renewed
<1>8. OneLiveLease'
  <2>1. \A k \in Jobs : cp'[k].state \in Busy /\ left'[k] > 0
                          => cp[k].state \in Busy /\ left[k] > 0
    BY <1>2, <1>6, <1>7
  <2> QED  BY <2>1 DEF Sound, OneLiveLease
<1>9. ASSUME engine # "none"
      PROVE  /\ cp'[worker.job].state \in Busy
             /\ cp'[worker.job].lease = worker.lease
             /\ left'[worker.job] \in {left[worker.job], LeaseTicks}
             /\ j = worker.job => left'[worker.job] = LeaseTicks
             /\ local[worker.job].cursor >= cp'[worker.job].pages
  <2>1. worker.job \in Jobs
    BY Typed, <1>9 DEF Sound, Runs, Places
  <2>2. /\ cp[worker.job].state \in Busy
        /\ cp[worker.job].lease = worker.lease
        /\ local[worker.job].cursor >= cp[worker.job].pages
    BY <1>9 DEF Sound, Leased
  <2>3. CASE j # worker.job
    BY <1>6, <1>7, <2>1, <2>2, <2>3
  <2>4. CASE j = worker.job
    <3>1. r.lease = worker.lease /\ r.kind = "report"
      BY <1>2, <2>2, <2>4 DEF Renewing, Reports
    <3>2. r.state \in Busy /\ r.pages <= local[j].cursor
      BY <1>9, <2>4, <3>1 DEF Renewing, Harmless
    <3>3. held
      BY <1>3, <3>2
    <3>4. local[j].cursor >= cp'[j].pages
      <4>1. local[j].cursor \in Int /\ r.pages \in Int
        BY Typed, <1>1 DEF JobType
      <4> QED  BY <1>5, <1>6, <3>2, <4>1
    <3> QED  BY <1>5, <1>6, <1>7, <2>2, <2>4, <3>3, <3>4
  <2> QED  BY <2>3, <2>4
<1> QED  BY <1>5, <1>6, <1>7, <1>8, <1>9

\* A claim finds a job only when the worker relies on no lease.
LEMMA NothingHeld ==
  ASSUME Sound, ~LiveLease
  PROVE  engine = "none" /\ link.kind # "assigned"
<1>1. TypeOK /\ left \in [Jobs -> 0..LeaseTicks] /\ timer \in Nat
  BY Typed DEF Sound
<1>2. ASSUME engine # "none"
      PROVE  FALSE
  <2>1. worker.job \in Jobs
    BY Typed, <1>1, <1>2 DEF Sound, Runs, Places
  <2>2. cp[worker.job].state \in Busy /\ left[worker.job] > timer
    BY <1>2 DEF Sound, Leased
  <2> QED  BY <1>1, <2>1, <2>2 DEF LiveLease
<1>3. ASSUME link.kind = "assigned"
      PROVE  FALSE
  <2>1. link.job \in Jobs
    BY <1>3 DEF Sound, Messages, Assignments
  <2>2. cp[link.job].state \in Busy /\ left[link.job] >= Remains
    BY <1>3 DEF Sound, Assigned
  <2>3. Remains > 0 /\ Remains \in Int
    BY Clocks, <1>1
  <2> QED  BY <1>1, <2>1, <2>2, <2>3 DEF LiveLease
<1> QED  BY <1>2, <1>3

LEMMA ServeClaimKeeps ==
  ASSUME Sound, ServeClaim
  PROVE  Sound'
<1> USE DEF workerVars
<1>1. /\ TypeOK /\ Counted /\ Scanning /\ Messages
      /\ link.kind = "claim" /\ worker.pc = "claiming" /\ engine = "none"
  BY DEF Sound, Places, Runs, Holds, ServeClaim
<1>2. UNCHANGED <<published, workerVars, asked, late, stored, faults, resumes>>
  BY DEF ServeClaim
<1>3. CASE link' = [kind |-> "nothing"] /\ UNCHANGED <<cp, left>>
  <2>1. TypeOK'
    BY <1>1, <1>2, <1>3 DEF TypeOK
  <2>2. Messages' /\ Counted' /\ Scanning' /\ Places' /\ Runs'
    BY <1>1, <1>2, <1>3 DEF Sound, Messages, Counted, Scanning, Places, Runs
  <2>3. Harmless(link)' /\ Harmless(late)' /\ Leased' /\ Assigned' /\ OneLiveLease'
    BY <1>1, <1>2, <1>3 DEF Sound, Harmless, Leased, Assigned, OneLiveLease
  <2> QED  BY <2>1, <2>2, <2>3 DEF Sound
<1>4. ASSUME NEW due, NEW j \in Jobs, Picked(j, due),
             \/ LeasePicked(j) /\ link' = Assignment(j)
             \/ RefusePicked(j) /\ UNCHANGED link
      PROVE  Sound'
  <2>1. /\ cp' \in [Jobs -> CPRec] /\ left' \in [Jobs -> 0..LeaseTicks]
        /\ \A k \in Jobs : cp'[k].gen <= resumes
        /\ OneLiveLease'
        /\ LeasePicked(j) =>
             /\ cp'[j].state \in Busy /\ cp'[j].lease = NewLease
             /\ left'[j] = LeaseTicks
    BY <1>1, <1>4, ClaimMoves
  <2>2. \/ link' = link
        \/ /\ link' \in Assignments /\ link'.kind = "assigned" /\ LeasePicked(j)
           /\ link'.job = j /\ link'.lease = cp'[j].lease
           /\ link'.gen = cp'[j].gen /\ link'.pages = cp'[j].pages
    <3>1. CASE LeasePicked(j) /\ link' = Assignment(j)
      <4>1. cp'[j] \in CPRec /\ cp'[j].lease \in Leases
        BY <1>1, <2>1, <3>1, NewLeaseIsNew
      <4>2. (cp'[j].state = "cancel_requested") \in BOOLEAN
        OBVIOUS
      <4> QED  BY <3>1, <4>1, <4>2 DEF Assignment, Assignments, CPRec
    <3> QED  BY <1>4, <3>1
  <2>3. link'.kind \in {"claim", "assigned"}
    BY <1>1, <2>2
  <2>4. TypeOK'
    BY <1>1, <1>2, <2>1, <2>3 DEF TypeOK, CPRec
  <2>5. Messages' /\ Counted' /\ Scanning'
    BY <1>1, <1>2, <2>1, <2>2, <2>3 DEF Messages, Counted, Scanning
  <2>6. Places' /\ Runs'
    BY <1>1, <1>2, <2>3 DEF Sound, Places, Runs
  <2>7. Harmless(link)' /\ Harmless(late)' /\ Leased'
    BY <1>1, <1>2 DEF Harmless, Leased
  <2>8. Assigned'
    <3>1. SUFFICES ASSUME link'.kind = "assigned"
                   PROVE  Assigned'
      BY DEF Assigned
    <3>2. /\ link'.job = j /\ link'.lease = cp'[j].lease /\ LeasePicked(j)
          /\ link'.gen = cp'[j].gen /\ link'.pages = cp'[j].pages
      BY <1>1, <2>2, <3>1
    <3>3. late.kind = "report" => late.lease # NewLease
      BY <1>1, NewLeaseIsNew DEF InUse
    <3>4. LeaseTicks >= Remains'
      BY Typed, <1>1, <1>2 DEF Remains
    <3> QED  BY <1>2, <2>1, <3>2, <3>3, <3>4 DEF Assigned
  <2> QED  BY <2>1, <2>4, <2>5, <2>6, <2>7, <2>8 DEF Sound
<1> QED  BY <1>3, <1>4 DEF ServeClaim

LEMMA ServeReportKeeps ==
  ASSUME Sound, ServeReport
  PROVE  Sound'
<1> USE DEF workerVars
<1>1. /\ TypeOK /\ Counted /\ Scanning /\ Messages
      /\ link.kind = "report" /\ worker.pc \in {"reporting", "rejecting"}
  BY DEF Sound, Places, ServeReport
<1>2. UNCHANGED <<published, workerVars, asked, late, stored, faults, resumes>>
  BY DEF ServeReport
<1>3. CASE link' = [kind |-> "refused"] /\ UNCHANGED <<cp, left>>
  <2>1. TypeOK'
    BY <1>1, <1>2, <1>3 DEF TypeOK
  <2>2. Messages' /\ Counted' /\ Scanning' /\ Places' /\ Runs'
    BY <1>1, <1>2, <1>3 DEF Sound, Messages, Counted, Scanning, Places, Runs
  <2>3. Harmless(link)' /\ Harmless(late)' /\ Assigned' /\ OneLiveLease'
    BY <1>1, <1>2, <1>3 DEF Sound, Harmless, Assigned, OneLiveLease
  <2>4. Leased'
    BY <1>1, <1>2, <1>3 DEF Sound, Leased
  <2> QED  BY <2>1, <2>2, <2>3, <2>4 DEF Sound
<1>4. CASE /\ Acceptable(link) /\ ReportWorker(link)
           /\ link'.kind = "accepted"
  <2>1. Renewing(link)
    BY <1>1, <1>4 DEF Sound, Messages, Renewing
  <2>2. /\ cp' \in [Jobs -> CPRec] /\ left' \in [Jobs -> 0..LeaseTicks]
        /\ \A k \in Jobs : cp'[k].gen = cp[k].gen
        /\ OneLiveLease'
        /\ engine # "none" =>
             /\ cp'[worker.job].state \in Busy
             /\ cp'[worker.job].lease = worker.lease
             /\ left'[worker.job] \in {left[worker.job], LeaseTicks}
             /\ link.job = worker.job => left'[worker.job] = LeaseTicks
             /\ local[worker.job].cursor >= cp'[worker.job].pages
    BY <2>1, ReportMoves
  <2>3. TypeOK'
    BY <1>1, <1>2, <1>4, <2>2 DEF TypeOK, CPRec
  <2>4. Messages' /\ Counted' /\ Scanning' /\ Places' /\ Runs'
    BY <1>1, <1>2, <1>4, <2>2 DEF Sound, Messages, Counted, Scanning, Places, Runs
  <2>5. Harmless(link)' /\ Harmless(late)' /\ Assigned'
    BY <1>1, <1>2, <1>4 DEF Sound, Harmless, Assigned
  <2>6. Leased'
    <3>1. SUFFICES ASSUME engine # "none"
                   PROVE  Leased'
      BY <1>2 DEF Leased
    <3>2. worker.job \in Jobs /\ link.job = worker.job
      BY Typed, <1>1, <3>1 DEF Sound, Runs, Places, Holds
    <3>3. LeaseTicks > timer' /\ LeaseTicks >= Remains'
      BY Typed, Clocks, <1>1, <1>2 DEF Remains
    <3>4. localGen'[worker'.job] = cp'[worker'.job].gen
      BY <1>2, <2>2, <3>1, <3>2 DEF Sound, Leased
    <3> QED  BY <1>2, <2>2, <3>1, <3>2, <3>3, <3>4 DEF Leased
  <2> QED  BY <2>2, <2>3, <2>4, <2>5, <2>6 DEF Sound
<1> QED  BY <1>3, <1>4 DEF ServeReport

LEMMA ServeLateKeeps ==
  ASSUME Sound, ServeLate
  PROVE  Sound'
<1> USE DEF workerVars
<1>1. TypeOK /\ Counted /\ Scanning /\ Messages /\ late' = Quiet
  BY DEF Sound, ServeLate
<1>2. UNCHANGED <<published, workerVars, link, asked, stored, faults, resumes>>
  BY DEF ServeLate
<1>3. late'.kind = "none"
  BY <1>1 DEF Quiet
<1>4. Messages' /\ Scanning' /\ Places' /\ Runs' /\ Harmless(link)' /\ Harmless(late)'
  BY <1>1, <1>2, <1>3 DEF Sound, Messages, Scanning, Places, Runs, Harmless
<1>5. CASE UNCHANGED <<cp, left>>
  <2>1. TypeOK' /\ Counted'
    BY <1>1, <1>2, <1>3, <1>5 DEF TypeOK, Counted
  <2>2. Leased' /\ Assigned' /\ OneLiveLease'
    BY <1>2, <1>3, <1>5 DEF Sound, Leased, Assigned, Remains, OneLiveLease
  <2> QED  BY <1>4, <2>1, <2>2 DEF Sound
<1>6. ASSUME late.kind = "claim", NEW due, NEW j \in Jobs, Picked(j, due),
             LeasePicked(j) \/ RefusePicked(j)
      PROVE  Sound'
  <2>1. /\ cp' \in [Jobs -> CPRec] /\ left' \in [Jobs -> 0..LeaseTicks]
        /\ \A k \in Jobs : cp'[k].gen <= resumes
        /\ OneLiveLease'
    BY <1>1, <1>6, ClaimMoves
  <2>2. engine = "none" /\ link.kind # "assigned"
    BY <1>6, NothingHeld DEF Picked
  <2>3. TypeOK' /\ Counted'
    BY <1>1, <1>2, <1>3, <2>1 DEF TypeOK, CPRec, Counted
  <2>4. Leased' /\ Assigned'
    BY <1>2, <2>2 DEF Leased, Assigned
  <2> QED  BY <1>4, <2>1, <2>3, <2>4 DEF Sound
<1>7. CASE late.kind = "report" /\ Acceptable(late) /\ ReportWorker(late)
  <2>1. Renewing(late)
    BY <1>1, <1>7 DEF Sound, Messages, Renewing
  <2>2. /\ cp' \in [Jobs -> CPRec] /\ left' \in [Jobs -> 0..LeaseTicks]
        /\ \A k \in Jobs : cp'[k].gen = cp[k].gen
        /\ \A k \in Jobs : k # late.job => cp'[k] = cp[k] /\ left'[k] = left[k]
        /\ OneLiveLease'
        /\ engine # "none" =>
             /\ cp'[worker.job].state \in Busy
             /\ cp'[worker.job].lease = worker.lease
             /\ left'[worker.job] \in {left[worker.job], LeaseTicks}
             /\ local[worker.job].cursor >= cp'[worker.job].pages
    BY <2>1, ReportMoves
  <2>3. TypeOK' /\ Counted'
    BY <1>1, <1>2, <1>3, <2>2 DEF TypeOK, CPRec, Counted
  <2>4. Leased'
    <3>1. SUFFICES ASSUME engine # "none"
                   PROVE  Leased'
      BY <1>2 DEF Leased
    <3>2. worker.job \in Jobs
      BY Typed, <1>1, <3>1 DEF Sound, Runs, Places
    <3>3. LeaseTicks > timer /\ LeaseTicks >= Remains
      BY Typed, Clocks, <1>1
    <3>4. /\ left[worker.job] > timer
          /\ link.kind = "accepted" => left[worker.job] >= Remains
          /\ localGen[worker.job] = cp[worker.job].gen
      BY <3>1 DEF Sound, Leased
    <3>5. Remains' = Remains
      BY <1>2 DEF Remains
    <3> QED  BY <1>2, <2>2, <3>1, <3>2, <3>3, <3>4, <3>5 DEF Leased
  <2>5. Assigned'
    <3>1. SUFFICES ASSUME link.kind = "assigned"
                   PROVE  Assigned'
      BY <1>2 DEF Assigned
    <3>2. link.job \in Jobs
      BY <1>1, <3>1 DEF Messages, Assignments
    <3>3. link.job # late.job
      BY <1>7, <3>1 DEF Sound, Assigned, Acceptable
    <3>4. cp'[link.job] = cp[link.job] /\ left'[link.job] = left[link.job]
      BY <2>2, <3>2, <3>3
    <3> QED  BY <1>2, <1>3, <3>1, <3>4 DEF Sound, Assigned, Remains
  <2> QED  BY <1>4, <2>2, <2>3, <2>4, <2>5 DEF Sound
<1> QED  BY <1>5, <1>6, <1>7 DEF ServeLate

-----------------------------------------------------------------------------
(* Steps of the worker between two assignments.                            *)

\* Without an engine, all that can go wrong is in the messages.
LEMMA IdleKeeps ==
  ASSUME Sound, engine' = "none", UNCHANGED <<cp, left, resumes>>,
         TypeOK', Messages', Scanning', Places',
         link'.kind = "assigned" => UNCHANGED <<link, asked, late>>
  PROVE  Sound'
<1>1. Counted' /\ OneLiveLease'
  BY DEF Sound, Counted, OneLiveLease
<1>2. Runs' /\ Leased' /\ Harmless(link)' /\ Harmless(late)'
  BY DEF Runs, Leased, Harmless
<1>3. Assigned'
  BY DEF Sound, Assigned, Remains
<1> QED  BY <1>1, <1>2, <1>3 DEF Sound

LEMMA FreeTyped ==
  ASSUME NEW pc \in {"down", "publish", "claim", "claiming", "rejecting",
                     "executing", "reporting", "joining"}
  PROVE  /\ Free(pc) \in WorkerRec /\ Free(pc).pc = pc
         /\ Free(pc).job = 0 /\ Free(pc).lease = 0 /\ Free(pc).final = FALSE
<1>1. 0 \in 0..NumJobs
  BY LeaseAssumption
<1> QED  BY <1>1 DEF Free, WorkerRec

\* The request that the worker gives up is at most one that may be served late.
LEMMA LateKnown ==
  ASSUME Sound, MayBeServedLate
  PROVE  /\ late' \in {late, link} /\ late'.kind \in {"none", "claim", "report"}
         /\ late'.kind = "report" => late' \in Reports
<1>1. /\ late.kind \in {"none", "claim", "report"}
      /\ late.kind = "report" => late \in Reports
      /\ link.kind = "report" => link \in Reports
  BY DEF Sound, TypeOK, Messages
<1>2. CASE link.kind \in {"claim", "report"}
  BY <1>1, <1>2 DEF MayBeServedLate
<1>3. CASE link.kind \notin {"claim", "report"}
  BY <1>1, <1>3 DEF MayBeServedLate
<1> QED  BY <1>2, <1>3

LEMMA StartKeeps ==
  ASSUME Sound, Start
  PROVE  Sound'
<1>1. TypeOK /\ Messages /\ Scanning /\ Places /\ engine = "none" /\ worker.pc = "down"
  BY DEF Sound, Places, Runs, Holds, Start
<1>2. worker' \in WorkerRec /\ worker'.pc = "publish" /\ worker'.job = 0
  BY FreeTyped DEF Start
<1>3. /\ local' \in [Jobs -> JobType(LastPage)]
      /\ \A j \in Jobs : Keeps(local[j], local'[j])
  <2>1. \A j \in Jobs : Keeps(local[j], local[j]) /\ Keeps(local[j], Recovered(local[j]))
    BY Typed, UpdatesKeep, <1>1 DEF Keeps
  <2>2. \A j \in Jobs : local'[j] = IF local[j].state \in Busy
                                    THEN Recovered(local[j]) ELSE local[j]
    BY DEF Start
  <2>3. \A j \in Jobs : Keeps(local[j], local'[j])
    BY <2>1, <2>2
  <2>4. local' = [j \in Jobs |-> local'[j]]
    BY DEF Start
  <2> QED  BY <2>3, <2>4 DEF Keeps
<1>4. UNCHANGED <<cp, left, published, approved, localGen, engine, timer, link,
                  asked, late, stored, faults, resumes>>
  BY DEF Start, cpVars
<1>5. TypeOK'
  BY <1>1, <1>2, <1>3, <1>4 DEF TypeOK, WorkerRec
<1>6. Scanning' /\ Messages'
  BY <1>1, <1>3, <1>4 DEF Scanning, Messages, Keeps
<1>7. Places'
  BY <1>1, <1>2, <1>4 DEF Places, Holds
<1> QED  BY <1>1, <1>4, <1>5, <1>6, <1>7, IdleKeeps

LEMMA PublishKeeps ==
  ASSUME Sound, Publish
  PROVE  Sound'
<1>1. TypeOK /\ Messages /\ Scanning /\ Places /\ engine = "none" /\ worker.pc = "publish"
  BY DEF Sound, Places, Runs, Holds, Publish
<1>2. worker' \in WorkerRec /\ worker'.pc = "claim" /\ worker'.job = 0
  BY FreeTyped DEF Publish
<1>3. published' = approved
      /\ UNCHANGED <<cp, left, approved, local, localGen, engine, timer, link,
                     asked, late, stored, faults, resumes>>
  BY DEF Publish
<1>4. TypeOK'
  BY <1>1, <1>2, <1>3 DEF TypeOK, WorkerRec
<1>5. Scanning' /\ Messages' /\ Places'
  BY <1>1, <1>2, <1>3 DEF Scanning, Messages, Places, Holds
<1> QED  BY <1>1, <1>3, <1>4, <1>5, IdleKeeps

LEMMA ClaimKeeps ==
  ASSUME Sound, Claim
  PROVE  Sound'
<1>1. TypeOK /\ Messages /\ Scanning /\ engine = "none"
  BY DEF Sound, Places, Runs, Holds, Claim
<1>2. worker' \in WorkerRec /\ worker'.pc = "claiming" /\ worker'.job = 0
  BY FreeTyped DEF Claim
<1>3. link'.kind = "claim" /\ asked' = RequestTicks
  BY DEF Claim, Ask, ClaimRequest
<1>4. UNCHANGED <<cp, left, published, approved, local, localGen, engine, timer,
                  late, stored, faults, resumes>>
  BY DEF Claim, cpVars
<1>5. RequestTicks \in 0..RequestTicks
  BY Typed, <1>1
<1>6. TypeOK'
  BY <1>1, <1>2, <1>3, <1>4, <1>5 DEF TypeOK, WorkerRec
<1>7. Scanning' /\ Messages' /\ Places'
  BY <1>1, <1>2, <1>3, <1>4 DEF Scanning, Messages, Places, Holds
<1> QED  BY <1>1, <1>3, <1>4, <1>6, <1>7, IdleKeeps

LEMMA HangUpTyped ==
  ASSUME TypeOK, HangUp
  PROVE  link'.kind = "none" /\ asked' = 0 /\ 0 \in 0..RequestTicks
BY Typed DEF HangUp, Quiet

LEMMA NothingToDoKeeps ==
  ASSUME Sound, NothingToDo
  PROVE  Sound'
<1>1. TypeOK /\ Messages /\ Scanning /\ engine = "none"
  BY DEF Sound, Places, Runs, Holds, NothingToDo
<1>2. worker' \in WorkerRec /\ worker'.pc = "claim" /\ worker'.job = 0
  BY FreeTyped DEF NothingToDo
<1>3. link'.kind = "none" /\ asked' = 0 /\ 0 \in 0..RequestTicks
  BY <1>1, HangUpTyped DEF NothingToDo
<1>4. UNCHANGED <<cp, left, published, approved, local, localGen, engine, timer,
                  late, stored, faults, resumes>>
  BY DEF NothingToDo, cpVars
<1>5. TypeOK'
  BY <1>1, <1>2, <1>3, <1>4 DEF TypeOK, WorkerRec
<1>6. Scanning' /\ Messages' /\ Places'
  BY <1>1, <1>2, <1>3, <1>4 DEF Scanning, Messages, Places, Holds
<1> QED  BY <1>1, <1>3, <1>4, <1>5, <1>6, IdleKeeps

LEMMA RejectKeeps ==
  ASSUME Sound, Reject
  PROVE  Sound'
<1>1. TypeOK /\ Messages /\ Scanning /\ engine = "none" /\ link \in Assignments
  BY DEF Sound, Messages, Places, Runs, Holds, Reject
<1>2. worker' \in WorkerRec /\ worker'.pc = "rejecting" /\ worker'.job = 0
  BY FreeTyped DEF Reject
<1>3. link'.kind = "report" /\ link' \in Reports /\ asked' = RequestTicks
  BY <1>1 DEF Reject, Ask, Report, Assignments, Reports, States
<1>4. UNCHANGED <<cp, left, published, approved, local, localGen, engine, timer,
                  late, stored, faults, resumes>>
  BY DEF Reject, cpVars
<1>5. RequestTicks \in 0..RequestTicks
  BY Typed, <1>1
<1>6. TypeOK'
  BY <1>1, <1>2, <1>3, <1>4, <1>5 DEF TypeOK, WorkerRec
<1>7. Scanning' /\ Messages' /\ Places'
  BY <1>1, <1>2, <1>3, <1>4 DEF Scanning, Messages, Places, Holds
<1> QED  BY <1>1, <1>3, <1>4, <1>6, <1>7, IdleKeeps

LEMMA JoinKeeps ==
  ASSUME Sound, Join
  PROVE  Sound'
<1>1. /\ TypeOK /\ Messages /\ Scanning /\ engine = "none" /\ worker.pc = "joining"
      /\ link.kind = "none"
  BY DEF Sound, TypeOK, Places, Join, Joined
<1>2. /\ worker' \in WorkerRec /\ worker'.pc \in {"claim", "publish"}
      /\ worker'.job = 0
  <2>1. Free("claim") \in WorkerRec /\ Free("claim").pc = "claim" /\ Free("claim").job = 0
    BY FreeTyped
  <2>2. Free("publish") \in WorkerRec /\ Free("publish").pc = "publish"
        /\ Free("publish").job = 0
    BY FreeTyped
  <2> QED  BY <2>1, <2>2 DEF Join
<1>3. timer' = 0 /\ 0 \in 0..TimerTicks
  BY Typed, <1>1 DEF Join
<1>4. UNCHANGED <<cp, left, published, approved, local, localGen, engine, link, asked,
                  late, stored, faults, resumes>>
  BY DEF Join, cpVars
<1>5. TypeOK'
  BY <1>1, <1>2, <1>3, <1>4 DEF TypeOK, WorkerRec
<1>6. Scanning' /\ Messages' /\ Places'
  BY <1>1, <1>2, <1>4 DEF Scanning, Messages, Places, Holds
<1> QED  BY <1>1, <1>4, <1>5, <1>6, IdleKeeps

LEMMA SpendTyped ==
  ASSUME TypeOK, Spend
  PROVE  faults' \in 0..MaxFaults
BY LeaseAssumption DEF TypeOK, Spend

LEMMA CrashKeeps ==
  ASSUME Sound, Crash
  PROVE  Sound'
<1>1. TypeOK /\ Messages /\ Scanning /\ engine' = "none"
  BY DEF Sound, Crash
<1>2. worker' \in WorkerRec /\ worker'.pc = "down" /\ worker'.job = 0
  BY FreeTyped DEF Crash
<1>3. /\ link'.kind = "none" /\ asked' = 0 /\ 0 \in 0..RequestTicks
      /\ timer' = 0 /\ 0 \in 0..TimerTicks /\ faults' \in 0..MaxFaults
  BY Typed, <1>1, HangUpTyped, SpendTyped DEF Crash
<1>4. UNCHANGED <<cp, left, published, approved, local, localGen, stored, resumes>>
  BY DEF Crash, cpVars
<1>5. /\ late'.kind \in {"none", "claim", "report"}
      /\ late'.kind = "report" => late' \in Reports
  BY LateKnown DEF Crash
<1>6. TypeOK'
  BY <1>1, <1>2, <1>3, <1>4, <1>5 DEF TypeOK, WorkerRec
<1>7. Scanning' /\ Messages' /\ Places'
  BY <1>1, <1>2, <1>3, <1>4, <1>5 DEF Scanning, Messages, Places, Holds
<1> QED  BY <1>1, <1>3, <1>4, <1>6, <1>7, IdleKeeps

LEMMA LoseDataKeeps ==
  ASSUME Sound, NEW j \in Jobs, LoseData(j)
  PROVE  Sound'
<1>1. /\ TypeOK /\ Messages /\ Scanning /\ Places
      /\ engine = "none" /\ worker.pc = "down"
  BY DEF Sound, Places, Runs, Holds, LoseData
<1>2. faults' \in 0..MaxFaults
  BY <1>1, SpendTyped DEF LoseData
<1>3. UNCHANGED <<cp, left, published, approved, worker, engine, timer, link, asked,
                  late, stored, resumes>>
  BY DEF LoseData, cpVars
<1>4. /\ \E q \in JobType(LastPage) : /\ local' = [local EXCEPT ![j] = q]
                                      /\ q.cursor < LastPage
      /\ localGen' \in [Jobs -> 0..MaxResumes]
  <2>1. CASE /\ local' = [local EXCEPT ![j] = Absent]
             /\ localGen' = [localGen EXCEPT ![j] = 0]
    <3>1. Absent \in JobType(LastPage) /\ Absent.cursor < LastPage
      BY NewJobType
    <3>2. localGen' \in [Jobs -> 0..MaxResumes]
      BY Typed, <1>1, <2>1
    <3> QED  BY <2>1, <3>1, <3>2
  <2>2. ASSUME NEW page \in 0..(local[j].cursor - 1),
               local' = [local EXCEPT ![j] = [NewJob EXCEPT !.cursor = page, !.records = page]],
               UNCHANGED localGen
        PROVE  /\ \E q \in JobType(LastPage) : /\ local' = [local EXCEPT ![j] = q]
                                             /\ q.cursor < LastPage
               /\ localGen' \in [Jobs -> 0..MaxResumes]
    <3> DEFINE q == [NewJob EXCEPT !.cursor = page, !.records = page]
    <3>1. local[j].cursor \in 0..LastPage
      BY Typed, <1>1 DEF JobType
    <3>2. page \in 0..LastPage /\ page \in Nat /\ page < LastPage
      BY Typed, <1>1, <3>1
    <3>3. q \in JobType(LastPage) /\ q.cursor < LastPage
      BY <3>2, NewJobType DEF JobType
    <3>4. localGen' \in [Jobs -> 0..MaxResumes]
      BY Typed, <1>1, <2>2
    <3> QED  BY <2>2, <3>3, <3>4
  <2> QED  BY <2>1, <2>2 DEF LoseData
<1>5. local' \in [Jobs -> JobType(LastPage)] /\ Scanning'
  BY Typed, <1>1, <1>4 DEF Scanning
<1>6. TypeOK'
  BY <1>1, <1>2, <1>3, <1>4, <1>5 DEF TypeOK
<1>7. Messages' /\ Places'
  BY <1>1, <1>3 DEF Messages, Places
<1> QED  BY <1>1, <1>3, <1>5, <1>6, <1>7, IdleKeeps

LEMMA ChangePolicyKeeps ==
  ASSUME Sound, NEW j \in Jobs, ChangePolicy(j)
  PROVE  Sound'
<1>1. TypeOK /\ Messages /\ Scanning /\ Places /\ engine = "none"
  BY DEF Sound, Places, Runs, Holds, ChangePolicy
<1>2. UNCHANGED <<cp, left, published, local, localGen, worker, engine, timer, link,
                  asked, late, stored, faults, resumes>>
  BY DEF ChangePolicy, cpVars
<1>3. approved' \subseteq Jobs
  BY <1>1 DEF ChangePolicy, TypeOK
<1>4. TypeOK'
  BY <1>1, <1>2, <1>3 DEF TypeOK
<1>5. Messages' /\ Scanning' /\ Places'
  BY <1>1, <1>2 DEF Messages, Scanning, Places
<1> QED  BY <1>1, <1>2, <1>4, <1>5, IdleKeeps

-----------------------------------------------------------------------------
(* Steps of the worker with an assignment.                                 *)

\* An error: the worker goes on to the join, with what it held until then.
LEMMA AbandonKeeps ==
  ASSUME Sound, worker' = Abandon, HangUp,
         late' \in {late, link}, late'.kind \in {"none", "claim", "report"},
         faults' \in 0..MaxFaults,
         UNCHANGED <<cpVars, approved, local, localGen, engine, timer, stored, resumes>>
  PROVE  Sound'
<1> USE DEF cpVars
<1>1. TypeOK /\ Messages /\ Scanning /\ Counted /\ OneLiveLease
  BY DEF Sound
<1>2. CASE worker.job = 0
  <2>1. worker' \in WorkerRec /\ worker'.pc = "publish" /\ worker'.job = 0
    BY <1>2, FreeTyped DEF Abandon
  <2>2. engine' = "none"
    BY <1>2 DEF Sound, Places, Runs
  <2>3. link'.kind = "none" /\ asked' = 0 /\ 0 \in 0..RequestTicks
    BY <1>1, HangUpTyped
  <2>4. TypeOK'
    BY <1>1, <2>1, <2>3 DEF TypeOK, WorkerRec
  <2>5. Messages' /\ Scanning' /\ Places'
    BY <1>1, <2>1, <2>3 DEF Messages, Scanning, Places, Holds
  <2> QED  BY <2>2, <2>3, <2>4, <2>5, IdleKeeps
<1>3. CASE worker.job # 0
  <2>1. /\ worker' \in WorkerRec /\ worker'.pc = "joining" /\ worker'.final = FALSE
        /\ worker'.job = worker.job /\ worker'.lease = worker.lease
    BY Typed, <1>1, <1>3 DEF Abandon, WorkerRec
  <2>2. link'.kind = "none" /\ asked' = 0 /\ 0 \in 0..RequestTicks
    BY <1>1, HangUpTyped
  <2>3. TypeOK'
    BY <1>1, <2>1, <2>2 DEF TypeOK, WorkerRec
  <2>4. Messages' /\ Scanning' /\ Counted'
    BY <1>1, <2>2 DEF Messages, Scanning, Counted
  <2>5. Places' /\ Runs'
    BY <1>3, <2>1, <2>2 DEF Sound, Places, Runs, Holds
  <2>6. Harmless(link)' /\ Harmless(late)'
    BY <2>1, <2>2 DEF Sound, Harmless
  <2>7. Leased' /\ Assigned'
    BY <2>1, <2>2 DEF Sound, Leased, Assigned
  <2>8. OneLiveLease'
    BY <1>1 DEF OneLiveLease
  <2> QED  BY <2>3, <2>4, <2>5, <2>6, <2>7, <2>8 DEF Sound
<1> QED  BY <1>2, <1>3

LEMMA RequestFailsKeeps ==
  ASSUME Sound, RequestFails
  PROVE  Sound'
<1>1. late' \in {late, link} /\ late'.kind \in {"none", "claim", "report"}
  BY LateKnown DEF RequestFails
<1>2. faults' \in 0..MaxFaults
  <2>1. faults \in 0..MaxFaults
    BY DEF Sound, TypeOK
  <2> QED  BY <2>1, SpendTyped DEF Sound, RequestFails
<1> QED  BY <1>1, <1>2, AbandonKeeps DEF RequestFails

LEMMA TimerFiresKeeps ==
  ASSUME Sound, TimerFires
  PROVE  Sound'
<1>1. late' \in {late, link} /\ late'.kind \in {"none", "claim", "report"}
  BY LateKnown DEF TimerFires
<1>2. faults' \in 0..MaxFaults
  BY DEF Sound, TypeOK, TimerFires
<1> QED  BY <1>1, <1>2, AbandonKeeps DEF TimerFires

LEMMA RefusedKeeps ==
  ASSUME Sound, Refused
  PROVE  Sound'
<1> USE DEF cpVars
<1>1. TypeOK /\ Messages /\ Scanning /\ HangUp
  BY DEF Sound, Refused
<1>2. /\ UNCHANGED <<cp, left, published, approved, local, localGen, engine, timer, late,
                     stored, faults, resumes>>
      /\ late'.kind \in {"none", "claim", "report"} /\ faults' \in 0..MaxFaults
  BY <1>1 DEF Refused, TypeOK
<1>3. CASE worker' = Abandon
  BY <1>1, <1>2, <1>3, AbandonKeeps
<1>4. CASE worker.pc = "rejecting" /\ worker' = Free("claim")
  <2>1. worker' \in WorkerRec /\ worker'.pc = "claim" /\ worker'.job = 0
    BY <1>4, FreeTyped
  <2>2. engine' = "none"
    BY <1>2, <1>4 DEF Sound, Runs, Holds
  <2>3. link'.kind = "none" /\ asked' = 0 /\ 0 \in 0..RequestTicks
    BY <1>1, HangUpTyped
  <2>4. TypeOK'
    BY <1>1, <1>2, <2>1, <2>3 DEF TypeOK, WorkerRec
  <2>5. Messages' /\ Scanning' /\ Places'
    BY <1>1, <1>2, <2>1, <2>3 DEF Messages, Scanning, Places, Holds
  <2> QED  BY <1>2, <2>2, <2>3, <2>4, <2>5, IdleKeeps
<1> QED  BY <1>3, <1>4 DEF Refused

\* The record that the worker adopts covers what it once reported.
LEMMA PreparedCovers ==
  ASSUME TypeOK, Scanning, link \in Assignments, Preparable(link)
  PROVE  LET p == Prepared(link)
         IN  /\ p \in JobType(LastPage) /\ p.cursor >= link.pages
             /\ p.exhausted \/ p.cursor < LastPage
<1>1. /\ link.job \in Jobs /\ link.pages \in 0..LastPage
      /\ local[link.job] \in JobType(LastPage)
  BY Typed DEF Assignments
<1>2. CASE local[link.job].state = "absent"
  <2>1. link.pages = 0 /\ Prepared(link) = NewJob
    BY <1>2 DEF Preparable, Prepared
  <2> QED  BY <2>1, NewJobType
<1>3. CASE local[link.job].state # "absent"
  <2>1. local[link.job].cursor >= link.pages
    BY <1>3 DEF Preparable
  <2>2. Prepared(link) \in {local[link.job], Resumed(local[link.job])}
    BY <1>3 DEF Prepared
  <2>3. Keeps(local[link.job], Prepared(link))
    BY <1>1, <2>2, UpdatesKeep DEF Keeps
  <2> QED  BY <1>1, <2>1, <2>3 DEF Keeps, Scanning
<1> QED  BY <1>2, <1>3

LEMMA AcceptKeeps ==
  ASSUME Sound, Accept
  PROVE  Sound'
<1> DEFINE j == link.job
           p == Prepared(link)
           runnable == p.state \in {"queued", "retry_wait"}
           canceled == link.cancel /\ runnable
           q == IF canceled THEN CancelAsked(p) ELSE p
<1>1. /\ TypeOK /\ Messages /\ Scanning /\ Counted /\ OneLiveLease
      /\ link \in Assignments /\ link.kind = "assigned" /\ Preparable(link)
  BY DEF Sound, Messages, Accept
<1>2. /\ j \in Jobs /\ link.gen \in 0..MaxResumes /\ link.lease \in Leases
      /\ link.pages \in 0..LastPage
  BY <1>1 DEF Assignments
<1>3. q \in JobType(LastPage) /\ q.cursor >= link.pages /\ (q.exhausted \/ q.cursor < LastPage)
  <2>1. p \in JobType(LastPage) /\ p.cursor >= link.pages
        /\ (p.exhausted \/ p.cursor < LastPage)
    BY <1>1, PreparedCovers
  <2>2. Keeps(p, CancelAsked(p))
    BY <2>1, UpdatesKeep
  <2> QED  BY <2>1, <2>2 DEF Keeps
<1>4. /\ local' = [local EXCEPT ![j] = q] /\ localGen' = [localGen EXCEPT ![j] = link.gen]
      /\ engine' \in {"none", "starting"}
      /\ worker' = [Free("executing") EXCEPT !.job = j, !.lease = link.lease]
      /\ timer' = TimerTicks
  BY DEF Accept
<1>5. link'.kind = "none" /\ asked' = 0 /\ 0 \in 0..RequestTicks
  BY <1>1, HangUpTyped DEF Accept
<1>6. UNCHANGED <<cp, left, published, approved, late, stored, faults, resumes>>
  BY DEF Accept, cpVars
<1> HIDE DEF q
<1>7. /\ local' \in [Jobs -> JobType(LastPage)] /\ local'[j] = q
      /\ \A k \in Jobs : k # j => local'[k] = local[k]
  BY Typed, <1>1, <1>2, <1>3, <1>4
<1>8. localGen' \in [Jobs -> 0..MaxResumes] /\ localGen'[j] = link.gen
  BY Typed, <1>1, <1>2, <1>4
<1>9. /\ worker' \in WorkerRec /\ worker'.pc = "executing" /\ worker'.final = FALSE
      /\ worker'.job = j /\ worker'.lease = link.lease /\ j # 0 /\ link.lease # 0
  <2>1. j \in 0..NumJobs /\ j # 0 /\ link.lease # 0
    BY <1>2, LeaseAssumption DEF Jobs, Leases
  <2> QED  BY <1>2, <1>4, <2>1, FreeTyped DEF WorkerRec
<1>10. TypeOK'
  <2>1. timer' \in 0..TimerTicks
    BY Typed, <1>1, <1>4
  <2> QED  BY <1>1, <1>4, <1>5, <1>6, <1>7, <1>8, <1>9, <2>1 DEF TypeOK, WorkerRec
<1>11. Messages' /\ Counted'
  BY <1>1, <1>5, <1>6 DEF Messages, Counted
<1>12. Scanning'
  BY <1>1, <1>3, <1>7 DEF Scanning
<1>13. Places' /\ Runs'
  BY <1>4, <1>5, <1>9 DEF Places, Runs, Holds
<1>14. Harmless(link)' /\ Harmless(late)'
  BY <1>1, <1>5, <1>6, <1>9 DEF Sound, Assigned, Harmless
<1>15. Leased'
  <2>1. /\ cp[j].state \in Busy /\ cp[j].lease = link.lease
        /\ left[j] >= Remains /\ cp[j].pages = link.pages /\ cp[j].gen = link.gen
    BY <1>1 DEF Sound, Assigned
  <2>2. left[j] > TimerTicks
    <3>1. left[j] \in Int /\ asked \in 0..RequestTicks
      BY Typed, <1>1, <1>2
    <3> QED  BY <2>1, <3>1, LeaseAssumption DEF Remains
  <2> QED  BY <1>3, <1>4, <1>5, <1>6, <1>7, <1>8, <1>9, <2>1, <2>2 DEF Leased
<1>16. Assigned'
  BY <1>5 DEF Assigned
<1>17. OneLiveLease'
  BY <1>1, <1>6 DEF OneLiveLease
<1> QED  BY <1>10, <1>11, <1>12, <1>13, <1>14, <1>15, <1>16, <1>17 DEF Sound

LEMMA SendReportKeeps ==
  ASSUME Sound, SendReport
  PROVE  Sound'
<1> DEFINE j == worker.job
<1>1. /\ TypeOK /\ Messages /\ Scanning /\ Counted /\ OneLiveLease
      /\ worker.pc = "executing" /\ engine # "starting"
  BY DEF Sound, SendReport
<1>2. j \in Jobs /\ worker.lease \in Leases /\ local[j] \in JobType(LastPage)
  <2>1. j # 0 /\ worker.lease # 0
    BY <1>1 DEF Sound, Places, Holds
  <2> QED  BY Typed, <1>1, <2>1 DEF WorkerRec
<1>3. /\ link' \in Reports /\ link'.kind = "report" /\ link'.job = j
      /\ link'.lease = worker.lease /\ link'.state = local[j].state
      /\ link'.pages = local[j].cursor /\ asked' = RequestTicks
  BY <1>2 DEF SendReport, Ask, Report, Reports, JobType
<1>4. /\ worker' \in WorkerRec /\ worker'.pc = "reporting" /\ worker'.job = j
      /\ worker'.lease = worker.lease
      /\ worker'.final = (local[j].state \notin Busy)
  BY Typed, <1>1 DEF SendReport, WorkerRec
<1>5. UNCHANGED <<cp, left, published, approved, local, localGen, engine, timer, late,
                  stored, faults, resumes>>
  BY DEF SendReport, cpVars
<1>6. TypeOK'
  <2>1. asked' \in 0..RequestTicks
    BY Typed, <1>1, <1>3
  <2> QED  BY <1>1, <1>3, <1>4, <1>5, <2>1 DEF TypeOK, WorkerRec
<1>7. Messages' /\ Counted' /\ Scanning'
  BY <1>1, <1>3, <1>5 DEF Messages, Counted, Scanning
<1>8. engine # "none" => local[j].state \in Busy
  BY <1>1 DEF Sound, TypeOK, Runs
<1>9. Places'
  BY <1>1, <1>3, <1>4 DEF Sound, Places, Holds
<1>10. Runs'
  BY <1>1, <1>4, <1>5, <1>8 DEF Sound, Runs, Holds
<1>11. Harmless(link)' /\ Harmless(late)'
  <2>1. Harmless(link)'
    <3>1. local[j].cursor <= local[j].cursor
      BY <1>2 DEF JobType
    <3> QED  BY <1>3, <1>5, <1>8, <3>1 DEF Harmless
  <2> QED  BY <1>4, <1>5, <2>1 DEF Sound, Harmless
<1>12. Leased' /\ Assigned'
  BY <1>3, <1>4, <1>5 DEF Sound, Leased, Assigned
<1>13. OneLiveLease'
  BY <1>1, <1>5 DEF OneLiveLease
<1> QED  BY <1>6, <1>7, <1>9, <1>10, <1>11, <1>12, <1>13 DEF Sound

LEMMA ReportAnsweredKeeps ==
  ASSUME Sound, ReportAnswered
  PROVE  Sound'
<1> DEFINE j == worker.job
<1>1. /\ TypeOK /\ Messages /\ Scanning /\ Counted /\ OneLiveLease
      /\ worker.pc = "reporting" /\ link.kind = "accepted"
  BY DEF Sound, ReportAnswered
<1>2. j \in Jobs /\ local[j] \in JobType(LastPage)
  BY Typed, <1>1 DEF Sound, Places, Holds
<1>3. link'.kind = "none" /\ asked' = 0 /\ 0 \in 0..RequestTicks
  BY <1>1, HangUpTyped DEF ReportAnswered
<1>4. UNCHANGED <<cp, left, published, approved, localGen, engine, late, stored, faults,
                  resumes>>
  BY DEF ReportAnswered, cpVars
<1>5. /\ worker' \in WorkerRec /\ worker'.pc \in {"joining", "executing"}
      /\ worker'.job = j /\ worker'.lease = worker.lease /\ worker'.final = worker.final
  BY Typed, <1>1 DEF ReportAnswered, WorkerRec
<1>6. timer' \in {timer, Heard} /\ timer' \in 0..TimerTicks
  BY Typed, Clocks, <1>1 DEF ReportAnswered
<1>7. /\ local' \in [Jobs -> JobType(LastPage)]
      /\ \A k \in Jobs : Keeps(local[k], local'[k])
      /\ local[j].state \in Busy => local'[j].state \in Busy
  <2>1. CASE local' = local
    BY Typed, <1>1, <2>1 DEF Keeps
  <2>2. CASE local' = [local EXCEPT ![j] = CancelAsked(local[j])]
    <3>1. Keeps(local[j], CancelAsked(local[j]))
      BY <1>2, UpdatesKeep
    <3>2. local[j].state \in Busy => CancelAsked(local[j]).state \in Busy
      BY <1>2 DEF CancelAsked, Busy, JobType
    <3>3. /\ local' \in [Jobs -> JobType(LastPage)] /\ local'[j] = CancelAsked(local[j])
          /\ \A k \in Jobs : k # j => local'[k] = local[k]
      BY Typed, <1>1, <1>2, <2>2, <3>1 DEF Keeps
    <3> QED  BY Typed, <1>1, <3>1, <3>2, <3>3 DEF Keeps
  <2> QED  BY <2>1, <2>2 DEF ReportAnswered
<1>8. TypeOK'
  BY <1>1, <1>3, <1>4, <1>5, <1>6, <1>7 DEF TypeOK, WorkerRec
<1>9. Messages' /\ Counted' /\ Scanning'
  BY <1>1, <1>3, <1>4, <1>7 DEF Messages, Counted, Scanning, Keeps
<1>10. Places'
  BY <1>1, <1>3, <1>5 DEF Sound, Places, Holds
<1>11. Runs'
  BY <1>1, <1>2, <1>4, <1>5, <1>7 DEF Sound, Runs, Holds, Keeps
<1>12. Harmless(link)' /\ Harmless(late)'
  BY <1>2, <1>3, <1>4, <1>5, <1>7 DEF Sound, Harmless, Keeps
<1>13. Leased'
  <2>1. SUFFICES ASSUME engine # "none"
                 PROVE  Leased'
    BY <1>4 DEF Leased
  <2>2. left[j] > timer /\ left[j] >= Remains /\ left[j] \in Int
    BY Typed, <1>1, <1>2, <2>1 DEF Sound, Leased
  <2>3. left[j] > timer'
    BY Clocks, <1>1, <1>6, <2>2
  <2>4. local'[j].cursor = local[j].cursor
    BY <1>2, <1>7 DEF Keeps
  <2> QED  BY <1>3, <1>4, <1>5, <2>1, <2>3, <2>4 DEF Sound, Leased
<1>14. Assigned'
  BY <1>3 DEF Assigned
<1>15. OneLiveLease'
  BY <1>1, <1>4 DEF OneLiveLease
<1> QED  BY <1>8, <1>9, <1>10, <1>11, <1>12, <1>13, <1>14, <1>15 DEF Sound

-----------------------------------------------------------------------------
(* Steps of the engine, and time.                                          *)

\* The engine moves the record of its job, which keeps the scan going.
LEMMA EngineKeeps ==
  ASSUME Sound, engine # "none", NEW q \in JobType(LastPage),
         q.cursor >= local[worker.job].cursor,
         q.exhausted \/ q.cursor < LastPage,
         local' = [local EXCEPT ![worker.job] = q],
         engine' \in {"none", "working", "acknowledged"},
         engine' # "none" => q.state \in Busy,
         engine' = "acknowledged" => ~q.exhausted,
         stored' \in [Jobs -> 0..LastPage],
         UNCHANGED <<cpVars, approved, localGen, worker, timer, link, asked, late,
                     faults, resumes>>
  PROVE  Sound'
<1> USE DEF cpVars
<1> DEFINE j == worker.job
<1>1. TypeOK /\ Messages /\ Scanning /\ Counted /\ OneLiveLease
  BY DEF Sound
<1>2. j \in Jobs /\ worker.pc \in Holds /\ ~worker.final
  BY Typed, <1>1 DEF Sound, Runs, Places
<1>3. /\ local' \in [Jobs -> JobType(LastPage)] /\ local'[j] = q
      /\ \A k \in Jobs : k # j => local'[k] = local[k]
  BY Typed, <1>1, <1>2
<1>4. TypeOK'
  BY <1>1, <1>3 DEF TypeOK
<1>5. Messages' /\ Counted' /\ Places'
  BY <1>1 DEF Sound, Messages, Counted, Places
<1>6. Scanning'
  BY <1>1, <1>3 DEF Scanning
<1>7. Runs'
  BY <1>2, <1>3 DEF Runs
<1>8. /\ local[j].cursor \in Int /\ q.cursor \in Int
      /\ link.kind = "report" => link.pages \in Int
      /\ late.kind = "report" => late.pages \in Int
      /\ cp[j].pages \in Int
  BY Typed, <1>1, <1>2 DEF Messages, Reports, JobType, CPRec
<1>9. Harmless(link)'
  BY <1>3, <1>8 DEF Sound, Harmless
<1>10. Harmless(late)'
  BY <1>3, <1>8 DEF Sound, Harmless
<1>11. Leased'
  BY <1>3, <1>8 DEF Sound, Leased, Remains
<1>12. Assigned' /\ OneLiveLease'
  BY <1>1 DEF Sound, Assigned, Remains, OneLiveLease
<1> QED  BY <1>4, <1>5, <1>6, <1>7, <1>9, <1>10, <1>11, <1>12 DEF Sound

\* The job that the engine runs.
LEMMA EngineJob ==
  ASSUME Sound, engine # "none"
  PROVE  /\ worker.job \in Jobs
         /\ local[worker.job] \in JobType(LastPage)
         /\ local[worker.job].cursor \in 0..LastPage
         /\ local[worker.job].exhausted \/ local[worker.job].cursor < LastPage
<1>1. TypeOK
  BY DEF Sound
<1>2. worker.job \in Jobs
  BY Typed, <1>1 DEF Sound, Runs, Places
<1>3. local[worker.job] \in JobType(LastPage)
  BY Typed, <1>1, <1>2
<1> QED  BY <1>2, <1>3 DEF Sound, Scanning, JobType

LEMMA EngineStartKeeps ==
  ASSUME Sound, EngineStart
  PROVE  Sound'
<1> DEFINE q == Started(local[worker.job])
<1>1. /\ worker.job \in Jobs /\ local[worker.job] \in JobType(LastPage)
      /\ local[worker.job].cursor \in 0..LastPage
      /\ local[worker.job].exhausted \/ local[worker.job].cursor < LastPage
      /\ engine # "none"
  BY EngineJob DEF EngineStart
<1>2. Keeps(local[worker.job], q)
  BY <1>1, UpdatesKeep
<1>3. q.state \in Busy
  BY <1>1 DEF Started, JobType, Busy
<1>4. /\ local' = [local EXCEPT ![worker.job] = q] /\ engine' = "working"
      /\ UNCHANGED <<cpVars, approved, localGen, worker, timer, link, asked, late,
                     faults, resumes>>
      /\ stored' = stored
  BY DEF EngineStart, SetLocal
<1>5. stored' \in [Jobs -> 0..LastPage]
  BY <1>4 DEF Sound, TypeOK
<1>6. /\ q \in JobType(LastPage) /\ q.cursor >= local[worker.job].cursor
      /\ q.exhausted \/ q.cursor < LastPage
  BY <1>1, <1>2 DEF Keeps
<1> HIDE DEF q
<1> QED  BY <1>1, <1>3, <1>4, <1>5, <1>6, EngineKeeps

LEMMA EngineWriteKeeps ==
  ASSUME Sound, EngineWrite
  PROVE  Sound'
<1> DEFINE j == worker.job
           q == local[j]
<1>1. /\ j \in Jobs /\ q \in JobType(LastPage)
      /\ q.cursor \in 0..LastPage /\ engine # "none"
      /\ ~q.exhausted /\ q.cursor < LastPage
  BY EngineJob DEF EngineWrite
<1>2. TypeOK /\ q.state \in Busy
  BY DEF Sound, Runs, EngineWrite
<1>3. local' = [local EXCEPT ![j] = q]
  BY Typed, <1>1, <1>2 DEF EngineWrite
<1>4. stored' \in [Jobs -> 0..LastPage]
  <2>1. stored \in [Jobs -> 0..LastPage]
    BY <1>2 DEF TypeOK
  <2>2. q.cursor + 1 \in 0..LastPage
    BY Typed, <1>1, <1>2
  <2>3. \E n \in 0..LastPage : stored' = [stored EXCEPT ![j] = n]
    BY <1>1, <2>1, <2>2 DEF EngineWrite
  <2> QED  BY <2>1, <2>3
<1>5. /\ engine' \in {"working", "acknowledged"}
      /\ UNCHANGED <<cpVars, approved, localGen, worker, timer, link, asked, late,
                     faults, resumes>>
  BY DEF EngineWrite
<1>6. q.cursor >= q.cursor
  BY <1>1
<1> HIDE DEF q
<1> QED  BY <1>1, <1>2, <1>3, <1>4, <1>5, <1>6, EngineKeeps DEF q

LEMMA EngineCheckpointKeeps ==
  ASSUME Sound, EngineCheckpoint
  PROVE  Sound'
<1> DEFINE j == worker.job
           r == local[j]
           page == r.cursor + 1
           q == Checkpointed(r, page, 1, page = LastPage)
<1>1. /\ j \in Jobs /\ r \in JobType(LastPage) /\ r.cursor \in 0..LastPage
      /\ r.cursor < LastPage /\ engine # "none"
  BY EngineJob DEF Sound, Runs, EngineCheckpoint
<1>2. TypeOK
  BY DEF Sound
<1>3. page \in 0..LastPage /\ page > r.cursor /\ (page = LastPage \/ page < LastPage)
  BY Typed, <1>1, <1>2
<1>4. /\ q \in JobType(LastPage) /\ q.cursor = page
      /\ page = LastPage => q.exhausted
  <2>1. r.records + 1 \in Nat
    BY <1>1 DEF JobType
  <2> HIDE DEF r
  <2>2. CancelWins(r, IF page = LastPage THEN "succeeded" ELSE r.state) \in States
    BY <1>1 DEF CancelWins, States, JobType
  <2>3. (page = LastPage) \in BOOLEAN
    OBVIOUS
  <2> HIDE DEF page
  <2> QED  BY <1>1, <1>3, <2>1, <2>2, <2>3 DEF Checkpointed, JobType
<1>5. /\ local' = [local EXCEPT ![j] = q]
      /\ engine' = IF q.state \in Busy THEN "working" ELSE "none"
      /\ UNCHANGED <<cpVars, approved, localGen, worker, timer, link, asked, late,
                     faults, resumes>>
      /\ stored' = stored
  BY DEF EngineCheckpoint, SetLocal
<1>6. stored' \in [Jobs -> 0..LastPage]
  BY <1>2, <1>5 DEF TypeOK
<1> HIDE DEF q
<1>7. q.cursor >= r.cursor /\ (q.exhausted \/ q.cursor < LastPage)
  BY <1>1, <1>3, <1>4
<1> QED  BY <1>1, <1>4, <1>5, <1>6, <1>7, EngineKeeps

LEMMA EngineEndKeeps ==
  ASSUME Sound, EngineEnd
  PROVE  Sound'
<1> DEFINE r == local[worker.job]
<1>1. /\ worker.job \in Jobs /\ r \in JobType(LastPage) /\ r.cursor \in 0..LastPage
      /\ r.exhausted \/ r.cursor < LastPage
  BY EngineJob DEF EngineEnd
<1>2. engine # "none"
  BY DEF EngineEnd
<1>3. \E q : /\ Keeps(r, q) /\ SetLocal(q, "none")
  <2>1. /\ \A v \in States : Keeps(r, Finished(r, v))
        /\ Keeps(r, RestartScheduled(r))
    BY <1>1, UpdatesKeep
  <2>2. {"queued", "succeeded", "failed"} \subseteq States
    BY DEF States
  <2> QED  BY <2>1, <2>2 DEF EngineEnd
<1>4. PICK q : Keeps(r, q) /\ SetLocal(q, "none")
  BY <1>3
<1>5. stored' = stored /\ stored' \in [Jobs -> 0..LastPage]
  BY DEF EngineEnd, Sound, TypeOK
<1>6. /\ q \in JobType(LastPage) /\ q.cursor >= r.cursor
      /\ q.exhausted \/ q.cursor < LastPage
  BY <1>1, <1>4 DEF Keeps
<1> QED  BY <1>1, <1>2, <1>4, <1>5, <1>6, EngineKeeps DEF SetLocal

LEMMA Passes ==
  ASSUME NEW n \in Nat, NEW m \in Nat
  PROVE  /\ Pass(n) \in Nat /\ Pass(n) <= n /\ Pass(n) >= n - 1
         /\ n > 0 => Pass(n) = n - 1
         /\ Pass(n) > 0 => n > 0
BY DEF Pass

\* What is due keeps time from passing, so that the timer and the time-out run
\* no slower than the lease while somebody relies on it.
LEMMA TickKeeps ==
  ASSUME Sound, Tick
  PROVE  Sound'
<1>1. /\ TypeOK /\ Messages /\ Scanning /\ Counted /\ OneLiveLease
      /\ timer \in Nat /\ asked \in Nat /\ \A j \in Jobs : left[j] \in Nat
  BY Typed DEF Sound
<1>2. /\ left' = [j \in Jobs |-> Pass(left[j])]
      /\ timer' = Pass(timer) /\ asked' = Pass(asked)
      /\ UNCHANGED <<cp, published, approved, local, localGen, worker, engine, link,
                     late, stored, resumes>>
  BY DEF Tick
<1>3. /\ timer' \in 0..TimerTicks /\ asked' \in 0..RequestTicks
      /\ \A j \in Jobs : left'[j] \in 0..LeaseTicks
  <2>1. timer \in 0..TimerTicks /\ asked \in 0..RequestTicks
    BY Typed, <1>1
  <2>2. \A j \in Jobs : left[j] \in 0..LeaseTicks
    BY Typed, <1>1
  <2> QED  BY Typed, <1>1, <1>2, <2>1, <2>2, Passes
<1>4. faults' \in 0..MaxFaults
  <2>1. faults \in 0..MaxFaults
    BY <1>1 DEF TypeOK
  <2> QED  BY <1>1, <2>1, SpendTyped DEF Tick
<1>5. TypeOK'
  <2>1. left' \in [Jobs -> 0..LeaseTicks]
    BY <1>2, <1>3
  <2> QED  BY <1>1, <1>2, <1>3, <1>4, <2>1 DEF TypeOK
<1>6. Messages' /\ Counted' /\ Scanning' /\ Places' /\ Runs'
  BY <1>1, <1>2 DEF Sound, Messages, Counted, Scanning, Places, Runs
<1>7. Harmless(link)' /\ Harmless(late)'
  BY <1>2 DEF Sound, Harmless
<1>8. \A j \in Jobs : left'[j] = Pass(left[j])
  BY <1>2
<1>9. link # Quiet => Remains' = Remains - 1
  <2>1. link # Quiet => asked > 0
    BY <1>1 DEF Tick
  <2> QED  BY Typed, Passes, <1>1, <1>2, <2>1 DEF Remains
<1>10. Leased'
  <2>1. SUFFICES ASSUME engine # "none"
                 PROVE  Leased'
    BY <1>2 DEF Leased
  <2>2. worker.job \in Jobs
    BY EngineJob, <2>1
  <2>3. timer > 0
    BY <1>1, <2>1 DEF Sound, Runs, Holds, Tick, Halted, Supervised
  <2>4. left[worker.job] > timer
    BY <2>1 DEF Sound, Leased
  <2>5. timer' = timer - 1 /\ left'[worker.job] = left[worker.job] - 1
    <3>1. left[worker.job] \in Nat /\ left[worker.job] > 0
      BY <1>1, <2>2, <2>4
    <3>2. Pass(left[worker.job]) = left[worker.job] - 1
      BY Passes, <3>1
    <3>3. Pass(timer) = timer - 1
      BY Passes, <1>1, <2>3
    <3> QED  BY <1>2, <1>8, <2>2, <3>2, <3>3
  <2>6. left'[worker.job] > timer'
    BY <1>1, <2>2, <2>4, <2>5
  <2>7. link.kind = "accepted" => left'[worker.job] >= Remains'
    <3>1. SUFFICES ASSUME link.kind = "accepted"
                   PROVE  left'[worker.job] >= Remains'
      OBVIOUS
    <3>2. left[worker.job] >= Remains
      BY <2>1, <3>1 DEF Sound, Leased
    <3>3. Remains' = Remains - 1
      BY <1>9, <3>1 DEF Quiet
    <3>4. Remains \in Int
      BY Clocks, <1>1
    <3> QED  BY <1>1, <2>2, <2>5, <3>2, <3>3, <3>4
  <2> QED  BY <1>2, <2>1, <2>6, <2>7 DEF Sound, Leased
<1>11. Assigned'
  <2>1. SUFFICES ASSUME link.kind = "assigned"
                 PROVE  Assigned'
    BY <1>2 DEF Assigned
  <2>2. link.job \in Jobs /\ left[link.job] >= Remains
    BY <1>1, <2>1 DEF Sound, Messages, Assignments, Assigned
  <2>3. Remains' = Remains - 1 /\ Remains \in Int
    BY Clocks, <1>1, <1>9, <2>1 DEF Quiet
  <2>4. left'[link.job] >= Remains'
    <3>1. left[link.job] \in Nat
      BY <1>1, <2>2
    <3>2. Pass(left[link.job]) >= left[link.job] - 1 /\ Pass(left[link.job]) \in Nat
      BY Passes, <3>1
    <3>3. left'[link.job] = Pass(left[link.job])
      BY <1>8, <2>2
    <3> QED  BY <2>2, <2>3, <3>1, <3>2, <3>3
  <2> QED  BY <1>2, <2>1, <2>4 DEF Sound, Assigned
<1>12. OneLiveLease'
  <2>1. \A j \in Jobs : left'[j] > 0 => left[j] > 0
    BY Passes, <1>1, <1>8
  <2> QED  BY <1>1, <1>2, <2>1 DEF OneLiveLease
<1> QED  BY <1>5, <1>6, <1>7, <1>10, <1>11, <1>12 DEF Sound

-----------------------------------------------------------------------------
(* The theorems.                                                           *)

LEMMA InitSound ==
  ASSUME Init
  PROVE  Sound
<1>1. /\ LastPage \in Nat \ {0} /\ TimerTicks \in Nat /\ LeaseTicks \in Nat
      /\ RequestTicks \in Nat /\ MaxResumes \in Nat /\ MaxFaults \in Nat
      /\ NumJobs \in Nat
  BY LeaseAssumption
<1>2. worker \in WorkerRec /\ worker.pc = "down" /\ worker.job = 0
  BY FreeTyped DEF Init
<1>3. CPAbsent \in CPRec /\ CPAbsent.gen = 0 /\ CPAbsent.state = "absent"
  BY <1>1 DEF CPAbsent, CPRec, States
<1>4. cp \in [Jobs -> CPRec] /\ \A j \in Jobs : cp[j] = CPAbsent
  BY <1>3 DEF Init
<1>5. local \in [Jobs -> JobType(LastPage)] /\ \A j \in Jobs : local[j].cursor = 0
  BY NewJobType DEF Init
<1>6. link.kind = "none" /\ late.kind = "none"
  BY DEF Init, Quiet
<1>7. /\ left \in [Jobs -> 0..LeaseTicks] /\ localGen \in [Jobs -> 0..MaxResumes]
      /\ stored \in [Jobs -> 0..LastPage] /\ \A j \in Jobs : left[j] = 0
      /\ timer \in 0..TimerTicks /\ asked \in 0..RequestTicks
      /\ faults \in 0..MaxFaults /\ resumes \in 0..MaxResumes /\ resumes = 0
  BY <1>1 DEF Init
<1>8. TypeOK
  BY <1>2, <1>4, <1>5, <1>6, <1>7 DEF TypeOK, CPRec, WorkerRec, Init
<1>9. Messages /\ Counted /\ Scanning
  BY <1>1, <1>3, <1>4, <1>5, <1>6, <1>7 DEF Messages, Counted, Scanning
<1>10. Places /\ Runs
  BY <1>2, <1>6 DEF Places, Runs, Holds, Init
<1>11. Leased /\ Harmless(link) /\ Harmless(late) /\ Assigned
  BY <1>6 DEF Leased, Harmless, Assigned, Init
<1>12. OneLiveLease
  BY <1>3, <1>4 DEF OneLiveLease, Busy
<1> QED  BY <1>8, <1>9, <1>10, <1>11, <1>12 DEF Sound

LEMMA StutterKeeps ==
  ASSUME Sound, UNCHANGED vars
  PROVE  Sound'
<1> USE DEF vars
<1>1. TypeOK' /\ Messages' /\ Counted' /\ Scanning' /\ Places' /\ Runs'
  BY DEF Sound, TypeOK, Messages, Counted, Scanning, Places, Runs
<1>2. Leased' /\ Harmless(link)' /\ Harmless(late)' /\ Assigned' /\ OneLiveLease'
  BY DEF Sound, Leased, Harmless, Assigned, Remains, OneLiveLease
<1> QED  BY <1>1, <1>2 DEF Sound

\* The inductive invariant holds throughout.
THEOREM LeaseSound == Spec => []Sound
<1>1. Init => Sound
  BY InitSound
<1>2. Sound /\ [Next]_vars => Sound'
  <2> SUFFICES ASSUME Sound, [Next]_vars
               PROVE  Sound'
    OBVIOUS
  <2>1. ASSUME NEW j \in Jobs, Submit(j) \/ Cancel(j) \/ Resume(j)
        PROVE  Sound'
    BY <2>1, SubmitKeeps, CancelKeeps, ResumeKeeps
  <2>2. CASE Server
    BY <2>2, ServeClaimKeeps, ServeReportKeeps DEF Server
  <2>3. CASE ServeLate
    BY <2>3, ServeLateKeeps
  <2>4. CASE Loop
    BY <2>4, StartKeeps, PublishKeeps, ClaimKeeps, NothingToDoKeeps, RejectKeeps,
       AcceptKeeps, SendReportKeeps, ReportAnsweredKeeps, RefusedKeeps,
       TimerFiresKeeps, JoinKeeps DEF Loop
  <2>5. CASE RequestFails
    BY <2>5, RequestFailsKeeps
  <2>6. CASE Engine
    BY <2>6, EngineStartKeeps, EngineWriteKeeps, EngineCheckpointKeeps, EngineEndKeeps
       DEF Engine
  <2>7. CASE Tick
    BY <2>7, TickKeeps
  <2>8. CASE Crash
    BY <2>8, CrashKeeps
  <2>9. ASSUME NEW j \in Jobs, LoseData(j) \/ ChangePolicy(j)
        PROVE  Sound'
    BY <2>9, LoseDataKeeps, ChangePolicyKeeps
  <2>10. CASE UNCHANGED vars
    BY <2>10, StutterKeeps
  <2> QED  BY <2>1, <2>2, <2>3, <2>4, <2>5, <2>6, <2>7, <2>8, <2>9, <2>10 DEF Next
<1> QED  BY <1>1, <1>2, PTL DEF Spec

\* Types: the job records of both sides, the lease clocks and the messages
\* stay within their ranges, whatever requests are lost or served late.
THEOREM LeaseTypes == Spec => []TypeOK
<1>1. Sound => TypeOK
  BY DEF Sound
<1> QED  BY <1>1, LeaseSound, PTL

\* No engine writes without a lease: while the worker's engine may write, the
\* control plane has its job leased to it, under the same lease, which did not
\* run out (worker.go:347-364, worker_jobs.go:56-58).
THEOREM WritesAreLeased == Spec => []WorksUnderLease
<1>1. Sound => WorksUnderLease
  <2> SUFFICES ASSUME Sound, engine \in {"working", "acknowledged"}
               PROVE  WorksUnderLease
    BY DEF WorksUnderLease
  <2>1. worker.job \in Jobs /\ worker.job # 0
    BY EngineJob DEF Sound, Runs, Places
  <2>2. left[worker.job] \in Nat /\ timer \in Nat
    BY Typed, <2>1 DEF Sound
  <2>3. /\ cp[worker.job].state \in Busy /\ cp[worker.job].lease = worker.lease
        /\ left[worker.job] > timer
    BY DEF Sound, Leased
  <2>4. left[worker.job] > 0
    BY <2>2, <2>3
  <2> QED  BY <2>1, <2>3, <2>4 DEF WorksUnderLease
<1> QED  BY <1>1, LeaseSound, PTL

\* No silent restart: a worker that lost its data, or came back with an older
\* copy, never scans from behind what it once reported
\* (worker_jobs.go:184-186,199-201).
THEOREM NeverBehindReports == Spec => []NoSilentRestart
<1>1. Sound => NoSilentRestart
  BY DEF Sound, Leased, NoSilentRestart
<1> QED  BY <1>1, LeaseSound, PTL

\* The control plane has one live lease of a worker at a time
\* (worker_jobs.go:56-58).
THEOREM LeasesOneAtATime == Spec => []OneLiveLease
<1>1. Sound => OneLiveLease
  BY DEF Sound
<1> QED  BY <1>1, LeaseSound, PTL
=============================================================================
