----------------------------- MODULE WorkerLease -----------------------------
(***************************************************************************)
(* A customer worker executes jobs of the control plane under leases:      *)
(* control/worker_jobs.go on both sides, worker/worker.go on the worker.   *)
(*                                                                         *)
(* The control plane keeps progress summaries; the cursor lives in the     *)
(* worker's own Store, which the worker's engine moves with the closures   *)
(* of JobRecord.  The worker has one request under way at a time.  A       *)
(* request may fail, and one that the worker gave up may still be served   *)
(* later.  Time passes in ticks of the worker's report period; the clocks  *)
(* run at the same speed, a goroutine that was started runs within a tick, *)
(* and a connector whose context is canceled returns within a tick.        *)
(*                                                                         *)
(* ReportSequence is left out: the worker sends the reports of a lease one *)
(* after the other and never again after one that failed, so the sequence  *)
(* of a report is always the next one.  Pages count for Records and        *)
(* Batches, so that a job has a checkpoint when it has a page.             *)
(*                                                                         *)
(* An operator X_Faulty... is X with a plausible mistake, never part of    *)
(* Next: it shows that a property below would notice the mistake.          *)
(***************************************************************************)
EXTENDS JobRecord, FiniteSets

CONSTANTS
  NumJobs,      \* the jobs of this worker, in the order of their CreatedAt
  LastPage,     \* every source has the pages 1..LastPage
  LeaseTicks,   \* WorkerLeaseDuration
  TimerTicks,   \* the worker's own lease timer
  RequestTicks, \* the time-out of a request
  PolicyMayChange, \* the worker's approved pairs change between its runs
  MaxFaults,    \* bound on missed deadlines, failed requests, crashes and
                \* lost data together
  MaxResumes    \* bound on the operator's resumes

Jobs == 1..NumJobs

ASSUME LeaseAssumption ==
  /\ NumJobs \in Nat
  /\ LastPage \in Nat \ {0}
  /\ LeaseTicks \in Nat \ {0}
  /\ TimerTicks \in Nat \ {0}
  /\ RequestTicks \in Nat \ {0}
  /\ RequestTicks < TimerTicks
  /\ RequestTicks + TimerTicks < LeaseTicks
  /\ PolicyMayChange \in BOOLEAN
  /\ MaxFaults \in Nat
  /\ MaxResumes \in Nat

\* Lease identifiers are random: a new one differs from every one in use, of
\* which there is one per job, one in the worker's hands and one on its way.
Leases == 1..(NumJobs + 3)

VARIABLES
  \* the control plane
  cp,        \* cp[j]: State, Records, Generation and LeaseID of job j
  left,      \* left[j]: ticks until LeaseUntil of job j
  published, \* jobs whose pair is in the manifest that the control plane has
  \* the worker
  approved,  \* jobs whose pair the worker's own configuration approves
  local,     \* the worker's Store
  localGen,  \* localGen[j]: Generation of job j in the worker's Store
  worker,    \* where the main loop stands, and its assignment
  engine,    \* where the goroutine of RunJob stands
  timer,     \* ticks until leaseTimer fires
  \* between them and around them
  link,      \* the worker's request, or the answer to it
  asked,     \* ticks until that request times out
  late,      \* a request the worker gave up that may still be served
  stored,    \* stored[j]: the destination holds the pages 1..stored[j]
  faults, resumes

cpVars == <<cp, left, published>>
workerVars == <<approved, local, localGen, worker, engine, timer>>
vars == <<cp, left, published, approved, local, localGen, worker, engine,
          timer, link, asked, late, stored, faults, resumes>>

CPAbsent == [state |-> "absent", pages |-> 0, gen |-> 0, lease |-> 0]
Quiet == [kind |-> "none"]
ClaimRequest == [kind |-> "claim"]
Report(j, lease, state, pages) ==
  [kind |-> "report", job |-> j, lease |-> lease, state |-> state, pages |-> pages]
Assignment(j) ==
  [kind |-> "assigned", job |-> j, lease |-> cp'[j].lease, gen |-> cp'[j].gen,
   pages |-> cp'[j].pages, cancel |-> cp'[j].state = "cancel_requested"]

\* The worker between two assignments: down, about to publish its manifest,
\* or about to claim.
Free(pc) == [pc |-> pc, job |-> 0, lease |-> 0, final |-> FALSE]

TypeOK ==
  /\ cp \in [Jobs -> [state : States, pages : 0..LastPage,
                      gen : 0..MaxResumes, lease : Leases \cup {0}]]
  /\ left \in [Jobs -> 0..LeaseTicks]
  /\ published \subseteq Jobs /\ approved \subseteq Jobs
  /\ local \in [Jobs -> JobType(LastPage)]
  /\ localGen \in [Jobs -> 0..MaxResumes]
  /\ worker \in [pc : {"down", "publish", "claim", "claiming", "rejecting",
                       "executing", "reporting", "joining"},
                 job : 0..NumJobs, lease : Leases \cup {0}, final : BOOLEAN]
  /\ engine \in {"none", "starting", "working", "acknowledged"}
  /\ timer \in 0..TimerTicks
  /\ link.kind \in {"none", "claim", "report", "nothing", "assigned",
                    "accepted", "refused"}
  /\ asked \in 0..RequestTicks
  /\ late.kind \in {"none", "claim", "report"}
  /\ stored \in [Jobs -> 0..LastPage]
  /\ faults \in 0..MaxFaults
  /\ resumes \in 0..MaxResumes

Init ==
  /\ cp = [j \in Jobs |-> CPAbsent]
  /\ left = [j \in Jobs |-> 0]
  /\ published = {}
  /\ approved = Jobs
  /\ local = [j \in Jobs |-> Absent]
  /\ localGen = [j \in Jobs |-> 0]
  /\ worker = Free("down")
  /\ engine = "none"
  /\ timer = 0
  /\ link = Quiet
  /\ asked = 0
  /\ late = Quiet
  /\ stored = [j \in Jobs |-> 0]
  /\ faults = 0
  /\ resumes = 0

-----------------------------------------------------------------------------
(* The control plane: its API and its Store.                               *)

SetCP(j, new) == cp' = [cp EXCEPT ![j] = new]

Submit(j) ==
  /\ cp[j] = CPAbsent
  /\ \A k \in Jobs : k < j => cp[k] # CPAbsent
  /\ j \in published
  /\ SetCP(j, [CPAbsent EXCEPT !.state = "queued"])
  /\ UNCHANGED <<left, published, workerVars, link, asked, late, stored, faults,
                 resumes>>

Cancel(j) ==
  /\ Cancelable(cp[j])
  /\ SetCP(j, CancelAsked(cp[j]))
  /\ UNCHANGED <<left, published, workerVars, link, asked, late, stored, faults,
                 resumes>>

\* A resume starts a new generation and revokes what is left of the lease.
Resume(j) ==
  /\ Resumable(cp[j])
  /\ j \in published
  /\ resumes < MaxResumes
  /\ resumes' = resumes + 1
  /\ SetCP(j, [cp[j] EXCEPT !.state = "queued", !.gen = @ + 1, !.lease = 0])
  /\ left' = [left EXCEPT ![j] = 0]
  /\ UNCHANGED <<published, workerVars, link, asked, late, stored, faults>>

\* The jobs ClaimWorker may pick; due holds those in retry_wait whose
\* NextRunAt has passed.
Claimable_FaultyCancel(due) ==
  {j \in Jobs : \/ cp[j].state = "queued" \/ j \in due
                \/ cp[j].state = "running" /\ left[j] = 0}
Claimable(due) ==
  {j \in Jobs : \/ cp[j].state = "queued" \/ j \in due
                \/ cp[j].state \in Busy /\ left[j] = 0}

LiveLease == \E j \in Jobs : cp[j].state \in Busy /\ left[j] > 0

InUse == {cp[j].lease : j \in Jobs} \cup {worker.lease}
         \cup (IF link.kind = "report" THEN {link.lease} ELSE {})
         \cup (IF late.kind = "report" THEN {late.lease} ELSE {})
NewLease == CHOOSE l \in Leases : l \notin InUse

Picked(j, due) ==
  /\ ~LiveLease
  /\ due \subseteq {k \in Jobs : cp[k].state = "retry_wait"}
  /\ j \in Claimable(due)
  /\ \A k \in Claimable(due) : j <= k

\* The job's pair is no longer what the manifest approves.
RefusePicked_FaultyAll(j) ==
  /\ SetCP(j, [cp[j] EXCEPT !.state = "failed", !.lease = 0])
  /\ left' = [left EXCEPT ![j] = 0]
RefusePicked(j) ==
  /\ j \notin published
  /\ SetCP(j, [cp[j] EXCEPT !.state = "failed", !.lease = 0])
  /\ left' = [left EXCEPT ![j] = 0]

Granted_FaultyCancel(j) == [cp[j] EXCEPT !.state = "running", !.lease = NewLease]
Granted(j) ==
  [cp[j] EXCEPT !.state = IF @ = "cancel_requested" THEN @ ELSE "running",
                !.lease = NewLease]

LeasePicked(j) ==
  /\ j \in published
  /\ SetCP(j, Granted(j))
  /\ left' = [left EXCEPT ![j] = LeaseTicks]

\* A claim on the link is answered with an assignment, or with nothing when
\* there was nothing to claim until the long poll ended; a job that policy
\* refuses is failed on the way.
ServeClaim ==
  /\ link.kind = "claim"
  /\ \/ \E due \in SUBSET Jobs, j \in Jobs :
          /\ Picked(j, due)
          /\ \/ LeasePicked(j) /\ link' = Assignment(j)
             \/ RefusePicked(j) /\ UNCHANGED link
     \/ /\ LiveLease \/ Claimable({}) = {}
        /\ link' = [kind |-> "nothing"]
        /\ UNCHANGED <<cp, left>>
  /\ UNCHANGED <<published, workerVars, asked, late, stored, faults, resumes>>

\* ReportWorker refuses a report that is not of the live lease, or that takes
\* back progress.
Acceptable_FaultyExpired(r) ==
  /\ cp[r.job].lease = r.lease
  /\ cp[r.job].state \in Busy
  /\ r.pages >= cp[r.job].pages
Acceptable(r) ==
  /\ cp[r.job].lease = r.lease
  /\ left[r.job] > 0
  /\ cp[r.job].state \in Busy
  /\ r.pages >= cp[r.job].pages

\* The state a report leaves the job in: once cancellation was asked for, a
\* report that the execution ended, however it ended, is the cancellation.
Reported(state, reported) ==
  IF state = "cancel_requested"
  THEN IF reported \in Busy THEN "cancel_requested" ELSE "canceled"
  ELSE reported

\* A report that leaves the job with the worker renews the lease.
Renewed_FaultyKept(j, held) == IF held THEN left[j] ELSE 0
Renewed(j, held) == IF held THEN LeaseTicks ELSE 0

ReportWorker(r) ==
  LET state == Reported(cp[r.job].state, r.state)
      held == state \in Busy IN
  /\ SetCP(r.job, [cp[r.job] EXCEPT !.state = state, !.pages = r.pages,
                                    !.lease = IF held THEN @ ELSE 0])
  /\ left' = [left EXCEPT ![r.job] = Renewed(r.job, held)]

ServeReport ==
  /\ link.kind = "report"
  /\ IF Acceptable(link)
     THEN /\ ReportWorker(link)
          /\ link' = [kind |-> "accepted",
                      cancel |-> cp'[link.job].state = "cancel_requested"]
     ELSE link' = [kind |-> "refused"] /\ UNCHANGED <<cp, left>>
  /\ UNCHANGED <<published, workerVars, asked, late, stored, faults, resumes>>

\* A request is served after the worker gave it up: nobody hears the answer.
ServeLate ==
  /\ late # Quiet
  /\ late' = Quiet
  /\ \/ /\ late.kind = "claim"
        /\ \E due \in SUBSET Jobs, j \in Jobs :
             Picked(j, due) /\ (LeasePicked(j) \/ RefusePicked(j))
     \/ late.kind = "report" /\ Acceptable(late) /\ ReportWorker(late)
     \/ UNCHANGED <<cp, left>>
  /\ UNCHANGED <<published, workerVars, link, asked, stored, faults, resumes>>

-----------------------------------------------------------------------------
(* The worker's main loop.                                                 *)

Ask(r) == link' = r /\ asked' = RequestTicks
HangUp == link' = Quiet /\ asked' = 0
Spend == faults < MaxFaults /\ faults' = faults + 1

\* Client.Run opens and recovers the local Store.
Start ==
  /\ worker.pc = "down"
  /\ local' = [j \in Jobs |->
                 IF local[j].state \in Busy THEN Recovered(local[j]) ELSE local[j]]
  /\ worker' = Free("publish")
  /\ UNCHANGED <<cpVars, approved, localGen, engine, timer, link, asked, late,
                 stored, faults, resumes>>

\* The manifest of the worker's configuration reaches the control plane.
Publish ==
  /\ worker.pc = "publish"
  /\ published' = approved
  /\ worker' = Free("claim")
  /\ UNCHANGED <<cp, left, approved, local, localGen, engine, timer, link, asked,
                 late, stored, faults, resumes>>

Claim ==
  /\ worker.pc = "claim"
  /\ Ask(ClaimRequest)
  /\ worker' = Free("claiming")
  /\ UNCHANGED <<cpVars, approved, local, localGen, engine, timer, late, stored,
                 faults, resumes>>

NothingToDo ==
  /\ worker.pc = "claiming" /\ link.kind = "nothing"
  /\ HangUp
  /\ worker' = Free("claim")
  /\ UNCHANGED <<cpVars, approved, local, localGen, engine, timer, late, stored,
                 faults, resumes>>

\* PrepareWorkerJob: what the worker knows must cover what it once reported.
Preparable_FaultyBehind(a) == localGen[a.job] <= a.gen
Preparable(a) ==
  IF local[a.job].state = "absent" THEN a.pages = 0
  ELSE /\ localGen[a.job] <= a.gen
       /\ local[a.job].cursor >= a.pages

Prepared(a) ==
  IF local[a.job].state = "absent" THEN NewJob
  ELSE IF localGen[a.job] < a.gen THEN Resumed(local[a.job])
  ELSE local[a.job]

\* An assignment that the worker's own policy or Store does not cover is
\* reported as failed.
Reject ==
  /\ worker.pc = "claiming" /\ link.kind = "assigned"
  /\ link.job \notin approved \/ ~Preparable(link)
  /\ worker' = Free("rejecting")
  /\ Ask(Report(link.job, link.lease, "failed", link.pages))
  /\ UNCHANGED <<cpVars, approved, local, localGen, engine, timer, late, stored,
                 faults, resumes>>

\* Otherwise the worker adopts it, applies a cancellation it may carry, and
\* starts the engine when there is something to run.
Accept ==
  /\ worker.pc = "claiming" /\ link.kind = "assigned"
  /\ link.job \in approved /\ Preparable(link)
  /\ LET j == link.job
         prepared == Prepared(link)
         runnable == prepared.state \in {"queued", "retry_wait"}
         canceled == link.cancel /\ runnable
     IN  /\ local' = [local EXCEPT ![j] =
                        IF canceled THEN CancelAsked(prepared) ELSE prepared]
         /\ localGen' = [localGen EXCEPT ![j] = link.gen]
         /\ engine' = IF runnable /\ ~canceled THEN "starting" ELSE "none"
         /\ worker' = [Free("executing") EXCEPT !.job = j, !.lease = link.lease]
  /\ timer' = TimerTicks
  /\ HangUp
  /\ UNCHANGED <<cpVars, approved, late, stored, faults, resumes>>

\* A report of what the local Store holds, each period or at the end.
SendReport ==
  LET j == worker.job IN
  /\ worker.pc = "executing"
  /\ engine # "starting"
  /\ Ask(Report(j, worker.lease, local[j].state, local[j].cursor))
  /\ worker' = [worker EXCEPT !.pc = "reporting",
                              !.final = local[j].state \notin Busy]
  /\ UNCHANGED <<cpVars, approved, local, localGen, engine, timer, late, stored,
                 faults, resumes>>

\* The answer: an ended execution is joined, a cancellation is handed to the
\* engine, and the timer restarts from the moment the report was sent.
Heard == TimerTicks - (RequestTicks - asked)

ReportAnswered ==
  LET j == worker.job
      conflict == link.cancel /\ ~Cancelable(local[j]) IN
  /\ worker.pc = "reporting" /\ link.kind = "accepted"
  /\ HangUp
  /\ IF worker.final \/ conflict \/ timer = 0
     THEN /\ worker' = [worker EXCEPT !.pc = "joining"]
          /\ UNCHANGED timer
     ELSE /\ worker' = [worker EXCEPT !.pc = "executing"]
          /\ timer' = Heard
  /\ local' = IF link.cancel /\ ~worker.final /\ ~conflict
              THEN [local EXCEPT ![j] = CancelAsked(@)] ELSE local
  /\ UNCHANGED <<cpVars, approved, localGen, engine, late, stored, faults, resumes>>

\* After an error the worker leaves its assignment, once the engine returned,
\* and publishes its manifest again.
Abandon ==
  IF worker.job = 0 THEN Free("publish")
  ELSE [worker EXCEPT !.pc = "joining", !.final = FALSE]

\* The control plane refuses a report, or takes a rejection.
Refused ==
  /\ \/ link.kind = "refused" /\ worker' = Abandon
     \/ link.kind = "accepted" /\ worker.pc = "rejecting" /\ worker' = Free("claim")
  /\ HangUp
  /\ UNCHANGED <<cpVars, approved, local, localGen, engine, timer, late, stored,
                 faults, resumes>>

\* A request that is not served yet may be served late.
MayBeServedLate ==
  late' \in IF link.kind \in {"claim", "report"} THEN {late, link} ELSE {late}

\* The request times out, or fails before.
RequestFails ==
  /\ link # Quiet
  /\ \/ asked = 0 /\ UNCHANGED faults
     \/ asked > 0 /\ Spend
  /\ MayBeServedLate
  /\ worker' = Abandon
  /\ HangUp
  /\ UNCHANGED <<cpVars, approved, local, localGen, engine, timer, stored, resumes>>

\* leaseTimer cancels the execution and the request under way.
TimerFires ==
  /\ timer = 0
  /\ worker.pc \in {"executing", "reporting"}
  /\ MayBeServedLate
  /\ worker' = Abandon
  /\ HangUp
  /\ UNCHANGED <<cpVars, approved, local, localGen, engine, timer, stored,
                 faults, resumes>>

\* The deferred join: nothing else is claimed before the engine has returned.
Joined_FaultyNoWait == worker.pc = "joining"
Joined == worker.pc = "joining" /\ engine = "none"
Join ==
  /\ Joined
  /\ worker' = Free(IF worker.final THEN "claim" ELSE "publish")
  /\ timer' = 0
  /\ UNCHANGED <<cpVars, approved, local, localGen, engine, link, asked, late,
                 stored, faults, resumes>>

-----------------------------------------------------------------------------
(* The worker's engine, as far as leases are concerned.                    *)

SetLocal(new, next) ==
  /\ local' = [local EXCEPT ![worker.job] = new]
  /\ engine' = next
  /\ UNCHANGED <<cpVars, approved, localGen, worker, timer, link, asked, late,
                 faults, resumes>>

\* The context of the execution is canceled.
Halted == worker.pc = "joining"

EngineStart ==
  /\ engine = "starting"
  /\ SetLocal(Started(local[worker.job]), "working")
  /\ UNCHANGED stored

\* A page reaches the destination, be it after a cancellation that came while
\* the call was under way; whether it was acknowledged decides if the engine
\* goes on to the checkpoint.
EngineWrite ==
  LET j == worker.job IN
  /\ engine = "working"
  /\ ~local[j].exhausted
  /\ stored' = [stored EXCEPT ![j] =
                  IF @ < local[j].cursor + 1 THEN local[j].cursor + 1 ELSE @]
  /\ engine' \in {"working", "acknowledged"}
  /\ UNCHANGED <<cpVars, approved, local, localGen, worker, timer, link, asked,
                 late, faults, resumes>>

EngineCheckpoint ==
  LET j == worker.job
      page == local[j].cursor + 1
      new == Checkpointed(local[j], page, 1, page = LastPage) IN
  /\ engine = "acknowledged"
  /\ SetLocal(new, IF new.state \in Busy THEN "working" ELSE "none")
  /\ UNCHANGED stored

\* Spec.MaxRestarts of every job.
MaxRestarts == 1

\* Engine.execute ends: canceled or stopped, already exhausted, failed, or
\* waiting for a restart.
EngineEnd ==
  LET current == local[worker.job] IN
  /\ engine = "working"
  /\ \/ /\ current.state = "cancel_requested" \/ Halted
        /\ SetLocal(Finished(current, "queued"), "none")
     \/ /\ current.exhausted
        /\ SetLocal(Finished(current, "succeeded"), "none")
     \/ /\ ~current.exhausted
        /\ SetLocal(Finished(current, "failed"), "none")
     \/ /\ ~current.exhausted /\ current.restarts < MaxRestarts
        /\ SetLocal(RestartScheduled(current), "none")
  /\ UNCHANGED stored

-----------------------------------------------------------------------------
(* Time, crashes and lost data.                                            *)

Pass(n) == IF n > 0 THEN n - 1 ELSE 0

\* The ticks in which the worker's timer or the time-out of its request ends.
Supervised == worker.pc \in {"executing", "reporting"}
DeadlineMissed ==
  (timer = 1 /\ Supervised) \/ (asked = 1 /\ link # Quiet)

\* A tick passes only when what is due has happened.
Tick ==
  /\ engine # "starting"
  /\ ~(Halted /\ engine # "none")
  /\ ~(timer = 0 /\ Supervised)
  /\ ~(asked = 0 /\ link # Quiet)
  /\ IF DeadlineMissed THEN Spend ELSE UNCHANGED faults
  /\ left' = [j \in Jobs |-> Pass(left[j])]
  /\ timer' = Pass(timer)
  /\ asked' = Pass(asked)
  /\ <<left', timer', asked'>> # <<left, timer, asked>>
  /\ UNCHANGED <<cp, published, approved, local, localGen, worker, engine, link,
                 late, stored, resumes>>

Crash ==
  /\ worker.pc # "down"
  /\ Spend
  /\ worker' = Free("down")
  /\ engine' = "none"
  /\ timer' = 0
  /\ MayBeServedLate
  /\ HangUp
  /\ UNCHANGED <<cpVars, approved, local, localGen, stored, resumes>>

\* While the worker is down its data directory is lost, or restored from a
\* backup that an earlier page had reached.
LoseData(j) ==
  /\ worker.pc = "down"
  /\ local[j].state # "absent"
  /\ Spend
  /\ \/ /\ local' = [local EXCEPT ![j] = Absent]
        /\ localGen' = [localGen EXCEPT ![j] = 0]
     \/ /\ \E page \in 0..(local[j].cursor - 1) :
             local' = [local EXCEPT ![j] = [NewJob EXCEPT !.cursor = page, !.records = page]]
        /\ UNCHANGED localGen
  /\ UNCHANGED <<cpVars, approved, worker, engine, timer, link, asked, late,
                 stored, resumes>>

\* Between two runs the worker's configuration changes.
ChangePolicy(j) ==
  /\ PolicyMayChange
  /\ worker.pc = "down"
  /\ approved' = IF j \in approved THEN approved \ {j} ELSE approved \cup {j}
  /\ UNCHANGED <<cpVars, local, localGen, worker, engine, timer, link, asked,
                 late, stored, faults, resumes>>

-----------------------------------------------------------------------------
Server == ServeClaim \/ ServeReport
Loop == \/ Start \/ Publish \/ Claim \/ NothingToDo \/ Reject \/ Accept
        \/ SendReport \/ ReportAnswered \/ Refused \/ TimerFires \/ Join
Engine == EngineStart \/ EngineWrite \/ EngineCheckpoint \/ EngineEnd

Next ==
  \/ \E j \in Jobs : Submit(j) \/ Cancel(j) \/ Resume(j)
  \/ Server \/ ServeLate \/ Loop \/ RequestFails \/ Engine \/ Tick \/ Crash
  \/ \E j \in Jobs : LoseData(j) \/ ChangePolicy(j)

Spec == Init /\ [][Next]_vars

\* The control plane serves what it is asked, the worker's loop and engine go
\* on, a crashed worker is started again, and time passes.
Fairness ==
  /\ WF_vars(ServeClaim) /\ WF_vars(ServeReport)
  /\ WF_vars(Loop) /\ WF_vars(asked = 0 /\ RequestFails)
  /\ WF_vars(EngineStart) /\ WF_vars(EngineCheckpoint) /\ WF_vars(EngineEnd)
  /\ WF_vars(Tick)

FairSpec == Spec /\ Fairness

-----------------------------------------------------------------------------
(* Properties.                                                             *)

\* While the worker's engine may write, the control plane has the job leased
\* to it under the same lease, which did not run out: the 35 s timer and the
\* join beat the 60 s lease, whatever requests were lost or served late
\* (worker.go:347-364, worker_jobs.go:56-58).
WorksUnderLease ==
  engine \in {"working", "acknowledged"} =>
    LET j == worker.job IN
    /\ j # 0
    /\ cp[j].state \in Busy
    /\ cp[j].lease = worker.lease
    /\ left[j] > 0

\* A worker that lost its data directory, or came back with an older one,
\* never scans from behind the progress it once reported
\* (worker_jobs.go:184-186,199-201).
NoSilentRestart ==
  engine \in {"working", "acknowledged"} =>
    /\ local[worker.job].cursor >= cp[worker.job].pages
    /\ localGen[worker.job] = cp[worker.job].gen

\* Only one job at a time is under a live lease of this worker, so that the
\* worker cannot write two jobs to one destination (worker_jobs.go:56-58).
OneLiveLease ==
  \A j, k \in Jobs :
    (/\ cp[j].state \in Busy /\ left[j] > 0
     /\ cp[k].state \in Busy /\ left[k] > 0) => j = k

\* Seen from the control plane, a transfer by a customer worker keeps the
\* promise of Lifecycle: no write outside of execution, no progress that the
\* destination does not hold, success only after the last page
\* (worker_jobs.go:92-171).
Promise == INSTANCE Lifecycle WITH
  status <- [j \in Jobs |-> cp[j].state],
  acked  <- [j \in Jobs |-> cp[j].pages],
  stored <- [j \in Jobs |-> 1..stored[j]]
KeepsPromise == Promise!Spec

\* The control plane fails a job whose pair the worker does not approve any
\* more, whatever the owner asked for, and nothing else happens.
Disapproved(j) ==
  /\ j \notin published
  /\ cp[j].state \in {"queued", "retry_wait", "running", "cancel_requested"}
  /\ cp'[j].state = "failed" /\ cp'[j].pages = cp[j].pages
  /\ \A k \in Jobs : k # j => cp'[k] = cp[k]
  /\ stored' = stored

PolicyRefuses == \E j \in Jobs : Disapproved(j)

\* When the worker's policy changes between its runs, the refusal of such a job
\* is all that the control plane's view has beyond Lifecycle: no other job is
\* touched, no progress is taken back, and a late report of the refused job
\* revives nothing (worker_jobs.go:67-74).
KeepsAllButRefusals ==
  Promise!Init /\ [][Promise!Next \/ PolicyRefuses]_(Promise!lifecycleVars)

\* A cancellation ends in "canceled", even when the worker crashes, loses the
\* answer or its data (worker_jobs.go:57,75,151-158).
CancelTakesEffect ==
  \A j \in Jobs :
    (cp[j].state = "cancel_requested") ~> (cp[j].state = "canceled")

\* A queued job is taken up by the worker and comes to rest.
QueuedJobSettles ==
  \A j \in Jobs :
    (cp[j].state = "queued") ~>
      (cp[j].state \in {"succeeded", "failed", "canceled", "retry_wait"})
=============================================================================
