--------------------------- MODULE TransferEngine ---------------------------
(***************************************************************************)
(* The hosted transfer engine: the Store of control/store.go and the pool  *)
(* of executors of control/engine.go that move its jobs.                   *)
(*                                                                         *)
(* An action is a section of the code that holds the Store's mutex, or a   *)
(* reply of a database.  Reads that a section makes next to the Store (the *)
(* context, the connection registry) happen in the same step: nothing that *)
(* could come between them touches both.                                   *)
(*                                                                         *)
(* The journal is kept as what its replay would yield.  A failed append    *)
(* leaves the memory alone, poisons the Store until the process restarts,  *)
(* and may or may not have reached the disk.                               *)
(*                                                                         *)
(* An operator X_Faulty... is X with a plausible mistake, never part of    *)
(* Next: it shows that a property below would notice the mistake.          *)
(***************************************************************************)
EXTENDS JobRecord, FiniteSets

CONSTANTS
  NumJobs,         \* jobs are numbered in the order of their CreatedAt
  Executors,       \* the goroutines of Engine.Run
  Resource,        \* Resource[j]: the SinkResource of job j
  LastPage,        \* every source has the pages 1..LastPage
  Through,         \* Through[p]: the records of the pages 1..p together
  MaxAttempts,     \* Spec.MaxAttempts
  MaxRestarts,     \* Spec.MaxRestarts, -1 for none
  PatientOperator, \* TRUE: nobody resumes a job its executor still holds
  MaxFaults,       \* bound on failed appends, crashes and stops together
  MaxResumes       \* bound on the operator's resumes

Jobs == 1..NumJobs
Pages == 1..LastPage
Size(p) == Through[p] - Through[p - 1]

ASSUME EngineAssumption ==
  /\ NumJobs \in Nat
  /\ LastPage \in Nat \ {0}
  /\ Resource \in [Jobs -> Nat]
  /\ Through \in [0..LastPage -> Nat]
  /\ Through[0] = 0
  /\ \A p \in Pages : Through[p - 1] <= Through[p]
  /\ MaxAttempts \in Nat \ {0}
  /\ MaxRestarts \in Nat \cup {-1}
  /\ PatientOperator \in BOOLEAN
  /\ MaxFaults \in Nat
  /\ MaxResumes \in Nat

VARIABLES
  job,        \* Store.jobs
  disk,       \* the jobs a replay of the journal would yield
  poison,     \* Store.poison is set
  recovering, \* jobs that Recover has listed and not yet updated
  stopping,   \* the context of Run is canceled
  exec,       \* exec[w]: where executor w stands
  sink,       \* sink[j]: the nonempty pages of j that its destination holds
  access,     \* jobs whose connections resolve, match and are authorized
  faults,     \* failed appends, crashes and stops so far
  resumes     \* resumes so far

storeVars == <<job, disk, poison>>
vars == <<job, disk, poison, recovering, stopping, exec, sink, access, faults,
          resumes>>

Labels == {"idle", "authorize", "inspect", "read", "reading", "write",
           "writing", "error", "restart", "finish", "checkpoint", "after",
           "dead"}

\* What an executor carries: the job it claimed, the cursor of its snapshot,
\* the attempt it is on, and the kind of its error or the verdict to persist.
\* The page in hand is always the one after the snapshot's cursor.
ExecType ==
  [pc : Labels, job : 0..NumJobs, from : 0..(LastPage - 1),
   attempt : 1..MaxAttempts,
   verdict : {"none", "transient", "permanent",
              "canceled", "queued", "succeeded", "failed"}]

Idle == [pc |-> "idle", job |-> 0, from |-> 0, attempt |-> 1,
         verdict |-> "none"]
Dead == [Idle EXCEPT !.pc = "dead"]

Mine(w) == exec[w].job
Page(w) == exec[w].from + 1
Holds(w, j) == exec[w].job = j

TypeOK ==
  /\ job \in [Jobs -> JobType(LastPage)]
  /\ disk \in [Jobs -> JobType(LastPage)]
  /\ poison \in BOOLEAN
  /\ recovering \subseteq Jobs
  /\ stopping \in BOOLEAN
  /\ exec \in [Executors -> ExecType]
  /\ sink \in [Jobs -> SUBSET Pages]
  /\ access \subseteq Jobs
  /\ faults \in 0..MaxFaults
  /\ resumes \in 0..MaxResumes

Init ==
  /\ job = [j \in Jobs |-> Absent]
  /\ disk = [j \in Jobs |-> Absent]
  /\ poison = FALSE
  /\ recovering = {}
  /\ stopping = FALSE
  /\ exec = [w \in Executors |-> Idle]
  /\ sink = [j \in Jobs |-> {}]
  /\ access = Jobs
  /\ faults = 0
  /\ resumes = 0

-----------------------------------------------------------------------------
(* Store.append, and what an executor does with its outcome.               *)

\* The entry is on disk and the memory follows.
Append(j, new) ==
  /\ ~poison
  /\ job' = [job EXCEPT ![j] = new]
  /\ disk' = [disk EXCEPT ![j] = new]
  /\ UNCHANGED <<poison, faults>>

\* The write or the fsync fails: nobody knows what reached the disk.
AppendFails(j, new) ==
  /\ ~poison
  /\ faults < MaxFaults
  /\ faults' = faults + 1
  /\ poison' = TRUE
  /\ \/ disk' = [disk EXCEPT ![j] = new]
     \/ UNCHANGED disk
  /\ UNCHANGED job

\* The first failure is kept, and every later append reports it.
AppendRefused == poison /\ UNCHANGED <<job, disk, poison, faults>>

Become(w, e) == exec' = [exec EXCEPT ![w] = e]
Goto(w, label) == Become(w, [exec[w] EXCEPT !.pc = label])
Decide(w, label, verdict) ==
  Become(w, [exec[w] EXCEPT !.pc = label, !.verdict = verdict])

\* execute returns an error: Run cancels the context of every executor.
Dies(w) ==
  /\ Become(w, Dead)
  /\ stopping' = TRUE

\* An update of the executor's job whose failure ends the executor.
Save(w, new, e) ==
  /\ \/ Append(Mine(w), new) /\ Become(w, e) /\ UNCHANGED stopping
     \/ (AppendFails(Mine(w), new) \/ AppendRefused) /\ Dies(w)
  /\ UNCHANGED <<recovering, sink, access, resumes>>

\* Audit updates of the executor's job ("phase", "retry") change nothing that
\* is modelled; their failure is an error of the operation under way.
Note(w, e) ==
  /\ \/ Append(Mine(w), job[Mine(w)]) /\ Become(w, e)
     \/ /\ AppendFails(Mine(w), job[Mine(w)]) \/ AppendRefused
        /\ Decide(w, "error", "permanent")
  /\ UNCHANGED <<recovering, stopping, access, resumes>>

-----------------------------------------------------------------------------
(* The API.  A request that the poisoned Store refuses changes nothing.    *)

\* Engine.Submit and Store.Create.
Submit(j) ==
  /\ job[j] = Absent
  /\ \A k \in Jobs : k < j => job[k] # Absent
  /\ j \in access
  /\ Append(j, NewJob) \/ AppendFails(j, NewJob)
  /\ UNCHANGED <<recovering, stopping, exec, sink, access, resumes>>

Cancel(j) ==
  /\ Cancelable(job[j])
  /\ Append(j, CancelAsked(job[j])) \/ AppendFails(j, CancelAsked(job[j]))
  /\ UNCHANGED <<recovering, stopping, exec, sink, access, resumes>>

\* PatientOperator restricts the environment, not the code.
Resume(j) ==
  /\ Resumable(job[j])
  /\ j \in access
  /\ PatientOperator => \A w \in Executors : ~Holds(w, j)
  /\ resumes < MaxResumes
  /\ resumes' = resumes + 1
  /\ Append(j, Resumed(job[j])) \/ AppendFails(j, Resumed(job[j]))
  /\ UNCHANGED <<recovering, stopping, exec, sink, access>>

-----------------------------------------------------------------------------
(* Engine.Run: recovery, and the loop that claims.                         *)

\* Recover walks the list newest first; an error ends Run before it starts
\* an executor.
Recover(j) ==
  /\ j \in recovering
  /\ \A k \in recovering : k <= j
  /\ \/ /\ Append(j, Recovered(job[j]))
        /\ recovering' = recovering \ {j}
        /\ UNCHANGED <<stopping, exec>>
     \/ /\ AppendFails(j, Recovered(job[j])) \/ AppendRefused
        /\ exec' = [w \in Executors |-> Dead]
        /\ stopping' = TRUE
        /\ recovering' = {}
  /\ UNCHANGED <<sink, access, resumes>>

Eligible_FaultyBusy(due) ==
  {j \in Jobs : /\ job[j].state = "queued" \/ j \in due
                /\ \A k \in Jobs :
                      job[k].state = "running" => Resource[k] # Resource[j]}

\* The jobs that Claim may pick from; due holds those jobs in retry_wait whose
\* NextRunAt has passed.
Eligible(due) ==
  {j \in Jobs : /\ job[j].state = "queued" \/ j \in due
                /\ \A k \in Jobs :
                      job[k].state \in Busy => Resource[k] # Resource[j]}

Claim(w) ==
  /\ exec[w].pc = "idle"
  /\ recovering = {}
  /\ ~stopping
  /\ \/ AppendRefused /\ Dies(w)
     \/ \E due \in SUBSET {j \in Jobs : job[j].state = "retry_wait"} :
          \E j \in Eligible(due) :
            /\ \A k \in Eligible(due) : j <= k
            /\ \/ /\ Append(j, Started(job[j]))
                  /\ Become(w, [Idle EXCEPT !.pc = "authorize", !.job = j])
                  /\ UNCHANGED stopping
               \/ AppendFails(j, Started(job[j])) /\ Dies(w)
  /\ UNCHANGED <<recovering, sink, access, resumes>>

\* The context is canceled: the executor leaves its loop.
Leave(w) ==
  /\ exec[w].pc = "idle"
  /\ recovering = {}
  /\ stopping
  /\ Become(w, Dead)
  /\ UNCHANGED <<storeVars, recovering, stopping, sink, access, faults, resumes>>

-----------------------------------------------------------------------------
(* Engine.execute.                                                         *)

\* A step that only moves the executor.
Local == UNCHANGED <<storeVars, recovering, stopping, sink, access, faults,
                     resumes>>

Authorize(w) ==
  /\ exec[w].pc = "authorize"
  /\ IF Mine(w) \in access THEN Goto(w, "inspect")
                           ELSE Decide(w, "finish", "failed")
  /\ Local

Inspect_FaultyStop(w) ==
  /\ exec[w].pc = "inspect"
  /\ IF stopping THEN Become(w, Dead)
     ELSE Become(w, [exec[w] EXCEPT !.pc = "read", !.attempt = 1,
                                    !.from = job[Mine(w)].cursor])
  /\ Local

\* How the top of the loop decides, from one snapshot of the job, to end the
\* execution; "none" goes on with the next page.
EarlyEnd(j) ==
  IF job[j].state = "cancel_requested" THEN "canceled"
  ELSE IF stopping THEN "queued"
  ELSE IF job[j].exhausted THEN "succeeded"
  ELSE IF j \notin access THEN "failed"
  ELSE "none"

Inspect(w) ==
  /\ exec[w].pc = "inspect"
  /\ IF EarlyEnd(Mine(w)) = "none"
     THEN Become(w, [exec[w] EXCEPT !.pc = "read", !.attempt = 1,
                                    !.from = job[Mine(w)].cursor])
     ELSE Decide(w, "finish", EarlyEnd(Mine(w)))
  /\ Local

\* The top of Engine.retry, before each attempt of an operation.
Attempt(w, operation, call) ==
  /\ exec[w].pc = operation
  /\ UNCHANGED sink
  /\ IF stopping \/ job[Mine(w)].state = "cancel_requested"
     THEN /\ Decide(w, "error", "permanent")
          /\ UNCHANGED <<storeVars, recovering, stopping, access, faults, resumes>>
     ELSE Note(w, [exec[w] EXCEPT !.pc = call])

CallFails_FaultySwallow(w, operation) ==
  /\ UNCHANGED <<storeVars, recovering, stopping, access, faults, resumes>>
  /\ IF exec[w].attempt = MaxAttempts
     THEN Goto(w, "checkpoint")
     ELSE Become(w, [exec[w] EXCEPT !.pc = operation, !.attempt = @ + 1])

\* The call failed: give up, or note the retry and, after the backoff, try again.
CallFails(w, operation) ==
  \/ /\ Decide(w, "error", "permanent")
     /\ UNCHANGED <<storeVars, recovering, stopping, access, faults, resumes>>
  \/ /\ exec[w].attempt = MaxAttempts
     /\ Decide(w, "error", "transient")
     /\ UNCHANGED <<storeVars, recovering, stopping, access, faults, resumes>>
  \/ /\ exec[w].attempt < MaxAttempts
     /\ Note(w, [exec[w] EXCEPT !.pc = operation, !.attempt = @ + 1])

BeginRead(w) == Attempt(w, "read", "reading")
BeginWrite(w) == Attempt(w, "write", "writing")

\* The source answers with the next page, or fails; a page that breaks the
\* contract (too long, no progress, invalid records) is a permanent failure.
ReadReturns(w) ==
  /\ exec[w].pc = "reading"
  /\ UNCHANGED sink
  /\ \/ /\ Become(w, [exec[w] EXCEPT
                        !.pc = IF Size(Page(w)) = 0 THEN "checkpoint" ELSE "write",
                        !.attempt = 1])
        /\ UNCHANGED <<storeVars, recovering, stopping, access, faults, resumes>>
     \/ CallFails(w, "read")

\* The destination acknowledges the whole page, or fails and may hold it anyway.
WriteReturns(w) ==
  /\ exec[w].pc = "writing"
  /\ \/ /\ sink' = [sink EXCEPT ![Mine(w)] = @ \cup {Page(w)}]
        /\ Goto(w, "checkpoint")
        /\ UNCHANGED <<storeVars, recovering, stopping, access, faults, resumes>>
     \/ /\ \/ sink' = [sink EXCEPT ![Mine(w)] = @ \cup {Page(w)}]
           \/ UNCHANGED sink
        /\ CallFails(w, "write")

\* What follows an operation that returned an error.
MayRestart(w) ==
  exec[w].verdict = "transient" /\ job[Mine(w)].restarts < MaxRestarts

HandleError(w) ==
  /\ exec[w].pc = "error"
  /\ IF poison THEN Dies(w)
     ELSE /\ IF stopping THEN Decide(w, "finish", "queued")
             ELSE IF job[Mine(w)].state = "cancel_requested"
             THEN Decide(w, "finish", "canceled")
             ELSE IF MayRestart(w) THEN Goto(w, "restart")
             ELSE Decide(w, "finish", "failed")
          /\ UNCHANGED stopping
  /\ UNCHANGED <<storeVars, recovering, sink, access, faults, resumes>>

ScheduleRestart(w) ==
  /\ exec[w].pc = "restart"
  /\ Save(w, RestartScheduled(job[Mine(w)]), Idle)

Finish(w) ==
  /\ exec[w].pc = "finish"
  /\ Save(w, Finished(job[Mine(w)], exec[w].verdict), Idle)

\* The page is acknowledged: the cursor moves, and a final page ends the job.
Checkpoint(w) ==
  LET done == Page(w) = LastPage IN
  /\ exec[w].pc = "checkpoint"
  /\ Save(w, Checkpointed(job[Mine(w)], Page(w), Size(Page(w)), done),
             IF done THEN Idle ELSE [exec[w] EXCEPT !.pc = "after"])

\* A second look at the job: canceled by the checkpoint, or on to the next page.
AfterCheckpoint(w) ==
  /\ exec[w].pc = "after"
  /\ IF job[Mine(w)].state = "canceled" THEN Become(w, Idle)
                                        ELSE Goto(w, "inspect")
  /\ Local

-----------------------------------------------------------------------------
(* The process and its surroundings.                                       *)

\* A new process replays the journal and lists what was interrupted.
Reboot ==
  /\ job' = disk
  /\ poison' = FALSE
  /\ stopping' = FALSE
  /\ exec' = [w \in Executors |-> Idle]
  /\ recovering' = {j \in Jobs : disk[j].state \in Busy}
  /\ UNCHANGED <<disk, sink, access, resumes>>

Crash ==
  /\ faults < MaxFaults
  /\ faults' = faults + 1
  /\ Reboot

\* Run has returned, the process exits and is started again.
Restart ==
  /\ \A w \in Executors : exec[w] = Dead
  /\ UNCHANGED faults
  /\ Reboot

\* The process is asked to stop: the context is canceled.
Stop ==
  /\ ~stopping
  /\ faults < MaxFaults
  /\ faults' = faults + 1
  /\ stopping' = TRUE
  /\ UNCHANGED <<storeVars, recovering, exec, sink, access, resumes>>

\* Grants, connections and their configuration come and go.
ChangeAccess(j) ==
  /\ access' = IF j \in access THEN access \ {j} ELSE access \cup {j}
  /\ UNCHANGED <<storeVars, recovering, stopping, exec, sink, faults, resumes>>

-----------------------------------------------------------------------------
ExecutorStep(w) ==
  \/ Claim(w) \/ Leave(w) \/ Authorize(w) \/ Inspect(w)
  \/ BeginRead(w) \/ ReadReturns(w) \/ BeginWrite(w) \/ WriteReturns(w)
  \/ HandleError(w) \/ ScheduleRestart(w) \/ Finish(w)
  \/ Checkpoint(w) \/ AfterCheckpoint(w)

Operator(j) == Submit(j) \/ Cancel(j) \/ Resume(j)

Next ==
  \/ \E w \in Executors : ExecutorStep(w)
  \/ \E j \in Jobs : Operator(j) \/ Recover(j) \/ ChangeAccess(j)
  \/ Crash \/ Restart \/ Stop

Spec == Init /\ [][Next]_vars

\* Goroutines are scheduled, calls are bounded by their time-outs, and a
\* process that exits is started again.
Fairness ==
  /\ \A w \in Executors : WF_vars(ExecutorStep(w))
  /\ \A j \in Jobs : WF_vars(Recover(j))
  /\ WF_vars(Restart)

FairSpec == Spec /\ Fairness

-----------------------------------------------------------------------------
(* Properties.                                                             *)

\* The pages of job j that its destination holds; a page without records is
\* never written and always held.
Stored(j) == sink[j] \cup {p \in Pages : Size(p) = 0}

\* A saved cursor never stands past a page that the destination does not hold,
\* and a job is exhausted or succeeded only when it holds every page.  True of
\* the memory and of what a restart would find (the package comment of
\* control/store.go: a cursor advances only after the sink acknowledges).
NoSkip(jobs) ==
  \A j \in Jobs :
    /\ 1..jobs[j].cursor \subseteq Stored(j)
    /\ jobs[j].exhausted \/ jobs[j].state = "succeeded" => Pages \subseteq Stored(j)

NoPageSkipped == NoSkip(job) /\ NoSkip(disk)

\* Records counts each acknowledged source record once, whatever was retried,
\* replayed or recovered.
ExactCounts ==
  \A j \in Jobs : /\ job[j].records = Through[job[j].cursor]
                  /\ disk[j].records = Through[disk[j].cursor]

\* An executor works on its job until the checkpoint that canceled it: from
\* there it only looks at the job once more and lets go.
Working(w) == Mine(w) # 0 /\ exec[w].pc # "after"

\* Two executors never work on the same destination, so never on the same job
\* (Claim's busy set; docs/architecture.md: hosted workers serialize jobs
\* targeting the same configured resource within their process).
SerializedSinks ==
  \A v, w \in Executors :
    v # w /\ Working(v) /\ Working(w) => Resource[Mine(v)] # Resource[Mine(w)]

\* A job that occupies its destination is in somebody's hands: an executor's,
\* or those of Recover.  Otherwise nobody would ever free the destination.
NoOrphan ==
  \A j \in Jobs :
    job[j].state \in Busy =>
      poison \/ j \in recovering \/ \E w \in Executors : Holds(w, j)

\* The engine keeps the promise of Lifecycle with what it has made durable.
Promise == INSTANCE Lifecycle WITH
  status <- [j \in Jobs |-> disk[j].state],
  acked  <- [j \in Jobs |-> disk[j].cursor],
  stored <- [j \in Jobs |-> Stored(j)]
KeepsPromise == Promise!Spec

\* A cancellation that was asked for takes effect.
CancelTakesEffect ==
  \A j \in Jobs : job[j].state = "cancel_requested" ~> job[j].state = "canceled"

\* A queued job is executed to an end, or canceled: no job starves behind
\* another, behind a restart, or behind a stale claim of its destination.
QueuedJobSettles ==
  \A j \in Jobs :
    job[j].state = "queued" ~> job[j].state \in {"succeeded", "failed", "canceled"}
=============================================================================
