------------------------ MODULE TransferEngineProofs ------------------------
(***************************************************************************)
(* Proofs about TransferEngine, for every number of jobs, executors and    *)
(* pages, every assignment of destinations and every bound.                *)
(*                                                                         *)
(* Part one is local.  A job record is sound when its cursor stands behind *)
(* stored pages only; an executor is sound when what it is about to        *)
(* persist is.  Every closure keeps a sound record sound, an append puts   *)
(* a sound record in memory and on disk, and the destination only gains    *)
(* pages, so soundness survives what other actors do.                      *)
(*                                                                         *)
(* Part two is about who holds a job: the jobs of one destination exclude  *)
(* each other, a busy job is in somebody's hands, and, when the operator   *)
(* is patient, it has one executor and moves along the state diagram.      *)
(*                                                                         *)
(* Part three is about the Store that the module is written with: it is    *)
(* the one of StoreContract, which Journal implements.                     *)
(***************************************************************************)
EXTENDS TransferEngine, TLAPS

\* What holds of a job record r in memory or on disk, when the destination of
\* its job holds the pages S.
SoundRecord(r, S) ==
  /\ r \in JobType(LastPage)
  /\ r.exhausted \/ r.cursor < LastPage
  /\ 1..r.cursor \subseteq S
  /\ r.exhausted \/ r.state = "succeeded" => Pages \subseteq S

\* Labels at which an executor works on the page after its snapshot.
OnPage == {"read", "reading", "write", "writing", "checkpoint"}

\* What holds of an executor, when the destination of its job holds S.
SoundExec(e, S) ==
  /\ e \in ExecType
  /\ e.pc \notin {"idle", "dead"} => e.job \in Jobs
  /\ e.pc \in OnPage => 1..e.from \subseteq S
  /\ e.pc = "checkpoint" => e.from + 1 \in S
  /\ e.pc = "finish" =>
        /\ e.verdict \in {"canceled", "queued", "succeeded", "failed"}
        /\ e.verdict = "succeeded" => Pages \subseteq S

RecordsSound(jobs) == \A j \in Jobs : SoundRecord(jobs[j], Stored(j))
Execs == \A w \in Executors : SoundExec(exec[w], Stored(exec[w].job))

Sound == TypeOK /\ RecordsSound(job) /\ RecordsSound(disk) /\ Execs

-----------------------------------------------------------------------------
\* The size of a page is a natural number: Through never decreases.
LEMMA SizeNat == \A p \in Pages : Size(p) \in Nat
  BY EngineAssumption DEF Size, Pages

\* There is a page.
LEMMA LastPageNat == LastPage \in Nat /\ 0 < LastPage
  BY EngineAssumption

\* The records that a job starts from.
LEMMA AbsentSound == \A S : SoundRecord(Absent, S) /\ SoundRecord(NewJob, S)
<1> SUFFICES ASSUME NEW S
             PROVE  SoundRecord(Absent, S) /\ SoundRecord(NewJob, S)
  OBVIOUS
<1>0. Absent \in JobType(LastPage)
  BY LastPageNat DEF Absent, JobType, States
<1>1. NewJob \in JobType(LastPage)
  BY <1>0 DEF NewJob, JobType, States
<1>2. /\ Absent.cursor = 0 /\ ~Absent.exhausted /\ Absent.state # "succeeded"
      /\ NewJob.cursor = 0 /\ ~NewJob.exhausted /\ NewJob.state # "succeeded"
  BY DEF Absent, NewJob
<1>3. 1..0 \subseteq S
  OBVIOUS
<1> QED BY <1>0, <1>1, <1>2, <1>3, LastPageNat DEF SoundRecord

\* Every closure but the checkpoint and the final one keeps a record sound.
LEMMA ClosuresSound ==
  ASSUME NEW S, NEW r, SoundRecord(r, S)
  PROVE  /\ SoundRecord(CancelAsked(r), S)
         /\ SoundRecord(Resumed(r), S)
         /\ SoundRecord(Started(r), S)
         /\ SoundRecord(Recovered(r), S)
         /\ SoundRecord(RestartScheduled(r), S)
<1>1. SoundRecord(CancelAsked(r), S)
  BY DEF SoundRecord, JobType, States, CancelAsked
<1>2. SoundRecord(Resumed(r), S)
  BY DEF SoundRecord, JobType, States, Resumed
<1>3. SoundRecord(Started(r), S)
  BY DEF SoundRecord, JobType, States, Started
<1>4. SoundRecord(Recovered(r), S)
  BY DEF SoundRecord, JobType, States, Recovered, CancelWins
<1>5. SoundRecord(RestartScheduled(r), S)
  <2>1. CASE r.state = "cancel_requested"
    BY <2>1 DEF SoundRecord, JobType, States, RestartScheduled
  <2>2. CASE r.state # "cancel_requested"
    <3>1. r.restarts + 1 \in Nat
      BY DEF SoundRecord, JobType
    <3>2. RestartScheduled(r) =
            [r EXCEPT !.state = "retry_wait", !.restarts = @ + 1]
      BY <2>2 DEF RestartScheduled
    <3> QED BY <3>1, <3>2 DEF SoundRecord, JobType, States
  <2> QED BY <2>1, <2>2
<1> QED BY <1>1, <1>2, <1>3, <1>4, <1>5

\* A job is finished as succeeded only when its destination holds every page.
LEMMA FinishedSound ==
  ASSUME NEW S, NEW r, SoundRecord(r, S),
         NEW verdict \in {"canceled", "queued", "succeeded", "failed"},
         verdict = "succeeded" => Pages \subseteq S
  PROVE  SoundRecord(Finished(r, verdict), S)
  BY DEF SoundRecord, JobType, States, Finished, CancelWins

\* A checkpoint is sound when the pages up to the new cursor are stored.
LEMMA CheckpointedSound ==
  ASSUME NEW S, NEW r, SoundRecord(r, S),
         NEW from \in 0..(LastPage - 1),
         1..from \subseteq S, from + 1 \in S
  PROVE  SoundRecord(Checkpointed(r, from + 1, Size(from + 1),
                                  from + 1 = LastPage), S)
<1> DEFINE new == Checkpointed(r, from + 1, Size(from + 1), from + 1 = LastPage)
<1>1. from + 1 \in Pages /\ Size(from + 1) \in Nat
  BY SizeNat, EngineAssumption DEF Pages
<1>2. new \in JobType(LastPage)
  <2>1. r.records + Size(from + 1) \in Nat
    BY <1>1 DEF SoundRecord, JobType
  <2>2. CancelWins(r, IF from + 1 = LastPage THEN "succeeded" ELSE r.state) \in States
    BY DEF SoundRecord, JobType, States, CancelWins
  <2>3. from + 1 \in 0..LastPage
    BY LastPageNat
  <2> QED BY <2>1, <2>2, <2>3 DEF SoundRecord, JobType, Checkpointed
<1>3. /\ new.cursor = from + 1
      /\ from + 1 = LastPage => new.exhausted
      /\ new.exhausted => from + 1 = LastPage
      /\ new.state = "succeeded" => from + 1 = LastPage \/ r.state = "succeeded"
  BY DEF Checkpointed, CancelWins, SoundRecord, JobType
<1> HIDE DEF new
<1>4. 1..(from + 1) \subseteq S
  BY EngineAssumption
<1>5. from + 1 = LastPage => Pages \subseteq S
  BY <1>4 DEF Pages
<1>6. new.exhausted \/ new.cursor < LastPage
  BY <1>3, LastPageNat
<1>7. new.exhausted \/ new.state = "succeeded" => Pages \subseteq S
  BY <1>3, <1>5 DEF SoundRecord
<1>8. SoundRecord(new, S)
  BY <1>2, <1>3, <1>4, <1>6, <1>7 DEF SoundRecord
<1> QED BY <1>8 DEF new

-----------------------------------------------------------------------------
(* A step seen from the Store, from the executors, and as a whole, while no *)
(* destination changes.                                                     *)

StoreSound ==
  /\ job' \in [Jobs -> JobType(LastPage)]
  /\ disk' \in [Jobs -> JobType(LastPage)]
  /\ poison' \in BOOLEAN
  /\ faults' \in 0..MaxFaults
  /\ \A j \in Jobs : SoundRecord(job'[j], Stored(j)) /\ SoundRecord(disk'[j], Stored(j))

ExecsSound ==
  /\ exec' \in [Executors -> ExecType]
  /\ \A w \in Executors : SoundExec(exec'[w], Stored(exec'[w].job))

\* A sound record may be appended; the append may fail or be refused.
LEMMA AppendSound ==
  ASSUME Sound, NEW j \in Jobs, NEW new, SoundRecord(new, Stored(j)),
         Append(j, new) \/ AppendFails(j, new) \/ AppendRefused
  PROVE  StoreSound
<1>1. new \in JobType(LastPage)
  BY DEF SoundRecord
<1>2. /\ poison' \in BOOLEAN /\ faults' \in 0..MaxFaults
      /\ job' = job \/ job' = [job EXCEPT ![j] = new]
      /\ disk' = disk \/ disk' = [disk EXCEPT ![j] = new]
  <2>1. poison \in BOOLEAN /\ faults \in 0..MaxFaults /\ MaxFaults \in Nat
    BY EngineAssumption DEF Sound, TypeOK
  <2>2. CASE Append(j, new)
    BY <2>1, <2>2 DEF Append
  <2>3. CASE AppendFails(j, new)
    BY <2>1, <2>3 DEF AppendFails
  <2>4. CASE AppendRefused
    BY <2>1, <2>4 DEF AppendRefused
  <2> QED BY <2>2, <2>3, <2>4
<1>3. job' \in [Jobs -> JobType(LastPage)] /\ disk' \in [Jobs -> JobType(LastPage)]
  BY <1>1, <1>2 DEF Sound, TypeOK
<1>4. ASSUME NEW k \in Jobs
      PROVE  SoundRecord(job'[k], Stored(k)) /\ SoundRecord(disk'[k], Stored(k))
  <2>1. /\ job'[k] = job[k] \/ (k = j /\ job'[k] = new)
        /\ disk'[k] = disk[k] \/ (k = j /\ disk'[k] = new)
    BY <1>2 DEF Sound, TypeOK
  <2> QED BY <2>1 DEF Sound, RecordsSound
<1> QED BY <1>2, <1>3, <1>4 DEF StoreSound

\* Nothing is appended.
LEMMA NoAppendSound ==
  ASSUME Sound, UNCHANGED <<storeVars, faults>>
  PROVE  StoreSound
  BY DEF Sound, TypeOK, RecordsSound, StoreSound, storeVars

\* One executor moves to a sound place, or none moves.
LEMMA BecomeSound ==
  ASSUME Sound, NEW w \in Executors, NEW e, SoundExec(e, Stored(e.job)),
         Become(w, e) \/ UNCHANGED exec
  PROVE  ExecsSound
<1>1. exec' \in [Executors -> ExecType]
  BY DEF Sound, TypeOK, Become, SoundExec
<1>2. ASSUME NEW v \in Executors
      PROVE  SoundExec(exec'[v], Stored(exec'[v].job))
  <2>1. exec'[v] = exec[v] \/ exec'[v] = e
    BY DEF Sound, TypeOK, Become
  <2> QED BY <2>1 DEF Sound, Execs
<1> QED BY <1>1, <1>2 DEF ExecsSound

\* The two resting places are sound whatever the destinations hold.
LEMMA RestSound == \A S : SoundExec(Idle, S) /\ SoundExec(Dead, S)
<1> SUFFICES ASSUME NEW S PROVE SoundExec(Idle, S) /\ SoundExec(Dead, S)
  OBVIOUS
<1>1. Idle \in ExecType
  BY EngineAssumption DEF Idle, ExecType, Labels
<1>2. Dead \in ExecType
  BY <1>1 DEF Dead, ExecType, Labels
<1>3. Idle.pc = "idle" /\ Dead.pc = "dead"
  BY DEF Idle, Dead
<1> QED BY <1>1, <1>2, <1>3 DEF SoundExec, OnPage

\* The destinations only gain pages.
SinkGrows ==
  /\ sink' \in [Jobs -> SUBSET Pages]
  /\ \A j \in Jobs : sink[j] \subseteq sink'[j]

\* What is sound stays sound when the destination gains pages.
LEMMA MoreStored ==
  ASSUME NEW S, NEW T, S \subseteq T
  PROVE  /\ \A r : SoundRecord(r, S) => SoundRecord(r, T)
         /\ \A e : SoundExec(e, S) => SoundExec(e, T)
  BY DEF SoundRecord, SoundExec

\* Stored(j) after the step, for a value j of the state before it.
StoredNext(j) == sink'[j] \cup {p \in Pages : Size(p) = 0}

\* An executor that was sound for the old destinations is for the new ones.
LEMMA ExecGrows ==
  ASSUME NEW e, SoundExec(e, Stored(e.job)), SinkGrows
  PROVE  SoundExec(e, StoredNext(e.job))
<1>1. CASE e.job \in Jobs
  <2>1. Stored(e.job) \subseteq StoredNext(e.job)
    BY <1>1 DEF SinkGrows, Stored, StoredNext
  <2> QED BY <2>1, MoreStored
<1>2. CASE e.job \notin Jobs
  BY <1>2 DEF SoundExec, OnPage
<1> QED BY <1>1, <1>2

\* So every executor stays sound while destinations gain pages.
LEMMA ExecsGrow ==
  ASSUME ExecsSound, SinkGrows
  PROVE  Execs'
<1> SUFFICES ASSUME NEW w \in Executors
             PROVE  SoundExec(exec[w], Stored(exec[w].job))'
  BY DEF Execs
<1>1. SoundExec(exec'[w], StoredNext(exec'[w].job))
  BY ExecGrows DEF ExecsSound
<1> QED BY <1>1 DEF Stored, StoredNext

\* The parts of a step add up to the invariant.
LEMMA GrowSound ==
  ASSUME Sound, StoreSound, SinkGrows, exec' \in [Executors -> ExecType], Execs',
         recovering' \subseteq Jobs, stopping' \in BOOLEAN,
         access' \subseteq Jobs, resumes' \in 0..MaxResumes
  PROVE  Sound'
<1>1. TypeOK'
  BY DEF TypeOK, StoreSound, SinkGrows
<1>2. \A j \in Jobs : Stored(j) \subseteq Stored(j)'
  BY DEF Stored, SinkGrows
<1>3. RecordsSound(job)' /\ RecordsSound(disk)'
  BY <1>2, MoreStored DEF RecordsSound, StoreSound
<1> QED BY <1>1, <1>3 DEF Sound

\* The same for a step that changes no destination.
LEMMA StepSound ==
  ASSUME Sound, StoreSound, ExecsSound, UNCHANGED sink,
         recovering' \subseteq Jobs, stopping' \in BOOLEAN,
         access' \subseteq Jobs, resumes' \in 0..MaxResumes
  PROVE  Sound'
<1>1. SinkGrows
  BY DEF SinkGrows, Sound, TypeOK
<1> QED BY <1>1, GrowSound, ExecsGrow DEF ExecsSound

-----------------------------------------------------------------------------
(* The executors' ways to move, used by several actions.                   *)

\* What is known of an executor that holds a job.
LEMMA Holder ==
  ASSUME Sound, NEW w \in Executors, exec[w].pc \notin {"idle", "dead"}
  PROVE  /\ exec[w] \in ExecType
         /\ SoundExec(exec[w], Stored(exec[w].job))
         /\ exec[w].job \in Jobs /\ Mine(w) = exec[w].job
         /\ SoundRecord(job[Mine(w)], Stored(exec[w].job))
  BY DEF Sound, TypeOK, Execs, SoundExec, Mine, RecordsSound

\* Save: the update persists new and the executor goes on as e, or dies.
LEMMA SaveSound ==
  ASSUME Sound, NEW w \in Executors, Mine(w) \in Jobs, NEW new, NEW e,
         SoundRecord(new, Stored(Mine(w))), SoundExec(e, Stored(e.job)),
         Save(w, new, e)
  PROVE  Sound'
<1>1. StoreSound
  BY AppendSound DEF Save
<1>2. ExecsSound
  BY BecomeSound, RestSound DEF Save, Dies
<1>3. stopping' \in BOOLEAN
  BY DEF Save, Dies, Sound, TypeOK
<1> QED BY <1>1, <1>2, <1>3, StepSound DEF Save, Sound, TypeOK

\* Decide: the executor carries a verdict to its end.
LEMMA DecideSound ==
  ASSUME Sound, NEW w \in Executors, exec[w].pc \notin {"idle", "dead"},
         NEW verdict, NEW label, Decide(w, label, verdict),
         \/ label = "error" /\ verdict \in {"transient", "permanent"}
         \/ /\ label = "finish"
            /\ verdict \in {"canceled", "queued", "failed", "succeeded"}
            /\ verdict = "succeeded" => Pages \subseteq Stored(exec[w].job)
  PROVE  ExecsSound
<1> DEFINE e == [exec[w] EXCEPT !.pc = label, !.verdict = verdict]
<1>1. e \in ExecType /\ e.pc = label /\ e.verdict = verdict /\ e.job = exec[w].job
  BY Holder DEF ExecType, Labels
<1>2. SoundExec(e, Stored(e.job))
  BY <1>1, Holder DEF SoundExec, OnPage
<1> QED BY <1>2, BecomeSound DEF Decide

\* Note: an audit update, whose failure turns into an error.
LEMMA NoteSound ==
  ASSUME Sound, NEW w \in Executors, exec[w].pc \notin {"idle", "dead"},
         NEW e, SoundExec(e, Stored(e.job)), Note(w, e)
  PROVE  StoreSound /\ ExecsSound
<1>1. StoreSound
  BY AppendSound, Holder DEF Note
<1>2. ExecsSound
  BY DecideSound, BecomeSound DEF Note
<1> QED BY <1>1, <1>2

\* CallFails: an operation that did not succeed.
LEMMA CallFailsSound ==
  ASSUME Sound, NEW w \in Executors, NEW operation \in {"read", "write"},
         exec[w].pc \in {"reading", "writing"}, CallFails(w, operation)
  PROVE  /\ StoreSound /\ ExecsSound
         /\ UNCHANGED <<recovering, stopping, access, resumes>>
<1>1. CASE /\ \E verdict \in {"permanent", "transient"} : Decide(w, "error", verdict)
           /\ UNCHANGED <<storeVars, recovering, stopping, access, faults, resumes>>
  BY <1>1, DecideSound, NoAppendSound
<1>2. CASE /\ exec[w].attempt < MaxAttempts
           /\ Note(w, [exec[w] EXCEPT !.pc = operation, !.attempt = @ + 1])
  <2> DEFINE e == [exec[w] EXCEPT !.pc = operation, !.attempt = @ + 1]
  <2>1. exec[w].attempt + 1 \in 1..MaxAttempts
    BY <1>2, Holder, EngineAssumption DEF ExecType
  <2>2. /\ e \in ExecType /\ e.pc = operation /\ e.job = exec[w].job
        /\ e.from = exec[w].from
    BY <2>1, Holder DEF ExecType, Labels
  <2>3. SoundExec(e, Stored(e.job))
    BY <2>2, Holder DEF SoundExec, OnPage
  <2> QED BY <1>2, <2>3, NoteSound DEF Note
<1> QED BY <1>1, <1>2 DEF CallFails

-----------------------------------------------------------------------------
(* One lemma per group of actions.                                         *)

\* The API: submit, cancel, resume.
LEMMA OperatorSound ==
  ASSUME Sound, NEW j \in Jobs, Operator(j)
  PROVE  Sound'
<1>1. SoundRecord(job[j], Stored(j))
  BY DEF Sound, RecordsSound
<1>2. ExecsSound
  BY DEF Operator, Submit, Cancel, Resume, Sound, TypeOK, Execs, ExecsSound
<1>3. StoreSound
  BY <1>1, AbsentSound, ClosuresSound, AppendSound
     DEF Operator, Submit, Cancel, Resume
<1>4. /\ UNCHANGED <<recovering, stopping, sink, access>>
      /\ resumes' \in 0..MaxResumes
  BY EngineAssumption DEF Operator, Submit, Cancel, Resume, Sound, TypeOK
<1> QED BY <1>2, <1>3, <1>4, StepSound DEF Sound, TypeOK

\* Store.Recover: an interrupted job is requeued or canceled.
LEMMA RecoverSound ==
  ASSUME Sound, NEW j \in Jobs, Recover(j)
  PROVE  Sound'
<1>1. StoreSound
  BY ClosuresSound, AppendSound DEF Recover, Sound, RecordsSound
<1>2. ExecsSound
  <2>1. CASE UNCHANGED exec
    BY <2>1 DEF Sound, TypeOK, Execs, ExecsSound
  <2>2. CASE exec' = [w \in Executors |-> Dead]
    BY <2>2, RestSound DEF ExecsSound, SoundExec
  <2> QED BY <2>1, <2>2 DEF Recover
<1>3. /\ recovering' \subseteq Jobs /\ stopping' \in BOOLEAN
      /\ UNCHANGED <<sink, access, resumes>>
  BY DEF Recover, Sound, TypeOK
<1> QED BY <1>1, <1>2, <1>3, StepSound DEF Sound, TypeOK

\* Store.Claim: the job claimed is sound, and so is its executor.
LEMMA ClaimSound ==
  ASSUME Sound, NEW w \in Executors, Claim(w)
  PROVE  Sound'
<1>1. /\ stopping' \in BOOLEAN
      /\ UNCHANGED <<recovering, sink, access, resumes>>
  BY DEF Claim, Dies, Sound, TypeOK
<1>2. CASE AppendRefused /\ Dies(w)
  <2>1. StoreSound
    BY <1>2, NoAppendSound DEF AppendRefused, storeVars
  <2>2. ExecsSound
    BY <1>2, BecomeSound, RestSound DEF Dies
  <2> QED BY <1>1, <2>1, <2>2, StepSound DEF Sound, TypeOK
<1>3. ASSUME NEW j \in Jobs,
             \/ /\ Append(j, Started(job[j]))
                /\ Become(w, [Idle EXCEPT !.pc = "authorize", !.job = j])
             \/ AppendFails(j, Started(job[j])) /\ Dies(w)
      PROVE  Sound'
  <2>1. StoreSound
    BY <1>3, ClosuresSound, AppendSound DEF Sound, RecordsSound
  <2> DEFINE e == [Idle EXCEPT !.pc = "authorize", !.job = j]
  <2>2. e \in ExecType /\ e.pc = "authorize" /\ e.job = j
    <3>1. Idle \in ExecType
      BY RestSound DEF SoundExec
    <3>2. j \in 0..NumJobs
      BY EngineAssumption DEF Jobs
    <3> QED BY <3>1, <3>2 DEF ExecType, Labels
  <2>3. SoundExec(e, Stored(e.job))
    BY <2>2 DEF SoundExec, OnPage
  <2>4. ExecsSound
    BY <1>3, <2>3, BecomeSound, RestSound DEF Dies
  <2> QED BY <1>1, <2>1, <2>4, StepSound DEF Sound, TypeOK
<1> QED BY <1>2, <1>3 DEF Claim, Eligible

\* A step that touches nothing but the executor.
LEMMA LocalSound ==
  ASSUME Sound, Local, ExecsSound
  PROVE  Sound'
<1>1. StoreSound
  BY NoAppendSound DEF Local
<1> QED BY <1>1, StepSound DEF Local, Sound, TypeOK

\* Authorization and the top of the loop of Engine.execute.
LEMMA LocalStepsSound ==
  ASSUME Sound, NEW w \in Executors,
         \/ Leave(w) \/ Authorize(w) \/ Inspect(w) \/ AfterCheckpoint(w)
  PROVE  Sound'
<1>1. CASE Leave(w)
  BY <1>1, BecomeSound, RestSound, LocalSound DEF Leave, Local
<1>2. CASE Authorize(w)
  <2>1. CASE Mine(w) \in access
    <3> DEFINE e == [exec[w] EXCEPT !.pc = "inspect"]
    <3>1. e \in ExecType /\ e.pc = "inspect" /\ e.job = exec[w].job
      BY <1>2, Holder DEF Authorize, ExecType, Labels
    <3>2. SoundExec(e, Stored(e.job))
      BY <1>2, <3>1, Holder DEF Authorize, SoundExec, OnPage
    <3> QED BY <1>2, <2>1, <3>2, BecomeSound, LocalSound DEF Authorize, Goto
  <2>2. CASE Mine(w) \notin access
    BY <1>2, <2>2, DecideSound, LocalSound DEF Authorize
  <2> QED BY <2>1, <2>2
<1>3. CASE Inspect(w)
  <2>1. CASE EarlyEnd(Mine(w)) = "none"
    <3> DEFINE e == [exec[w] EXCEPT !.pc = "read", !.attempt = 1,
                                    !.from = job[Mine(w)].cursor]
    <3>1. /\ job[Mine(w)].cursor \in 0..(LastPage - 1)
          /\ 1..job[Mine(w)].cursor \subseteq Stored(exec[w].job)
      <4>1. ~job[Mine(w)].exhausted
        BY <2>1 DEF EarlyEnd
      <4> QED BY <1>3, <4>1, Holder, LastPageNat DEF Inspect, SoundRecord, JobType
    <3>2. /\ e \in ExecType /\ e.pc = "read" /\ e.job = exec[w].job
          /\ e.from = job[Mine(w)].cursor
      <4>1. 1 \in 1..MaxAttempts
        BY EngineAssumption
      <4>2. exec[w] \in ExecType
        BY <1>3, Holder DEF Inspect
      <4> QED BY <3>1, <4>1, <4>2 DEF ExecType, Labels
    <3>3. SoundExec(e, Stored(e.job))
      BY <1>3, <3>1, <3>2, Holder DEF Inspect, SoundExec, OnPage
    <3> QED BY <1>3, <2>1, <3>3, BecomeSound, LocalSound DEF Inspect
  <2>2. CASE EarlyEnd(Mine(w)) # "none"
    <3>1. /\ EarlyEnd(Mine(w)) \in {"canceled", "queued", "failed", "succeeded"}
          /\ EarlyEnd(Mine(w)) = "succeeded" => job[Mine(w)].exhausted
      BY <2>2 DEF EarlyEnd
    <3>2. EarlyEnd(Mine(w)) = "succeeded" => Pages \subseteq Stored(exec[w].job)
      BY <1>3, <3>1, Holder DEF Inspect, SoundRecord
    <3> QED BY <1>3, <2>2, <3>1, <3>2, DecideSound, LocalSound DEF Inspect
  <2> QED BY <2>1, <2>2
<1>4. CASE AfterCheckpoint(w)
  <2> DEFINE e == [exec[w] EXCEPT !.pc = "inspect"]
  <2>1. e \in ExecType /\ e.pc = "inspect" /\ e.job = exec[w].job
    BY <1>4, Holder DEF AfterCheckpoint, ExecType, Labels
  <2>2. SoundExec(e, Stored(e.job))
    BY <1>4, <2>1, Holder DEF AfterCheckpoint, SoundExec, OnPage
  <2> QED BY <1>4, <2>2, BecomeSound, RestSound, LocalSound DEF AfterCheckpoint, Goto
<1> QED BY <1>1, <1>2, <1>3, <1>4

\* The top of retry, for a read or a write.
LEMMA AttemptSound ==
  ASSUME Sound, NEW w \in Executors, NEW operation, NEW call,
         \/ operation = "read" /\ call = "reading"
         \/ operation = "write" /\ call = "writing",
         Attempt(w, operation, call)
  PROVE  Sound'
<1>0. exec[w].pc \in OnPage /\ exec[w].pc \notin {"idle", "dead"}
  BY DEF Attempt, OnPage
<1>1. CASE /\ Decide(w, "error", "permanent")
           /\ UNCHANGED <<storeVars, recovering, stopping, access, faults, resumes>>
  <2>1. ExecsSound
    BY <1>0, <1>1, DecideSound
  <2> QED BY <1>1, <2>1, LocalSound DEF Attempt, Local
<1>2. CASE Note(w, [exec[w] EXCEPT !.pc = call])
  <2> DEFINE e == [exec[w] EXCEPT !.pc = call]
  <2>1. /\ e \in ExecType /\ e.pc = call /\ e.job = exec[w].job
        /\ e.from = exec[w].from
    BY <1>0, Holder DEF ExecType, Labels
  <2>2. SoundExec(e, Stored(e.job))
    BY <1>0, <2>1, Holder DEF SoundExec, OnPage
  <2>3. StoreSound /\ ExecsSound
    BY <1>0, <1>2, <2>2, NoteSound
  <2> QED BY <1>2, <2>3, StepSound DEF Attempt, Note, Sound, TypeOK
<1> QED BY <1>1, <1>2 DEF Attempt

\* An empty page needs no write: the destination holds all it has to hold.
LEMMA ReadReturnsSound ==
  ASSUME Sound, NEW w \in Executors, ReadReturns(w)
  PROVE  Sound'
<1>0. exec[w].pc = "reading"
  BY DEF ReadReturns
<1>1. CASE CallFails(w, "read")
  BY <1>0, <1>1, CallFailsSound, StepSound DEF ReadReturns, Sound, TypeOK
<1>2. CASE Local /\ ~CallFails(w, "read")
  <2> DEFINE label == IF Size(Page(w)) = 0 THEN "checkpoint" ELSE "write"
             e == [exec[w] EXCEPT !.pc = label, !.attempt = 1]
  <2>1. Become(w, e)
    BY <1>2 DEF ReadReturns
  <2>2. label \in {"checkpoint", "write"}
    OBVIOUS
  <2>3. 1 \in 1..MaxAttempts /\ exec[w] \in ExecType
    BY <1>0, Holder, EngineAssumption
  <2>4. e \in ExecType
    BY <2>2, <2>3 DEF ExecType, Labels
  <2>5. e.pc = label /\ e.job = exec[w].job /\ e.from = exec[w].from
    BY <2>3 DEF ExecType
  <2>6. label = "checkpoint" => exec[w].from + 1 \in Stored(exec[w].job)
    BY <2>3, LastPageNat DEF Stored, Page, Pages, ExecType
  <2> HIDE DEF label, e
  <2>7. SoundExec(e, Stored(e.job))
    BY <1>0, <2>2, <2>4, <2>5, <2>6, Holder DEF SoundExec, OnPage
  <2> QED BY <1>2, <2>1, <2>7, BecomeSound, LocalSound
<1> QED BY <1>1, <1>2 DEF ReadReturns, Local

\* The acknowledged page is stored; a failed write can only have added it.
LEMMA WriteReturnsSound ==
  ASSUME Sound, NEW w \in Executors, WriteReturns(w)
  PROVE  Sound'
<1>0. /\ exec[w].pc = "writing"
      /\ exec[w] \in ExecType /\ exec[w].job \in Jobs /\ Mine(w) = exec[w].job
      /\ SoundExec(exec[w], Stored(exec[w].job))
  BY Holder DEF WriteReturns
<1>1. Page(w) \in Pages
  BY <1>0, LastPageNat DEF Page, Pages, ExecType
<1>2. SinkGrows
  BY <1>0, <1>1 DEF WriteReturns, SinkGrows, Sound, TypeOK
<1>3. CASE CallFails(w, "write")
  <2>1. StoreSound /\ ExecsSound /\ UNCHANGED <<recovering, stopping, access, resumes>>
    BY <1>0, <1>3, CallFailsSound
  <2> QED BY <1>2, <2>1, ExecsGrow, GrowSound DEF ExecsSound, Sound, TypeOK
<1>4. CASE /\ sink' = [sink EXCEPT ![Mine(w)] = @ \cup {Page(w)}]
           /\ Goto(w, "checkpoint")
           /\ UNCHANGED <<storeVars, recovering, stopping, access, faults, resumes>>
  <2> DEFINE e == [exec[w] EXCEPT !.pc = "checkpoint"]
  <2>1. StoreSound
    BY <1>4, NoAppendSound
  <2>2. e \in ExecType /\ e.pc = "checkpoint" /\ e.job = exec[w].job /\ e.from = exec[w].from
    BY <1>0 DEF ExecType, Labels
  <2>3. exec' = [exec EXCEPT ![w] = e] /\ exec' \in [Executors -> ExecType]
    BY <1>4, <2>2 DEF Goto, Become, Sound, TypeOK
  <2>4. exec[w].from + 1 \in StoredNext(exec[w].job)
    BY <1>0, <1>4 DEF StoredNext, Page, Sound, TypeOK
  <2>5. 1..exec[w].from \subseteq StoredNext(exec[w].job)
    BY <1>0, <1>2, ExecGrows DEF SoundExec, OnPage
  <2> HIDE DEF e
  <2>6. SoundExec(e, StoredNext(e.job))
    BY <1>0, <2>2, <2>4, <2>5 DEF SoundExec, OnPage
  <2>7. ASSUME NEW v \in Executors
        PROVE  SoundExec(exec'[v], StoredNext(exec'[v].job))
    <3>1. exec'[v] = e \/ exec'[v] = exec[v]
      BY <2>3 DEF Sound, TypeOK
    <3> QED BY <1>2, <2>6, <3>1, ExecGrows DEF Sound, Execs
  <2>8. Execs'
    BY <2>7 DEF Execs, Stored, StoredNext
  <2> QED BY <1>2, <1>4, <2>1, <2>3, <2>8, GrowSound DEF Sound, TypeOK
<1> QED BY <1>3, <1>4 DEF WriteReturns

\* An error becomes a verdict or a scheduled restart.
LEMMA HandleErrorSound ==
  ASSUME Sound, NEW w \in Executors, HandleError(w)
  PROVE  Sound'
<1>0. exec[w].pc = "error"
  BY DEF HandleError
<1>1. StoreSound
  BY NoAppendSound DEF HandleError
<1>2. CASE Dies(w)
  <2>1. ExecsSound
    BY <1>2, BecomeSound, RestSound DEF Dies
  <2> QED BY <1>1, <1>2, <2>1, StepSound DEF HandleError, Dies, Sound, TypeOK
<1>3. CASE UNCHANGED stopping /\ \E verdict \in {"queued", "canceled", "failed"} :
                                 Decide(w, "finish", verdict)
  <2>1. ExecsSound
    BY <1>0, <1>3, DecideSound
  <2> QED BY <1>1, <1>3, <2>1, StepSound DEF HandleError, Sound, TypeOK
<1>4. CASE UNCHANGED stopping /\ Goto(w, "restart")
  <2> DEFINE e == [exec[w] EXCEPT !.pc = "restart"]
  <2>1. e \in ExecType /\ e.pc = "restart" /\ e.job = exec[w].job
    BY <1>0, Holder DEF ExecType, Labels
  <2>2. SoundExec(e, Stored(e.job))
    BY <1>0, <2>1, Holder DEF SoundExec, OnPage
  <2>3. ExecsSound
    BY <1>4, <2>2, BecomeSound DEF Goto
  <2> QED BY <1>1, <1>4, <2>3, StepSound DEF HandleError, Sound, TypeOK
<1> QED BY <1>2, <1>3, <1>4 DEF HandleError

\* The three updates that end or advance an execution.
LEMMA SavesSound ==
  ASSUME Sound, NEW w \in Executors,
         ScheduleRestart(w) \/ Finish(w) \/ Checkpoint(w)
  PROVE  Sound'
<1>1. CASE ScheduleRestart(w)
  BY <1>1, Holder, ClosuresSound, RestSound, SaveSound DEF ScheduleRestart
<1>2. CASE Finish(w)
  <2>1. SoundRecord(Finished(job[Mine(w)], exec[w].verdict), Stored(Mine(w)))
    BY <1>2, Holder, FinishedSound DEF Finish, SoundExec
  <2> QED BY <1>2, <2>1, Holder, RestSound, SaveSound DEF Finish
<1>3. CASE Checkpoint(w)
  <2> DEFINE new == Checkpointed(job[Mine(w)], Page(w), Size(Page(w)), Page(w) = LastPage)
             e == [exec[w] EXCEPT !.pc = "after"]
             next == IF Page(w) = LastPage THEN Idle ELSE e
  <2>1. SoundRecord(new, Stored(Mine(w)))
    BY <1>3, Holder, CheckpointedSound DEF Checkpoint, SoundExec, OnPage, ExecType, Page
  <2>2. e \in ExecType /\ e.pc = "after" /\ e.job = exec[w].job
    BY <1>3, Holder DEF Checkpoint, ExecType, Labels
  <2>3. SoundExec(e, Stored(e.job))
    BY <1>3, <2>2, Holder DEF Checkpoint, SoundExec, OnPage
  <2>4. SoundExec(next, Stored(next.job))
    BY <2>3, RestSound
  <2>5. Save(w, new, next)
    BY <1>3 DEF Checkpoint
  <2> HIDE DEF new, next
  <2> QED BY <1>3, <2>1, <2>4, <2>5, Holder, SaveSound DEF Checkpoint
<1> QED BY <1>1, <1>2, <1>3

\* Crash and restart: the memory becomes what the journal holds.
LEMMA ProcessSound ==
  ASSUME Sound, Crash \/ Restart \/ Stop \/ \E j \in Jobs : ChangeAccess(j)
  PROVE  Sound'
<1>1. CASE Crash \/ Restart
  <2>1. Reboot /\ faults' \in 0..MaxFaults
    BY <1>1, EngineAssumption DEF Crash, Restart, Sound, TypeOK
  <2>2. StoreSound
    BY <2>1 DEF Reboot, StoreSound, Sound, TypeOK, RecordsSound
  <2>3. ExecsSound
    BY <2>1, RestSound DEF Reboot, ExecsSound, SoundExec
  <2> QED BY <2>1, <2>2, <2>3, StepSound DEF Reboot, Sound, TypeOK
<1>2. CASE Stop \/ \E j \in Jobs : ChangeAccess(j)
  <2>1. UNCHANGED <<storeVars, exec, sink, resumes, recovering>>
        /\ faults' \in 0..MaxFaults /\ stopping' \in BOOLEAN /\ access' \subseteq Jobs
    <3>1. CASE Stop
      BY <3>1, EngineAssumption DEF Stop, Sound, TypeOK
    <3>2. CASE \E j \in Jobs : ChangeAccess(j)
      BY <3>2 DEF ChangeAccess, Sound, TypeOK
    <3> QED BY <1>2, <3>1, <3>2
  <2>2. StoreSound
    BY <2>1 DEF StoreSound, Sound, TypeOK, RecordsSound, storeVars
  <2>3. ExecsSound
    BY <2>1 DEF ExecsSound, Sound, TypeOK, Execs
  <2> QED BY <2>1, <2>2, <2>3, StepSound DEF Sound, TypeOK
<1> QED BY <1>1, <1>2

-----------------------------------------------------------------------------
\* The empty Store is sound.
LEMMA InitSound == Init => Sound
<1> SUFFICES ASSUME Init PROVE Sound
  OBVIOUS
<1>1. TypeOK
  <2>1. Absent \in JobType(LastPage) /\ Idle \in ExecType
    BY AbsentSound, RestSound DEF SoundRecord, SoundExec
  <2>2. 0 \in 0..MaxFaults /\ 0 \in 0..MaxResumes
    BY EngineAssumption
  <2>3. /\ job \in [Jobs -> JobType(LastPage)] /\ disk \in [Jobs -> JobType(LastPage)]
        /\ exec \in [Executors -> ExecType] /\ sink \in [Jobs -> SUBSET Pages]
    BY <2>1 DEF Init
  <2> QED BY <2>2, <2>3 DEF Init, TypeOK
<1>2. RecordsSound(job) /\ RecordsSound(disk)
  BY AbsentSound DEF Init, RecordsSound
<1>3. Execs
  BY RestSound DEF Init, Execs
<1> QED BY <1>1, <1>2, <1>3 DEF Sound

\* Every step keeps soundness: one lemma for each group of actions.
LEMMA NextSound == Sound /\ [Next]_vars => Sound'
<1> SUFFICES ASSUME Sound, [Next]_vars PROVE Sound'
  OBVIOUS
<1>1. ASSUME NEW w \in Executors, ExecutorStep(w) PROVE Sound'
  BY <1>1, ClaimSound, LocalStepsSound, AttemptSound, ReadReturnsSound,
     WriteReturnsSound, HandleErrorSound, SavesSound
     DEF ExecutorStep, BeginRead, BeginWrite
<1>2. ASSUME NEW j \in Jobs, Operator(j) \/ Recover(j) PROVE Sound'
  BY <1>2, OperatorSound, RecoverSound
<1>3. CASE Crash \/ Restart \/ Stop \/ \E j \in Jobs : ChangeAccess(j)
  BY <1>3, ProcessSound
<1>4. CASE UNCHANGED vars
  BY <1>4 DEF vars, Sound, TypeOK, RecordsSound, Execs, Stored
<1> QED BY <1>1, <1>2, <1>3, <1>4 DEF Next

\* Sound implies the invariants that the runs check.
LEMMA SoundImplies == Sound => TypeOK /\ NoPageSkipped
  BY DEF Sound, RecordsSound, SoundRecord, NoPageSkipped, NoSkip

\* The variables of the engine keep their types (Store, executors and bounds).
THEOREM TypeCorrect == Spec => []TypeOK
  BY InitSound, NextSound, SoundImplies, PTL DEF Spec

\* No cursor, in memory or in the journal, ever stands past a page that the
\* destination does not hold, and no job succeeds before it holds every page:
\* whatever the interleaving of executors and operators, whatever fails to be
\* appended, and wherever the process crashes (the checkpoint update of
\* Engine.execute).  It needs no patience of the operator.
THEOREM NothingSkipped == Spec => []NoPageSkipped
  BY InitSound, NextSound, SoundImplies, PTL DEF Spec

-----------------------------------------------------------------------------
(* Part two: who holds a job.                                              *)
(*                                                                         *)
(* Busy jobs of one destination exclude each other, in memory and on disk, *)
(* since Claim is the only way into Busy.  A busy job is in somebody's     *)
(* hands (NoOrphan).  When nobody resumes a job that its executor still    *)
(* holds, more is true: a job has one executor, which finds it as it left  *)
(* it but for a cancellation (Serial).                                     *)

Exclusive(jobs) ==
  \A j, k \in Jobs :
    j # k /\ jobs[j].state \in Busy /\ jobs[k].state \in Busy =>
      Resource[j] # Resource[k]

\* Memory and disk differ only by the entry whose append failed.
InSync == ~poison => disk = job

\* An executor at rest holds nothing.
Resting == \A w \in Executors : exec[w].pc \in {"idle", "dead"} <=> Mine(w) = 0

\* Recover runs before the executors, over jobs that were interrupted.
Recovers ==
  recovering # {} => /\ \A w \in Executors : Mine(w) = 0
                     /\ \A j \in recovering : job[j].state \in Busy

Tidy ==
  InSync /\ Resting /\ Recovers /\ NoOrphan /\ Exclusive(job) /\ Exclusive(disk)

\* An executor e fits its job, r in memory and d on disk: the job is busy,
\* unless the executor is about to see that its checkpoint ended it; the
\* cursor is where the executor read it; and a verdict is still called for.
Fit(e, r, d) ==
  /\ \/ r.state \in Busy /\ d.state \in Busy
     \/ e.pc = "after" /\ r.state = "canceled" /\ d.state = "canceled"
  /\ e.pc \in OnPage => r.cursor = e.from
  /\ e.pc = "finish" /\ e.verdict = "canceled" => r.state = "cancel_requested"
  /\ e.pc = "finish" /\ e.verdict = "succeeded" => r.cursor = LastPage

\* A record counts what its cursor stands behind, and ends at the last page.
Right(r) ==
  /\ r.records = Through[r.cursor]
  /\ r.exhausted \/ r.state = "succeeded" => r.cursor = LastPage

Unique == \A v, w \in Executors : Mine(v) = Mine(w) /\ Mine(v) # 0 => v = w

Serial ==
  /\ Unique
  /\ \A w \in Executors : Mine(w) # 0 => Fit(exec[w], job[Mine(w)], disk[Mine(w)])
  /\ \A j \in Jobs : Right(job[j]) /\ Right(disk[j])

\* A step from record r to record s that Lifecycle allows.
Edge(r, s) ==
  /\ s.state # "absent"
  /\ s.state # r.state => <<r.state, s.state>> \in Promise!Edges
  /\ s.cursor # r.cursor => r.state \in Busy /\ s.cursor > r.cursor

\* What every step has to keep.
Refines == [Promise!Next]_(Promise!lifecycleVars)
Kept == Tidy' /\ (PatientOperator /\ Serial => Serial' /\ Refines)

-----------------------------------------------------------------------------
(* Appends.                                                                *)

Update(j, new) ==
  \/ Append(j, new) \/ AppendFails(j, new)
  \/ UNCHANGED storeVars

\* No job is number 0, which stands for none.
LEMMA JobsArePositive == \A j \in Jobs : j # 0
  BY EngineAssumption DEF Jobs

\* The pages up to any page have a number of records.
LEMMA ThroughNat == \A p \in 0..LastPage : Through[p] \in Nat
  BY EngineAssumption

\* What an append leaves: the memory and the disk differ from what they were
\* at j only.
LEMMA UpdateOnly ==
  ASSUME Sound, NEW j \in Jobs, NEW new, Update(j, new)
  PROVE  /\ \A k \in Jobs : k # j => job'[k] = job[k] /\ disk'[k] = disk[k]
         /\ Append(j, new) => job'[j] = new /\ disk'[j] = new
         /\ AppendFails(j, new) => job'[j] = job[j] /\ disk'[j] \in {new, disk[j]}
         /\ UNCHANGED storeVars => job' = job /\ disk' = disk
         /\ job'[j] \in {job[j], new} /\ disk'[j] \in {disk[j], new}
  BY DEF Sound, TypeOK, Update, Append, AppendFails, storeVars

\* A record may become busy when it was before, or when no busy job has its
\* destination.
LEMMA UpdateExcludes ==
  ASSUME Sound, Tidy, NEW j \in Jobs, NEW new, Update(j, new),
         new.state \in Busy =>
           \/ job[j].state \in Busy
           \/ \A k \in Jobs : job[k].state \in Busy => Resource[k] # Resource[j]
  PROVE  InSync' /\ Exclusive(job)' /\ Exclusive(disk)'
<1>1. CASE UNCHANGED storeVars
  BY <1>1 DEF storeVars, Tidy, InSync, Exclusive
<1>2. CASE Append(j, new) \/ AppendFails(j, new)
  <2>1. disk = job
    BY <1>2 DEF Append, AppendFails, Tidy, InSync
  <2>2. InSync'
    BY <1>2, <2>1 DEF InSync, Append, AppendFails
  <2>3. ASSUME NEW k \in Jobs, k # j, new.state \in Busy, job[k].state \in Busy
        PROVE  Resource[k] # Resource[j]
    BY <2>3 DEF Tidy, Exclusive
  <2>4. \A k \in Jobs : k # j => job'[k] = job[k] /\ disk'[k] = job[k]
    BY <2>1, UpdateOnly
  <2>5. job'[j] \in {job[j], new} /\ disk'[j] \in {job[j], new}
    BY <2>1, UpdateOnly
  <2>6. Exclusive(job)' /\ Exclusive(disk)'
    <3>1. ASSUME NEW i \in Jobs, NEW k \in Jobs, i # k, NEW r, NEW s,
                 r.state \in Busy, s.state \in Busy,
                 i # j => r = job[i], i = j => r \in {job[i], new},
                 k # j => s = job[k], k = j => s \in {job[k], new}
          PROVE  Resource[i] # Resource[k]
      BY <2>3, <3>1 DEF Tidy, Exclusive
    <3> QED  BY <2>4, <2>5, <3>1 DEF Exclusive
  <2> QED  BY <2>2, <2>6
<1> QED  BY <1>1, <1>2 DEF Update

\* Seen from Lifecycle an append is a move along an edge, or nothing.
LEMMA MoveSteps ==
  ASSUME NEW j \in Jobs, NEW to, NEW upTo, Promise!Move(j, to, upTo),
         upTo \in 0..LastPage, to \in {e[2] : e \in Promise!Edges}
  PROVE  Promise!Next
<1> DEFINE Moved(s, n) == Promise!Move(j, s, n)
<1>1. Moved(to, upTo)
  OBVIOUS
<1> HIDE DEF Moved
<1>2. \E n \in 0..LastPage : \E s \in {e[2] : e \in Promise!Edges} : Moved(s, n)
  BY <1>1
<1>3. \E n \in 0..LastPage : \E s \in {e[2] : e \in Promise!Edges} : Promise!Move(j, s, n)
  BY <1>2 DEF Moved
<1> QED  BY <1>3 DEF Promise!Next

LEMMA UpdateRefines ==
  ASSUME Sound, Sound', Tidy, NEW j \in Jobs, NEW new, Update(j, new),
         Edge(job[j], new), Right(new), UNCHANGED sink
  PROVE  Refines
<1>1. CASE disk' = disk
  BY <1>1 DEF Refines, Promise!lifecycleVars, Stored
<1>2. CASE disk' # disk
  <2> DEFINE status == [k \in Jobs |-> disk[k].state]
             acked == [k \in Jobs |-> disk[k].cursor]
             held == [k \in Jobs |-> Stored(k)]
  <2>1. ~poison /\ disk = job /\ disk' = [disk EXCEPT ![j] = new]
    BY <1>2 DEF Update, Append, AppendFails, storeVars, Tidy, InSync
  <2>2. disk \in [Jobs -> JobType(LastPage)] /\ SoundRecord(new, Stored(j))
    <3>1. disk'[j] = new /\ Stored(j)' = Stored(j)
      BY <2>1 DEF Sound, TypeOK, Stored
    <3> QED  BY <3>1 DEF Sound, TypeOK, RecordsSound
  <2>3. status' = [status EXCEPT ![j] = new.state] /\ acked' = [acked EXCEPT ![j] = new.cursor]
    BY <2>1, <2>2
  <2>4. held' = held
    BY DEF Stored
  <2>5. /\ new.state # status[j] => <<status[j], new.state>> \in Promise!Edges
        /\ new.cursor # acked[j] => status[j] \in Promise!Executing /\ new.cursor > acked[j]
        /\ 1..new.cursor \subseteq held[j]
        /\ new.state = "succeeded" => new.cursor = LastPage
    BY <2>1, <2>2 DEF Edge, Right, SoundRecord, Promise!Executing, Busy
  <2>6. Promise!Move(j, new.state, new.cursor)
    BY <2>3, <2>4, <2>5 DEF Promise!Move
  <2>7. new.cursor \in 0..LastPage /\ new.state \in States \ {"absent"}
    BY <2>2 DEF SoundRecord, JobType, Edge
  <2>8. \A state \in States \ {"absent"} : \E e \in Promise!Edges : e[2] = state
    BY DEF States, Promise!Edges
  <2>9. new.state \in {e[2] : e \in Promise!Edges}
    BY <2>7, <2>8
  <2> QED  BY <2>6, <2>7, <2>9, MoveSteps DEF Refines
<1> QED  BY <1>1, <1>2

-----------------------------------------------------------------------------
(* A step of an executor on the job it holds.                              *)

\* Executor w goes on as e after it wrote new, failed to, or wrote nothing;
\* it lets go of a job that is not busy, or when the Store is poisoned.
Outcome(w, j, new, e) ==
  /\ Become(w, e) /\ UNCHANGED recovering
  /\ e.job \in {j, 0} /\ (e.pc \in {"idle", "dead"} <=> e.job = 0)
  /\ Update(j, new)
  /\ new.state \in Busy => job[j].state \in Busy
  /\ e.job = 0 => poison' \/ job'[j].state \notin Busy

\* What it leaves fits what it holds.
Orderly(j, new, e) ==
  /\ Edge(job[j], new) /\ Right(new)
  /\ e.job = j => Fit(e, job'[j], disk'[j])

LEMMA OutcomeExec ==
  ASSUME Sound, NEW w \in Executors, NEW e, Become(w, e)
  PROVE  exec'[w] = e /\ \A v \in Executors : v # w => exec'[v] = exec[v]
  BY DEF Become, Sound, TypeOK

LEMMA OutcomeTidy ==
  ASSUME Sound, Tidy, NEW w \in Executors, NEW j \in Jobs, j = Mine(w),
         NEW new, NEW e, Outcome(w, j, new, e)
  PROVE  Tidy'
<1>1. InSync' /\ Exclusive(job)' /\ Exclusive(disk)'
  BY UpdateExcludes DEF Outcome
<1>2. exec'[w] = e /\ \A v \in Executors : v # w => exec'[v] = exec[v]
  BY OutcomeExec DEF Outcome
<1>3. Resting'
  <2>1. ASSUME NEW v \in Executors
        PROVE  exec'[v].pc \in {"idle", "dead"} <=> exec'[v].job = 0
    <3>1. CASE v = w
      BY <1>2, <3>1 DEF Outcome
    <3>2. CASE v # w
      BY <1>2, <3>2 DEF Tidy, Resting, Mine
    <3> QED  BY <3>1, <3>2
  <2> QED  BY <2>1 DEF Resting, Mine
<1>4. recovering = {} /\ recovering' = {}
  <2>1. Mine(w) # 0
    BY JobsArePositive
  <2> QED  BY <2>1 DEF Outcome, Tidy, Recovers
<1>5. Recovers'
  BY <1>4 DEF Recovers
<1>6. NoOrphan'
  <2> SUFFICES ASSUME NEW k \in Jobs, job'[k].state \in Busy, ~poison'
               PROVE  \E v \in Executors : exec'[v].job = k
    BY DEF NoOrphan, Holds
  <2>1. ~poison
    BY DEF Outcome, Update, Append, AppendFails, storeVars
  <2>2. CASE k = j
    BY <1>2, <2>2 DEF Outcome
  <2>3. CASE k # j
    <3>1. job[k].state \in Busy
      BY <2>3, UpdateOnly DEF Outcome
    <3>2. PICK v \in Executors : exec[v].job = k
      BY <1>4, <2>1, <3>1 DEF Tidy, NoOrphan, Holds
    <3>3. v # w
      BY <2>3, <3>2 DEF Mine
    <3> QED  BY <1>2, <3>2, <3>3
  <2> QED  BY <2>2, <2>3
<1> QED  BY <1>1, <1>3, <1>5, <1>6 DEF Tidy

\* Steps that touch one job and its holder, or a job that nobody held.
LEMMA OneJobSerial ==
  ASSUME Serial, NEW w \in Executors, NEW j \in Jobs, NEW e,
         Mine(w) = j \/ (Mine(w) = 0 /\ \A v \in Executors : Mine(v) # j),
         exec'[w] = e, \A v \in Executors : v # w => exec'[v] = exec[v],
         e.job \in {j, 0}, e.job = j => Fit(e, job'[j], disk'[j]),
         \A k \in Jobs : k # j => job'[k] = job[k] /\ disk'[k] = disk[k],
         \A v \in Executors : Mine(v) # 0 => Mine(v) \in Jobs,
         Right(job'[j]), Right(disk'[j])
  PROVE  Serial'
<1>1. \A v \in Executors : v # w => exec[v].job # j
  BY JobsArePositive DEF Serial, Unique, Mine
<1>2. Unique'
  BY <1>1, JobsArePositive DEF Serial, Unique, Mine
<1>3. ASSUME NEW v \in Executors, exec'[v].job # 0
      PROVE  Fit(exec'[v], job'[exec'[v].job], disk'[exec'[v].job])
  <2>1. CASE v = w
    BY <1>3, <2>1
  <2>2. CASE v # w
    <3>1. exec'[v] = exec[v] /\ exec[v].job # j /\ exec[v].job \in Jobs
      BY <1>1, <1>3, <2>2 DEF Mine
    <3>2. Fit(exec[v], job[exec[v].job], disk[exec[v].job])
      BY <1>3, <3>1 DEF Serial, Mine
    <3> QED  BY <3>1, <3>2
  <2> QED  BY <2>1, <2>2
<1>4. \A k \in Jobs : Right(job'[k]) /\ Right(disk'[k])
  BY DEF Serial
<1>5. \A v \in Executors : Mine(v)' # 0 => Fit(exec'[v], job'[Mine(v)'], disk'[Mine(v)'])
  BY <1>3 DEF Mine
<1>6. (\A v \in Executors : Mine(v) # 0 => Fit(exec[v], job[Mine(v)], disk[Mine(v)]))'
  BY <1>5 DEF Fit
<1>7. (\A k \in Jobs : Right(job[k]) /\ Right(disk[k]))'
  BY <1>4 DEF Right
<1> QED  BY <1>2, <1>6, <1>7 DEF Serial

\* Who holds something holds a job.
LEMMA HoldsJob ==
  ASSUME Sound, Tidy, NEW w \in Executors, Mine(w) # 0
  PROVE  /\ Mine(w) \in Jobs /\ exec[w].pc \notin {"idle", "dead"}
         /\ recovering = {}
  BY DEF Sound, Execs, SoundExec, Tidy, Resting, Recovers, Mine

LEMMA OutcomeSerial ==
  ASSUME Sound, Tidy, Serial, NEW w \in Executors, NEW j \in Jobs, j = Mine(w),
         NEW new, NEW e, Outcome(w, j, new, e), Orderly(j, new, e)
  PROVE  Serial'
<1>1. exec'[w] = e /\ \A v \in Executors : v # w => exec'[v] = exec[v]
  BY OutcomeExec DEF Outcome
<1>2. /\ \A k \in Jobs : k # j => job'[k] = job[k] /\ disk'[k] = disk[k]
      /\ job'[j] \in {job[j], new} /\ disk'[j] \in {disk[j], new}
  BY UpdateOnly DEF Outcome
<1>3. Right(job'[j]) /\ Right(disk'[j])
  BY <1>2 DEF Orderly, Serial
<1> QED  BY <1>1, <1>2, <1>3, HoldsJob, OneJobSerial DEF Outcome, Orderly

\* So such a step keeps what it has to keep.
LEMMA OutcomeKept ==
  ASSUME Sound, Sound', Tidy, NEW w \in Executors, NEW j \in Jobs, j = Mine(w),
         NEW new, NEW e, Outcome(w, j, new, e),
         Serial => Orderly(j, new, e) /\ (UNCHANGED sink \/ Refines)
  PROVE  Kept
<1>1. Tidy'
  BY OutcomeTidy
<1>2. ASSUME Serial
      PROVE  Serial' /\ Refines
  BY <1>2, OutcomeSerial, UpdateRefines DEF Outcome, Orderly
<1> QED  BY <1>1, <1>2 DEF Kept

\* What the executor of j may rely on when the operator is patient.
LEMMA OwnJob ==
  ASSUME Sound, Tidy, Serial, NEW w \in Executors, NEW j \in Jobs, j = Mine(w)
  PROVE  /\ Fit(exec[w], job[j], disk[j]) /\ Right(job[j])
         /\ exec[w] \in ExecType /\ exec[w].job = j /\ j # 0
         /\ job[j] \in JobType(LastPage) /\ job[j].state # "absent"
  BY JobsArePositive DEF Serial, Fit, Busy, Sound, TypeOK, Mine

\* Where an executor rests, it holds nothing.
LEMMA RestingPlaces ==
  /\ Idle.pc = "idle" /\ Idle.job = 0
  /\ Dead.pc = "dead" /\ Dead.job = 0
  BY DEF Idle, Dead

\* Save: the record and the executor's next place.
LEMMA SaveKept ==
  ASSUME Sound, Sound', Tidy, NEW w \in Executors, NEW j \in Jobs, j = Mine(w),
         NEW new, NEW e, Save(w, new, e),
         e.job \in {j, 0}, e.pc \in {"idle", "dead"} <=> e.job = 0,
         new.state \in Busy => job[j].state \in Busy,
         e.job = 0 => new.state \notin Busy,
         Serial => /\ Edge(job[j], new) /\ Right(new)
                   /\ e.job = j => Fit(e, new, new)
  PROVE  Kept
<1>1. UNCHANGED <<recovering, sink>>
  BY DEF Save
<1>2. CASE Append(j, new) /\ Become(w, e)
  <2>1. job'[j] = new /\ disk'[j] = new
    BY <1>2, UpdateOnly DEF Update
  <2>2. Outcome(w, j, new, e)
    BY <1>1, <1>2, <2>1 DEF Outcome, Update
  <2>3. Serial => Orderly(j, new, e)
    BY <2>1 DEF Orderly
  <2> QED  BY <1>1, <2>2, <2>3, OutcomeKept
<1>3. CASE (AppendFails(j, new) \/ AppendRefused) /\ Become(w, Dead)
  <2>1. Update(j, new) /\ poison'
    BY <1>3 DEF Update, AppendFails, AppendRefused, storeVars
  <2>2. Outcome(w, j, new, Dead)
    BY <1>1, <1>3, <2>1, RestingPlaces DEF Outcome
  <2>3. Serial => Orderly(j, new, Dead)
    BY RestingPlaces, JobsArePositive DEF Orderly
  <2> QED  BY <1>1, <2>2, <2>3, OutcomeKept
<1> QED  BY <1>2, <1>3 DEF Save, Dies

\* A step that writes nothing.
LEMMA MoveKept ==
  ASSUME Sound, Sound', Tidy, NEW w \in Executors, NEW j \in Jobs, j = Mine(w),
         NEW e, Become(w, e), UNCHANGED <<storeVars, recovering>>,
         e.job \in {j, 0}, e.pc \in {"idle", "dead"} <=> e.job = 0,
         e.job = 0 => poison \/ job[j].state \notin Busy,
         Serial => /\ e.job = j => Fit(e, job[j], disk[j])
                   /\ UNCHANGED sink \/ Refines
  PROVE  Kept
<1>1. job' = job /\ disk' = disk /\ poison' = poison
  BY DEF storeVars
<1>2. Outcome(w, j, job[j], e)
  BY <1>1 DEF Outcome, Update
<1>3. Serial => Orderly(j, job[j], e) /\ (UNCHANGED sink \/ Refines)
  BY <1>1, OwnJob DEF Orderly, Edge
<1> QED  BY <1>2, <1>3, OutcomeKept

\* A step that notes something, which changes no record.
LEMMA NoteKept ==
  ASSUME Sound, Sound', Tidy, NEW w \in Executors, NEW j \in Jobs, j = Mine(w),
         exec[w].pc \notin {"idle", "dead"},
         NEW e, Note(w, e), e.job = j, e.pc \notin {"idle", "dead"},
         Serial => /\ exec[w].pc # "after" /\ Fit(e, job[j], disk[j])
                   /\ UNCHANGED sink \/ Refines
  PROVE  Kept
<1> DEFINE d == [exec[w] EXCEPT !.pc = "error", !.verdict = "permanent"]
<1>1. /\ recovering' = recovering /\ Update(j, job[j])
      /\ Become(w, e) \/ Become(w, d)
  BY DEF Note, Decide, Update, AppendRefused, storeVars
<1>2. d.job = j /\ d.pc = "error"
  BY Holder DEF ExecType
<1>3. /\ job'[j] = job[j] /\ disk'[j] = disk[j]
  <2>1. ~poison => disk = job
    BY DEF Tidy, InSync
  <2>2. CASE UNCHANGED storeVars
    BY <2>2 DEF storeVars
  <2>3. CASE Append(j, job[j])
    <3>1. disk[j] = job[j]
      BY <2>1, <2>3 DEF Append
    <3> QED  BY <1>1, <2>3, <3>1, UpdateOnly
  <2>4. CASE AppendFails(j, job[j])
    <3>1. disk[j] = job[j]
      BY <2>1, <2>4 DEF AppendFails
    <3> QED  BY <1>1, <2>4, <3>1, UpdateOnly
  <2> QED  BY <1>1, <2>2, <2>3, <2>4 DEF Update
<1>4. Serial => Fit(d, job[j], disk[j])
  BY <1>2, OwnJob DEF Fit, OnPage
<1>5. ASSUME NEW p \in {e, d}, Become(w, p)
      PROVE  Kept
  <2>1. /\ p.job = j /\ p.pc \notin {"idle", "dead"} /\ j # 0
        /\ Serial => Fit(p, job[j], disk[j])
    BY <1>2, <1>4, JobsArePositive
  <2> HIDE DEF d
  <2>2. Outcome(w, j, job[j], p)
    BY <1>1, <1>5, <2>1 DEF Outcome
  <2>3. Serial => Orderly(j, job[j], p) /\ (UNCHANGED sink \/ Refines)
    BY <1>3, <2>1, OwnJob DEF Orderly, Edge
  <2> QED  BY <2>2, <2>3, OutcomeKept
<1> QED  BY <1>1, <1>5

-----------------------------------------------------------------------------
(* The executors' actions.                                                 *)

\* Decide carries a verdict that is called for.
LEMMA DecideKept ==
  ASSUME Sound, Sound', Tidy, NEW w \in Executors, NEW j \in Jobs, j = Mine(w),
         exec[w].pc \notin {"idle", "dead"},
         NEW label \in {"error", "finish"}, NEW verdict,
         Decide(w, label, verdict), UNCHANGED <<storeVars, recovering>>,
         Serial => /\ exec[w].pc # "after"
                   /\ UNCHANGED sink \/ Refines
                   /\ label = "finish" /\ verdict = "canceled" =>
                        job[j].state = "cancel_requested"
                   /\ label = "finish" /\ verdict = "succeeded" =>
                        job[j].cursor = LastPage
  PROVE  Kept
<1> DEFINE e == [exec[w] EXCEPT !.pc = label, !.verdict = verdict]
<1>1. e.job = j /\ e.pc = label /\ e.verdict = verdict /\ j # 0
  BY Holder, JobsArePositive DEF ExecType
<1>2. Become(w, e)
  BY DEF Decide
<1> HIDE DEF e
<1>3. Serial => Fit(e, job[j], disk[j])
  BY <1>1, OwnJob DEF Fit, OnPage
<1> QED  BY <1>1, <1>2, <1>3, MoveKept

\* Goto, from a place where the job is busy to one without a page.
LEMMA GotoKept ==
  ASSUME Sound, Sound', Tidy, NEW w \in Executors, NEW j \in Jobs, j = Mine(w),
         exec[w].pc \notin {"idle", "dead"},
         NEW label, Goto(w, label), UNCHANGED <<storeVars, recovering>>,
         label \notin {"idle", "dead", "after", "finish"},
         Serial => /\ job[j].state \in Busy /\ disk[j].state \in Busy
                   /\ UNCHANGED sink \/ Refines
                   /\ label \in OnPage => exec[w].pc \in OnPage
  PROVE  Kept
<1> DEFINE e == [exec[w] EXCEPT !.pc = label]
<1>1. e.job = j /\ e.pc = label /\ e.from = exec[w].from /\ j # 0
  BY Holder, JobsArePositive DEF ExecType
<1>2. Become(w, e)
  BY DEF Goto
<1> HIDE DEF e
<1>3. Serial => Fit(e, job[j], disk[j])
  BY <1>1, OwnJob DEF Fit
<1> QED  BY <1>1, <1>2, <1>3, MoveKept

LEMMA LocalStepsKept ==
  ASSUME Sound, Sound', Tidy, NEW w \in Executors, NEW j \in Jobs, j = Mine(w),
         Authorize(w) \/ Inspect(w) \/ AfterCheckpoint(w)
  PROVE  Kept
<1>0. UNCHANGED <<storeVars, recovering, sink>>
  BY DEF Authorize, Inspect, AfterCheckpoint, Local
<1>1. CASE Authorize(w)
  <2>1. Serial => job[j].state \in Busy /\ disk[j].state \in Busy
    BY <1>1, OwnJob DEF Authorize, Fit
  <2>2. CASE Goto(w, "inspect")
    BY <1>0, <1>1, <2>1, <2>2, GotoKept DEF Authorize, OnPage
  <2>3. CASE Decide(w, "finish", "failed")
    BY <1>0, <1>1, <2>3, DecideKept DEF Authorize
  <2> QED  BY <1>1, <2>2, <2>3 DEF Authorize
<1>2. CASE Inspect(w)
  <2>0. exec[w].pc = "inspect"
    BY <1>2 DEF Inspect
  <2>1. CASE EarlyEnd(j) = "none"
    <3> DEFINE e == [exec[w] EXCEPT !.pc = "read", !.attempt = 1,
                                    !.from = job[j].cursor]
    <3>1. e.job = j /\ e.pc = "read" /\ e.from = job[j].cursor /\ j # 0
      BY <2>0, Holder, JobsArePositive DEF ExecType
    <3>2. Become(w, e)
      BY <1>2, <2>1 DEF Inspect
    <3> HIDE DEF e
    <3>3. Serial => Fit(e, job[j], disk[j])
      BY <2>0, <3>1, OwnJob DEF Fit
    <3> QED  BY <1>0, <3>1, <3>2, <3>3, MoveKept
  <2>2. CASE EarlyEnd(j) # "none"
    <3>1. Decide(w, "finish", EarlyEnd(j))
      BY <1>2, <2>2 DEF Inspect
    <3>2. /\ EarlyEnd(j) = "canceled" => job[j].state = "cancel_requested"
          /\ EarlyEnd(j) = "succeeded" => job[j].exhausted
      BY DEF EarlyEnd
    <3>3. Serial /\ EarlyEnd(j) = "succeeded" => job[j].cursor = LastPage
      BY <3>2, OwnJob DEF Right
    <3> QED  BY <1>0, <2>0, <3>1, <3>2, <3>3, DecideKept
  <2> QED  BY <2>1, <2>2
<1>3. CASE AfterCheckpoint(w)
  <2>0. exec[w].pc = "after"
    BY <1>3 DEF AfterCheckpoint
  <2>1. CASE job[j].state = "canceled"
    <3>1. Become(w, Idle)
      BY <1>3, <2>1 DEF AfterCheckpoint
    <3>2. job[j].state \notin Busy
      BY <2>1 DEF Busy
    <3> QED  BY <1>0, <3>1, <3>2, RestingPlaces, JobsArePositive, MoveKept
  <2>2. CASE job[j].state # "canceled"
    <3>1. Goto(w, "inspect")
      BY <1>3, <2>2 DEF AfterCheckpoint
    <3>2. Serial => job[j].state \in Busy /\ disk[j].state \in Busy
      BY <2>2, OwnJob DEF Fit
    <3> QED  BY <1>0, <2>0, <3>1, <3>2, GotoKept DEF OnPage
  <2> QED  BY <2>1, <2>2
<1> QED  BY <1>1, <1>2, <1>3

\* retry: the look at the job, the note before the call.
LEMMA AttemptKept ==
  ASSUME Sound, Sound', Tidy, NEW w \in Executors, NEW j \in Jobs, j = Mine(w),
         NEW operation, NEW call,
         \/ operation = "read" /\ call = "reading"
         \/ operation = "write" /\ call = "writing",
         Attempt(w, operation, call)
  PROVE  Kept
<1>0. exec[w].pc \in OnPage /\ call \in OnPage /\ exec[w].pc # "after" /\ UNCHANGED sink
      /\ exec[w].pc \notin {"idle", "dead"} /\ call \notin {"idle", "dead", "after", "finish"}
  BY DEF Attempt, OnPage
<1>1. CASE /\ Decide(w, "error", "permanent")
           /\ UNCHANGED <<storeVars, recovering>>
  BY <1>0, <1>1, DecideKept
<1>2. CASE Note(w, [exec[w] EXCEPT !.pc = call])
  <2> DEFINE e == [exec[w] EXCEPT !.pc = call]
  <2>1. e.job = j /\ e.pc = call /\ e.from = exec[w].from
    BY <1>0, Holder DEF ExecType
  <2> HIDE DEF e
  <2>2. Serial => Fit(e, job[j], disk[j])
    BY <1>0, <2>1, OwnJob DEF Fit
  <2>3. Note(w, e)
    BY <1>2 DEF e
  <2> QED  BY <1>0, <2>1, <2>2, <2>3, NoteKept
<1> QED  BY <1>1, <1>2 DEF Attempt

\* An operation that did not succeed; the destination may hold the page.
LEMMA CallFailsKept ==
  ASSUME Sound, Sound', Tidy, NEW w \in Executors, NEW j \in Jobs, j = Mine(w),
         NEW operation \in {"read", "write"}, exec[w].pc \in {"reading", "writing"},
         CallFails(w, operation), Serial => UNCHANGED sink \/ Refines
  PROVE  Kept
<1>0. exec[w].pc \in OnPage /\ operation \in OnPage
      /\ exec[w].pc \notin {"idle", "dead", "after"}
      /\ operation \notin {"idle", "dead", "after", "finish"}
  BY DEF OnPage
<1>1. CASE /\ \E verdict \in {"permanent", "transient"} : Decide(w, "error", verdict)
           /\ UNCHANGED <<storeVars, recovering>>
  BY <1>0, <1>1, DecideKept
<1>2. CASE Note(w, [exec[w] EXCEPT !.pc = operation, !.attempt = @ + 1])
  <2> DEFINE e == [exec[w] EXCEPT !.pc = operation, !.attempt = @ + 1]
  <2>1. e.job = j /\ e.pc = operation /\ e.from = exec[w].from
    BY <1>0, Holder DEF ExecType
  <2> HIDE DEF e
  <2>2. Serial => Fit(e, job[j], disk[j])
    BY <1>0, <2>1, OwnJob DEF Fit
  <2>3. Note(w, e)
    BY <1>2 DEF e
  <2> QED  BY <1>0, <2>1, <2>2, <2>3, NoteKept
<1> QED  BY <1>1, <1>2 DEF CallFails

LEMMA ReadReturnsKept ==
  ASSUME Sound, Sound', Tidy, NEW w \in Executors, NEW j \in Jobs, j = Mine(w),
         ReadReturns(w)
  PROVE  Kept
<1>0. exec[w].pc = "reading" /\ exec[w].pc \in OnPage /\ UNCHANGED sink
  BY DEF ReadReturns, OnPage
<1>1. CASE CallFails(w, "read")
  BY <1>0, <1>1, CallFailsKept
<1>2. CASE ~CallFails(w, "read")
  <2> DEFINE label == IF Size(Page(w)) = 0 THEN "checkpoint" ELSE "write"
             e == [exec[w] EXCEPT !.pc = label, !.attempt = 1]
  <2>1. Become(w, e) /\ UNCHANGED <<storeVars, recovering>>
    BY <1>2 DEF ReadReturns
  <2>2. label \in {"checkpoint", "write"}
    OBVIOUS
  <2>3. e.job = j /\ e.pc = label /\ e.from = exec[w].from
    BY <1>0, Holder DEF ExecType
  <2> HIDE DEF e, label
  <2>4. e.pc \in OnPage /\ e.pc \notin {"idle", "dead", "finish"} /\ j # 0
    BY <2>2, <2>3, JobsArePositive DEF OnPage
  <2>5. Serial => Fit(e, job[j], disk[j])
    BY <1>0, <2>3, <2>4, OwnJob DEF Fit
  <2> QED  BY <1>0, <2>1, <2>3, <2>4, <2>5, MoveKept
<1> QED  BY <1>1, <1>2

\* Seen from Lifecycle, a page arrives while its job is being executed.
LEMMA DeliverySteps ==
  ASSUME NEW j \in Jobs, Promise!Deliver(j)
  PROVE  Promise!Next
  BY DEF Promise!Next

LEMMA WriteRefines ==
  ASSUME Sound, Tidy, NEW j \in Jobs, disk[j].state \in Busy, disk' = disk,
         NEW page \in Pages, sink' = [sink EXCEPT ![j] = @ \cup {page}]
  PROVE  Refines
<1> DEFINE held == [k \in Jobs |-> Stored(k)]
<1>1. sink \in [Jobs -> SUBSET Pages]
  BY DEF Sound, TypeOK
<1>2. \A k \in Jobs : sink'[k] = IF k = j THEN sink[j] \cup {page} ELSE sink[k]
  BY <1>1
<1>3. [k \in Jobs |-> Stored(k)]' = [held EXCEPT ![j] = held[j] \cup {page}]
  <2>1. \A k \in Jobs : Stored(k)' = IF k = j THEN Stored(j) \cup {page} ELSE Stored(k)
    BY <1>2 DEF Stored
  <2> QED  BY <2>1
<1>4. {page} \in SUBSET (1..LastPage)
  BY DEF Pages
<1> HIDE DEF held
<1>5. \E P \in SUBSET (1..LastPage) :
        [k \in Jobs |-> Stored(k)]' = [held EXCEPT ![j] = held[j] \cup P]
  BY <1>3, <1>4
<1>6. Promise!Deliver(j)
  BY <1>5 DEF Promise!Deliver, Promise!Executing, Busy, held
<1> QED  BY <1>6, DeliverySteps DEF Refines

LEMMA WriteReturnsKept ==
  ASSUME Sound, Sound', Tidy, NEW w \in Executors, NEW j \in Jobs, j = Mine(w),
         WriteReturns(w)
  PROVE  Kept
<1>0. exec[w].pc = "writing" /\ exec[w].pc \in OnPage
  BY DEF WriteReturns, OnPage
<1>1. Page(w) \in Pages
  BY <1>0, Holder, LastPageNat DEF Page, Pages, ExecType
<1>2. disk' = disk
  <2>1. CASE CallFails(w, "write")
    BY <2>1 DEF CallFails, Note, Append, AppendFails, AppendRefused, storeVars, Tidy, InSync, Sound, TypeOK
  <2>2. CASE UNCHANGED storeVars
    BY <2>2 DEF storeVars
  <2> QED  BY <2>1, <2>2 DEF WriteReturns
<1>3. Serial => /\ job[j].state \in Busy /\ disk[j].state \in Busy
                /\ UNCHANGED sink \/ Refines
  BY <1>0, <1>1, <1>2, OwnJob, WriteRefines DEF WriteReturns, Fit
<1>4. CASE CallFails(w, "write")
  BY <1>0, <1>3, <1>4, CallFailsKept
<1>5. CASE Goto(w, "checkpoint") /\ UNCHANGED <<storeVars, recovering>>
  BY <1>0, <1>3, <1>5, GotoKept
<1> QED  BY <1>4, <1>5 DEF WriteReturns

\* An error becomes a verdict, a restart, or the end of a poisoned executor.
LEMMA HandleErrorKept ==
  ASSUME Sound, Sound', Tidy, NEW w \in Executors, NEW j \in Jobs, j = Mine(w),
         HandleError(w)
  PROVE  Kept
<1>0. exec[w].pc = "error" /\ UNCHANGED <<storeVars, recovering, sink>>
  BY DEF HandleError
<1>1. CASE poison
  <2>1. Become(w, Dead)
    BY <1>1 DEF HandleError, Dies
  <2> QED  BY <1>0, <1>1, <2>1, RestingPlaces, JobsArePositive, MoveKept
<1>2. CASE ~poison
  <2>1. CASE Goto(w, "restart")
    <3>1. Serial => job[j].state \in Busy /\ disk[j].state \in Busy
      BY <1>0, OwnJob DEF Fit
    <3> QED  BY <1>0, <2>1, <3>1, GotoKept DEF OnPage
  <2>2. ASSUME NEW verdict \in {"queued", "canceled", "failed"},
               Decide(w, "finish", verdict),
               verdict = "canceled" => job[j].state = "cancel_requested"
        PROVE  Kept
    BY <1>0, <2>2, DecideKept
  <2>3. CASE stopping
    BY <1>2, <2>2, <2>3 DEF HandleError
  <2>4. CASE ~stopping /\ job[j].state = "cancel_requested"
    BY <1>2, <2>2, <2>4 DEF HandleError
  <2>5. CASE ~stopping /\ job[j].state # "cancel_requested"
    BY <1>2, <2>1, <2>2, <2>5 DEF HandleError
  <2> QED  BY <2>3, <2>4, <2>5
<1> QED  BY <1>1, <1>2

LEMMA ScheduleRestartKept ==
  ASSUME Sound, Sound', Tidy, NEW w \in Executors, NEW j \in Jobs, j = Mine(w),
         ScheduleRestart(w)
  PROVE  Kept
<1> DEFINE r == job[j]
           new == RestartScheduled(r)
<1>0. exec[w].pc = "restart" /\ Save(w, new, Idle) /\ r \in JobType(LastPage)
  BY DEF ScheduleRestart, Sound, TypeOK
<1>1. /\ new.cursor = r.cursor /\ new.records = r.records /\ new.exhausted = r.exhausted
      /\ new.state = CancelWins(r, "retry_wait")
  <2>1. CASE r.state = "cancel_requested"
    BY <1>0, <2>1 DEF RestartScheduled, CancelWins, JobType
  <2>2. CASE r.state # "cancel_requested"
    BY <1>0, <2>2 DEF RestartScheduled, CancelWins, JobType
  <2> QED  BY <2>1, <2>2
<1> HIDE DEF new
<1>2. new.state \notin Busy
  BY <1>1 DEF CancelWins, Busy
<1>3. ASSUME Serial
      PROVE  Edge(r, new) /\ Right(new)
  <2>1. r.state \in Busy /\ Right(r)
    BY <1>0, <1>3, OwnJob DEF Fit
  <2>2. Edge(r, new)
    BY <1>1, <2>1 DEF Edge, CancelWins, Busy, Promise!Edges
  <2>3. Right(new)
    BY <1>1, <2>1 DEF Right, CancelWins
  <2> QED  BY <2>2, <2>3
<1> QED  BY <1>0, <1>2, <1>3, RestingPlaces, JobsArePositive, SaveKept

LEMMA FinishKept ==
  ASSUME Sound, Sound', Tidy, NEW w \in Executors, NEW j \in Jobs, j = Mine(w),
         Finish(w)
  PROVE  Kept
<1> DEFINE r == job[j]
           verdict == exec[w].verdict
           new == Finished(r, verdict)
<1>0. exec[w].pc = "finish" /\ Save(w, new, Idle) /\ r \in JobType(LastPage)
  BY DEF Finish, Sound, TypeOK
<1>1. verdict \in {"canceled", "queued", "succeeded", "failed"}
  BY <1>0, Holder DEF SoundExec
<1>2. /\ new.cursor = r.cursor /\ new.records = r.records /\ new.exhausted = r.exhausted
      /\ new.state = CancelWins(r, verdict)
  BY <1>0 DEF Finished, JobType
<1> HIDE DEF new
<1>3. new.state \notin Busy
  BY <1>1, <1>2 DEF CancelWins, Busy
<1>4. ASSUME Serial
      PROVE  Edge(r, new) /\ Right(new)
  <2>1. /\ r.state \in Busy /\ Right(r)
        /\ verdict = "canceled" => r.state = "cancel_requested"
        /\ verdict = "succeeded" => r.cursor = LastPage
    BY <1>0, <1>4, OwnJob DEF Fit
  <2>2. Edge(r, new)
    BY <1>1, <1>2, <2>1 DEF Edge, CancelWins, Busy, Promise!Edges
  <2>3. Right(new)
    BY <1>1, <1>2, <2>1 DEF Right, CancelWins
  <2> QED  BY <2>2, <2>3
<1> QED  BY <1>0, <1>3, <1>4, RestingPlaces, JobsArePositive, SaveKept

\* The cursor moves by the page that was counted.
LEMMA CheckpointKept ==
  ASSUME Sound, Sound', Tidy, NEW w \in Executors, NEW j \in Jobs, j = Mine(w),
         Checkpoint(w)
  PROVE  Kept
<1> DEFINE r == job[j]
           page == exec[w].from + 1
           new == Checkpointed(r, page, Size(page), page = LastPage)
           after == [exec[w] EXCEPT !.pc = "after"]
           e == IF page = LastPage THEN Idle ELSE after
<1>0. /\ exec[w].pc = "checkpoint" /\ exec[w].pc \in OnPage
      /\ Save(w, new, e) /\ r \in JobType(LastPage)
      /\ exec[w] \in ExecType /\ exec[w].job = j /\ j # 0
  BY Holder, JobsArePositive DEF Checkpoint, Page, OnPage, Sound, TypeOK
<1>1. page \in Pages /\ page - 1 = exec[w].from /\ exec[w].from \in 0..LastPage
  BY <1>0, LastPageNat DEF ExecType, Pages
<1>2. /\ new.cursor = page /\ new.records = r.records + Size(page)
      /\ new.exhausted = (page = LastPage)
      /\ new.state = CancelWins(r, IF page = LastPage THEN "succeeded" ELSE r.state)
  BY <1>0 DEF Checkpointed, JobType
<1>3. after.job = j /\ after.pc = "after"
  BY <1>0 DEF ExecType
<1> HIDE DEF new, after
<1>4. /\ e.job \in {j, 0} /\ (e.pc \in {"idle", "dead"} <=> e.job = 0)
      /\ e.job = 0 => page = LastPage
      /\ e.job = j => e.pc = "after" /\ page # LastPage
  BY <1>0, <1>3, RestingPlaces
<1> HIDE DEF e
<1>5. new.state \in Busy => r.state \in Busy /\ page # LastPage
  BY <1>2 DEF CancelWins, Busy
<1>6. ASSUME Serial
      PROVE  Edge(r, new) /\ Right(new) /\ (e.job = j => Fit(e, new, new))
  <2>1. r.state \in Busy /\ Right(r) /\ r.cursor = exec[w].from
    BY <1>0, <1>6, OwnJob DEF Fit
  <2>2. Edge(r, new)
    <3>1. page > r.cursor
      BY <1>1, <2>1
    <3>2. new.state # "absent" /\ (new.state # r.state => <<r.state, new.state>> \in Promise!Edges)
      BY <1>2, <2>1 DEF CancelWins, Busy, Promise!Edges
    <3> QED  BY <1>2, <2>1, <3>1, <3>2 DEF Edge
  <2>3. Right(new)
    <3>1. new.records = Through[page]
      <4>1. Through[page] \in Nat /\ Through[exec[w].from] \in Nat
        BY <1>1, ThroughNat DEF Pages
      <4>2. r.records = Through[page - 1]
        BY <1>1, <2>1 DEF Right
      <4> QED  BY <1>1, <1>2, <4>1, <4>2 DEF Size
    <3>2. new.exhausted \/ new.state = "succeeded" => page = LastPage
      BY <1>2, <2>1 DEF CancelWins, Busy
    <3> QED  BY <1>2, <3>1, <3>2 DEF Right
  <2>4. e.job = j => Fit(e, new, new)
    BY <1>2, <1>4, <2>1 DEF Fit, CancelWins, Busy, OnPage
  <2> QED  BY <2>2, <2>3, <2>4
<1> QED  BY <1>0, <1>4, <1>5, <1>6, SaveKept

-----------------------------------------------------------------------------
(* Steps by somebody who holds no job.                                     *)

\* Nothing that the invariants are about changes.
LEMMA QuietKept ==
  ASSUME Tidy, UNCHANGED <<storeVars, recovering, exec, sink>>
  PROVE  Kept
<1>1. Tidy'
  BY DEF storeVars, Tidy, InSync, Resting, Recovers, NoOrphan, Exclusive, Mine, Holds
<1>2. Serial => Serial'
  BY DEF storeVars, Serial, Unique, Fit, Right, Mine
<1>3. Refines
  BY DEF storeVars, Refines, Promise!lifecycleVars, Stored
<1> QED  BY <1>1, <1>2, <1>3 DEF Kept

\* An executor that holds nothing leaves.
LEMMA LeaveKept ==
  ASSUME Sound, Tidy, NEW w \in Executors, Mine(w) = 0, Become(w, Dead),
         UNCHANGED <<storeVars, recovering, sink>>
  PROVE  Kept
<1>1. exec'[w] = Dead /\ \A v \in Executors : v # w => exec'[v] = exec[v]
  BY OutcomeExec
<1>2. Dead.job = 0 /\ Dead.pc \in {"idle", "dead"} /\ exec[w].job = 0
  BY RestingPlaces DEF Mine
<1>3. \A v \in Executors : exec'[v].job = exec[v].job
  BY <1>1, <1>2
<1>4. Tidy'
  <2>1. InSync' /\ Exclusive(job)' /\ Exclusive(disk)'
    BY DEF storeVars, Tidy, InSync, Exclusive
  <2>2. Resting'
    BY <1>1, <1>2 DEF Tidy, Resting, Mine
  <2>3. Recovers' /\ NoOrphan'
    BY <1>3 DEF storeVars, Tidy, Recovers, NoOrphan, Mine, Holds
  <2> QED  BY <2>1, <2>2, <2>3 DEF Tidy
<1>5. Serial => Serial'
  <2> SUFFICES ASSUME Serial
               PROVE  Serial'
    OBVIOUS
  <2>1. Unique'
    BY <1>3 DEF Serial, Unique, Mine
  <2>2. ASSUME NEW v \in Executors, exec'[v].job # 0
        PROVE  Fit(exec'[v], job'[exec'[v].job], disk'[exec'[v].job])
    <3>1. exec'[v] = exec[v]
      BY <1>1, <1>2, <2>2
    <3>2. Fit(exec[v], job[exec[v].job], disk[exec[v].job])
      BY <2>2, <3>1 DEF Serial, Mine
    <3> QED  BY <3>1, <3>2 DEF storeVars
  <2>3. (\A v \in Executors : Mine(v) # 0 => Fit(exec[v], job[Mine(v)], disk[Mine(v)]))'
    BY <2>2 DEF Mine, Fit
  <2>4. (\A k \in Jobs : Right(job[k]) /\ Right(disk[k]))'
    BY DEF storeVars, Serial, Right
  <2> QED  BY <2>1, <2>3, <2>4 DEF Serial
<1>6. Refines
  BY DEF storeVars, Refines, Promise!lifecycleVars, Stored
<1> QED  BY <1>4, <1>5, <1>6 DEF Kept

\* Claim: the job was waiting, so that nobody held it, and no busy job has its
\* destination.
LEMMA ClaimKept ==
  ASSUME Sound, Sound', Tidy, NEW w \in Executors, Claim(w)
  PROVE  Kept
<1>0. Mine(w) = 0 /\ recovering = {} /\ UNCHANGED <<recovering, sink>>
  BY DEF Claim, Tidy, Resting
<1>1. CASE AppendRefused /\ Dies(w)
  BY <1>0, <1>1, LeaveKept DEF AppendRefused, Dies, storeVars
<1>2. ASSUME NEW j \in Jobs, job[j].state \in {"queued", "retry_wait"},
             \A k \in Jobs : job[k].state \in Busy => Resource[k] # Resource[j],
             \/ /\ Append(j, Started(job[j]))
                /\ Become(w, [Idle EXCEPT !.pc = "authorize", !.job = j])
             \/ AppendFails(j, Started(job[j])) /\ Dies(w)
      PROVE  Kept
  <2> DEFINE r == job[j]
             new == Started(r)
             e == [Idle EXCEPT !.pc = "authorize", !.job = j]
  <2>1. r \in JobType(LastPage)
    BY DEF Sound, TypeOK
  <2>2. /\ new.state = "running" /\ new.cursor = r.cursor /\ new.records = r.records
        /\ new.exhausted = r.exhausted
    BY <2>1 DEF Started, JobType
  <2>3. e.job = j /\ e.pc = "authorize" /\ j # 0
    BY JobsArePositive DEF Idle
  <2>4. /\ Update(j, new)
        /\ \/ Append(j, new) /\ Become(w, e)
           \/ AppendFails(j, new) /\ Become(w, Dead)
    BY <1>2 DEF Update, Dies
  <2> HIDE DEF new, e
  <2>5. InSync' /\ Exclusive(job)' /\ Exclusive(disk)'
    BY <1>2, <2>4, UpdateExcludes
  <2>6. PICK p : /\ Become(w, p)
                 /\ \/ p = e /\ Append(j, new)
                    \/ p = Dead /\ AppendFails(j, new)
    BY <2>4
  <2>7. /\ p.job \in {j, 0} /\ (p.pc \in {"idle", "dead"} <=> p.job = 0)
        /\ p.job = j => p.pc = "authorize" /\ Append(j, new)
        /\ p.job = 0 => AppendFails(j, new)
    BY <2>3, <2>6, RestingPlaces
  <2>8. exec'[w] = p /\ \A v \in Executors : v # w => exec'[v] = exec[v]
    BY <2>6, OutcomeExec
  <2>9. Resting' /\ Recovers'
    BY <1>0, <2>7, <2>8 DEF Tidy, Resting, Recovers, Mine
  <2>10. NoOrphan'
    <3> SUFFICES ASSUME NEW k \in Jobs, job'[k].state \in Busy, ~poison'
                 PROVE  \E v \in Executors : exec'[v].job = k
      BY DEF NoOrphan, Holds
    <3>1. Append(j, new) /\ ~poison
      BY <2>6 DEF Append, AppendFails
    <3>2. CASE k = j
      <4>1. p.job = j
        BY <2>7, <3>1 DEF Append, AppendFails
      <4> QED  BY <2>8, <3>2, <4>1
    <3>3. CASE k # j
      <4>1. job[k].state \in Busy
        BY <2>4, <3>3, UpdateOnly
      <4>2. PICK v \in Executors : exec[v].job = k
        BY <1>0, <3>1, <4>1 DEF Tidy, NoOrphan, Holds
      <4>3. v # w
        BY <1>0, <4>2, JobsArePositive DEF Mine
      <4> QED  BY <2>8, <4>2, <4>3
    <3> QED  BY <3>2, <3>3
  <2>11. ASSUME Serial
         PROVE  Serial' /\ Refines
    <3>1. \A v \in Executors : Mine(v) # j
      BY <1>2, <2>3, <2>11 DEF Serial, Fit, Busy
    <3>2. Right(r) /\ Right(disk[j])
      BY <2>11 DEF Serial
    <3>3. Right(new)
      BY <2>2, <3>2 DEF Right
    <3>4. /\ \A k \in Jobs : k # j => job'[k] = job[k] /\ disk'[k] = disk[k]
          /\ job'[j] \in {r, new} /\ disk'[j] \in {disk[j], new}
          /\ Append(j, new) => job'[j] = new /\ disk'[j] = new
      BY <2>4, UpdateOnly
    <3>5. p.job = j => Fit(p, job'[j], disk'[j])
      BY <2>2, <2>7, <3>4 DEF Fit, Busy, OnPage
    <3>6. Serial'
      <4>1. Right(job'[j]) /\ Right(disk'[j])
        BY <3>2, <3>3, <3>4
      <4> QED  BY <1>0, <2>7, <2>8, <2>11, <3>1, <3>4, <3>5, <4>1, HoldsJob, OneJobSerial
    <3>7. Edge(r, new)
      BY <1>2, <2>2 DEF Edge, Promise!Edges
    <3> QED  BY <1>0, <2>4, <3>3, <3>6, <3>7, UpdateRefines
  <2> QED  BY <2>5, <2>9, <2>10, <2>11 DEF Tidy, Kept
<1>3. ASSUME NEW due \in SUBSET {j \in Jobs : job[j].state = "retry_wait"}, NEW j \in Eligible(due)
      PROVE  /\ j \in Jobs /\ job[j].state \in {"queued", "retry_wait"}
             /\ \A k \in Jobs : job[k].state \in Busy => Resource[k] # Resource[j]
  BY DEF Eligible
<1> QED  BY <1>1, <1>2, <1>3 DEF Claim

\* An update by the API: it makes no job busy, and a busy job stays so.
LEMMA ApiTidy ==
  ASSUME Sound, Tidy, NEW j \in Jobs, NEW new,
         Append(j, new) \/ AppendFails(j, new),
         UNCHANGED <<recovering, exec>>,
         new.state \in Busy <=> job[j].state \in Busy
  PROVE  Tidy'
<1>0. Update(j, new)
  BY DEF Update
<1>1. InSync' /\ Exclusive(job)' /\ Exclusive(disk)'
  BY <1>0, UpdateExcludes
<1>2. Resting'
  BY DEF Tidy, Resting, Mine
<1>3. \A k \in Jobs : job'[k].state \in Busy <=> job[k].state \in Busy
  BY <1>0, UpdateOnly
<1>4. Recovers'
  BY <1>3 DEF Tidy, Recovers, Mine, Sound, TypeOK
<1>5. NoOrphan'
  BY <1>3 DEF Tidy, NoOrphan, Holds, Append, AppendFails
<1> QED  BY <1>1, <1>2, <1>4, <1>5 DEF Tidy

\* Nobody's job changes as its holder does not expect.
LEMMA ApiSerial ==
  ASSUME Sound, Tidy, Serial, NEW j \in Jobs, NEW new,
         Append(j, new) \/ AppendFails(j, new), UNCHANGED exec, Right(new),
         \A w \in Executors : Mine(w) = j =>
            \A r \in {job[j], new} : \A d \in {disk[j], new} : Fit(exec[w], r, d)
  PROVE  Serial'
<1>0. /\ \A k \in Jobs : k # j => job'[k] = job[k] /\ disk'[k] = disk[k]
      /\ job'[j] \in {job[j], new} /\ disk'[j] \in {disk[j], new}
  BY UpdateOnly DEF Update
<1>1. Unique'
  BY DEF Serial, Unique, Mine
<1>2. ASSUME NEW v \in Executors, exec[v].job # 0
      PROVE  Fit(exec[v], job'[exec[v].job], disk'[exec[v].job])
  <2>1. exec[v].job \in Jobs /\ Fit(exec[v], job[exec[v].job], disk[exec[v].job])
    BY <1>2, HoldsJob DEF Serial, Mine
  <2>2. CASE exec[v].job = j
    BY <1>0, <2>2 DEF Mine
  <2>3. CASE exec[v].job # j
    BY <1>0, <2>1, <2>3
  <2> QED  BY <2>2, <2>3
<1>3. (\A v \in Executors : Mine(v) # 0 => Fit(exec[v], job[Mine(v)], disk[Mine(v)]))'
  BY <1>2 DEF Mine, Fit
<1>4. \A k \in Jobs : Right(job'[k]) /\ Right(disk'[k])
  BY <1>0 DEF Serial
<1>5. (\A k \in Jobs : Right(job[k]) /\ Right(disk[k]))'
  BY <1>4 DEF Right
<1> QED  BY <1>1, <1>3, <1>5 DEF Serial

LEMMA OperatorKept ==
  ASSUME Sound, Sound', Tidy, NEW j \in Jobs, Operator(j)
  PROVE  Kept
<1> DEFINE r == job[j]
<1>0. UNCHANGED <<recovering, exec, sink>> /\ r \in JobType(LastPage)
  BY DEF Operator, Submit, Cancel, Resume, Sound, TypeOK
<1>1. ASSUME NEW new, Append(j, new) \/ AppendFails(j, new),
             new.state \in Busy <=> r.state \in Busy,
             PatientOperator /\ Serial =>
               /\ Edge(r, new) /\ Right(new)
               /\ \A w \in Executors : Mine(w) = j =>
                    \A p \in {r, new} : \A d \in {disk[j], new} : Fit(exec[w], p, d)
      PROVE  Kept
  <2>1. Tidy' /\ Update(j, new)
    BY <1>0, <1>1, ApiTidy DEF Update
  <2>2. ASSUME PatientOperator, Serial
        PROVE  Serial' /\ Refines
    BY <1>0, <1>1, <2>1, <2>2, ApiSerial, UpdateRefines
  <2> QED  BY <2>1, <2>2 DEF Kept
<1>2. CASE Submit(j)
  <2>1. r = Absent /\ (Append(j, NewJob) \/ AppendFails(j, NewJob))
    BY <1>2 DEF Submit
  <2>2. /\ NewJob.state = "queued" /\ NewJob.cursor = 0 /\ NewJob.records = 0
        /\ ~NewJob.exhausted /\ r.state = "absent" /\ r.cursor = 0
    BY <2>1 DEF NewJob, Absent
  <2>3. Right(NewJob) /\ Edge(r, NewJob)
    BY <2>2, EngineAssumption DEF Right, Edge, Promise!Edges
  <2>4. Serial => \A w \in Executors : Mine(w) # j
    BY <2>2, JobsArePositive DEF Serial, Fit, Busy
  <2>5. NewJob.state \in Busy <=> r.state \in Busy
    BY <2>2 DEF Busy
  <2> QED  BY <1>1, <2>1, <2>3, <2>4, <2>5
<1>3. CASE Cancel(j)
  <2> DEFINE new == CancelAsked(r)
  <2>1. /\ Append(j, new) \/ AppendFails(j, new)
        /\ r.state \in {"queued", "retry_wait"} \cup Busy
    BY <1>3 DEF Cancel, Cancelable
  <2>2. /\ new.cursor = r.cursor /\ new.records = r.records /\ new.exhausted = r.exhausted
        /\ new.state = IF r.state \in Busy THEN "cancel_requested" ELSE "canceled"
    BY <1>0 DEF CancelAsked, JobType
  <2> HIDE DEF new
  <2>3. new.state \in Busy <=> r.state \in Busy
    BY <2>2 DEF Busy
  <2>4. Edge(r, new)
    BY <2>1, <2>2 DEF Edge, Busy, Promise!Edges
  <2>5. ASSUME Serial
        PROVE  /\ Right(new)
               /\ \A w \in Executors : Mine(w) = j =>
                    \A p \in {r, new} : \A d \in {disk[j], new} : Fit(exec[w], p, d)
    <3>1. Right(new)
      BY <2>2, <2>5 DEF Serial, Right
    <3>2. ASSUME NEW w \in Executors, Mine(w) = j,
                 NEW p \in {r, new}, NEW d \in {disk[j], new}
          PROVE  Fit(exec[w], p, d)
      <4>1. Fit(exec[w], r, disk[j])
        BY <2>5, <3>2, OwnJob
      <4>2. r.state \in Busy /\ disk[j].state \in Busy
        BY <2>1, <4>1 DEF Fit, Busy
      <4> QED  BY <2>2, <4>1, <4>2 DEF Fit, Busy
    <3> QED  BY <3>1, <3>2
  <2> QED  BY <1>1, <2>1, <2>3, <2>4, <2>5
<1>4. CASE Resume(j)
  <2> DEFINE new == Resumed(r)
  <2>1. /\ Append(j, new) \/ AppendFails(j, new)
        /\ r.state \in {"failed", "canceled", "retry_wait"}
        /\ PatientOperator => \A w \in Executors : Mine(w) # j
    BY <1>4 DEF Resume, Resumable, Holds, Mine
  <2>2. /\ new.cursor = r.cursor /\ new.records = r.records /\ new.exhausted = r.exhausted
        /\ new.state = "queued"
    BY <1>0 DEF Resumed, JobType
  <2> HIDE DEF new
  <2>3. (new.state \in Busy <=> r.state \in Busy) /\ Edge(r, new)
    BY <2>1, <2>2 DEF Busy, Edge, Promise!Edges
  <2>4. Serial => Right(new)
    BY <2>2 DEF Serial, Right
  <2> QED  BY <1>1, <2>1, <2>3, <2>4
<1> QED  BY <1>2, <1>3, <1>4 DEF Operator

\* Recover frees a job that nobody holds.
LEMMA RecoverKept ==
  ASSUME Sound, Sound', Tidy, NEW j \in Jobs, Recover(j)
  PROVE  Kept
<1> DEFINE r == job[j]
           new == Recovered(r)
<1>0. /\ j \in recovering /\ UNCHANGED sink /\ r \in JobType(LastPage)
      /\ \A w \in Executors : exec[w].job = 0
      /\ r.state \in Busy /\ \A k \in recovering : job[k].state \in Busy
  BY DEF Recover, Sound, TypeOK, Tidy, Recovers, Mine
<1>1. /\ new.cursor = r.cursor /\ new.records = r.records /\ new.exhausted = r.exhausted
      /\ new.state = CancelWins(r, "queued")
  BY <1>0 DEF Recovered, JobType
<1>2. \/ Append(j, new) /\ recovering' = recovering \ {j} /\ UNCHANGED exec
      \/ /\ AppendFails(j, new) \/ AppendRefused
         /\ exec' = [w \in Executors |-> Dead] /\ recovering' = {}
  BY DEF Recover
<1> HIDE DEF new
<1>3. new.state \notin Busy /\ Edge(r, new)
  BY <1>0, <1>1 DEF CancelWins, Busy, Edge, Promise!Edges
<1>4. Update(j, new)
  BY <1>2 DEF Update, AppendRefused, storeVars
<1>5. InSync' /\ Exclusive(job)' /\ Exclusive(disk)'
  BY <1>3, <1>4, UpdateExcludes
<1>6. /\ \A w \in Executors : exec'[w].job = 0 /\ exec'[w].pc \in {"idle", "dead"}
  BY <1>0, <1>2, RestingPlaces DEF Tidy, Resting, Mine
<1>7. \/ poison' /\ recovering' = {}
      \/ /\ recovering' = recovering \ {j} /\ poison' = poison
         /\ job'[j].state \notin Busy
         /\ \A k \in Jobs : k # j => job'[k] = job[k]
  <2>1. CASE Append(j, new) /\ recovering' = recovering \ {j}
    BY <1>3, <1>4, <2>1, UpdateOnly DEF Append
  <2>2. CASE (AppendFails(j, new) \/ AppendRefused) /\ recovering' = {}
    BY <2>2 DEF AppendFails, AppendRefused
  <2> QED  BY <1>2, <2>1, <2>2
<1>8. Resting' /\ Recovers'
  BY <1>0, <1>6, <1>7 DEF Resting, Recovers, Mine, Sound, TypeOK
<1>9. NoOrphan'
  <2> SUFFICES ASSUME NEW k \in Jobs, job'[k].state \in Busy, ~poison'
               PROVE  k \in recovering'
    BY DEF NoOrphan
  <2>1. /\ k # j /\ recovering' = recovering \ {j} /\ ~poison
        /\ job[k].state \in Busy
    BY <1>7
  <2>2. k \in recovering
    BY <1>0, <2>1, JobsArePositive DEF Tidy, NoOrphan, Holds
  <2> QED  BY <2>1, <2>2
<1>10. ASSUME Serial
       PROVE  Serial' /\ Refines
  <2>1. Right(new)
    BY <1>1, <1>10 DEF Serial, Right, CancelWins
  <2>2. \A k \in Jobs : Right(job'[k]) /\ Right(disk'[k])
    BY <1>4, <1>10, <2>1, UpdateOnly DEF Serial
  <2>3. (\A k \in Jobs : Right(job[k]) /\ Right(disk[k]))'
    BY <2>2 DEF Right
  <2>4. Serial'
    BY <1>6, <2>3 DEF Serial, Unique, Mine
  <2> QED  BY <1>0, <1>3, <1>4, <2>1, <2>4, UpdateRefines
<1> QED  BY <1>5, <1>8, <1>9, <1>10 DEF Tidy, Kept

\* A new process starts from the disk and lists what is busy there.
LEMMA RebootKept ==
  ASSUME Sound, Tidy, Reboot
  PROVE  Kept
<1>1. /\ job' = disk /\ disk' = disk /\ ~poison' /\ sink' = sink
      /\ recovering' = {j \in Jobs : disk[j].state \in Busy}
      /\ \A w \in Executors : exec'[w] = Idle
  BY DEF Reboot
<1>2. Tidy'
  BY <1>1, RestingPlaces
     DEF Tidy, InSync, Resting, Recovers, NoOrphan, Exclusive, Mine
<1>3. Serial => Serial'
  <2>1. \A w \in Executors : exec'[w].job = 0
    BY <1>1, RestingPlaces
  <2>2. Serial => (\A k \in Jobs : Right(job[k]) /\ Right(disk[k]))'
    BY <1>1 DEF Serial, Right
  <2> QED  BY <2>1, <2>2 DEF Serial, Unique, Mine
<1>4. Refines
  BY <1>1 DEF Refines, Promise!lifecycleVars, Stored
<1> QED  BY <1>2, <1>3, <1>4 DEF Kept

-----------------------------------------------------------------------------
(* The theorems.                                                           *)

LEMMA InitOrderly ==
  ASSUME Init
  PROVE  Tidy /\ Serial /\ Promise!Init
<1>1. /\ \A j \in Jobs : /\ job[j].state = "absent" /\ job[j].cursor = 0
                         /\ job[j].records = 0 /\ ~job[j].exhausted
      /\ disk = job /\ ~poison /\ recovering = {}
      /\ \A w \in Executors : exec[w].job = 0 /\ exec[w].pc = "idle"
      /\ sink = [j \in Jobs |-> {}]
  BY RestingPlaces DEF Init, Absent
<1>2. Tidy
  BY <1>1 DEF Tidy, InSync, Resting, Recovers, NoOrphan, Exclusive, Busy, Mine
<1>3. Serial
  BY <1>1, EngineAssumption DEF Serial, Unique, Right, Mine
<1>4. Promise!Init
  <2>1. [j \in Jobs |-> Stored(j)] \in [Jobs -> SUBSET (1..LastPage)]
    BY <1>1 DEF Stored, Pages
  <2>2. /\ [j \in Jobs |-> disk[j].state] = [j \in Jobs |-> "absent"]
        /\ [j \in Jobs |-> disk[j].cursor] = [j \in Jobs |-> 0]
    BY <1>1
  <2> QED  BY <2>1, <2>2 DEF Promise!Init
<1> QED  BY <1>2, <1>3, <1>4

LEMMA StepKept ==
  ASSUME Sound, Sound', Tidy, [Next]_vars
  PROVE  Kept
<1>1. ASSUME NEW w \in Executors, ExecutorStep(w)
      PROVE  Kept
  <2>1. CASE Claim(w)
    BY <2>1, ClaimKept
  <2>2. CASE Leave(w)
    BY <2>2, LeaveKept DEF Leave, Tidy, Resting
  <2>3. CASE ~Claim(w) /\ ~Leave(w)
    <3>1. exec[w].pc \notin {"idle", "dead"}
      BY <1>1, <2>3 DEF ExecutorStep, Authorize, Inspect, BeginRead, ReadReturns,
         BeginWrite, WriteReturns, Attempt, HandleError, ScheduleRestart, Finish,
         Checkpoint, AfterCheckpoint
    <3>2. PICK j \in Jobs : j = Mine(w)
      BY <3>1, Holder
    <3> QED  BY <1>1, <2>3, <3>2, LocalStepsKept, AttemptKept, ReadReturnsKept,
                WriteReturnsKept, HandleErrorKept, ScheduleRestartKept, FinishKept,
                CheckpointKept
                DEF ExecutorStep, BeginRead, BeginWrite
  <2> QED  BY <2>1, <2>2, <2>3
<1>2. ASSUME NEW j \in Jobs, Operator(j) \/ Recover(j)
      PROVE  Kept
  BY <1>2, OperatorKept, RecoverKept
<1>3. CASE Crash \/ Restart
  BY <1>3, RebootKept DEF Crash, Restart
<1>4. CASE Stop \/ (\E j \in Jobs : ChangeAccess(j)) \/ UNCHANGED vars
  BY <1>4, QuietKept DEF Stop, ChangeAccess, vars, storeVars
<1> QED  BY <1>1, <1>2, <1>3, <1>4 DEF Next

\* The order of the engine, and all that follows from it.
LEMMA Ordered == Spec => [](Sound /\ Tidy)
<1>1. Init => Sound /\ Tidy
  BY InitSound, InitOrderly
<1>2. Sound /\ Tidy /\ [Next]_vars => (Sound /\ Tidy)'
  BY NextSound, StepKept DEF Kept
<1> QED  BY <1>1, <1>2, PTL DEF Spec

\* A job that occupies its destination is in the hands of an executor or of
\* Recover, or the Store has failed and the process is about to end: no
\* destination is blocked by a job that nobody works on (Store.Claim,
\* Store.Recover).
THEOREM NobodyOrphaned == Spec => []NoOrphan
<1>1. Tidy => NoOrphan
  BY DEF Tidy
<1> QED  BY <1>1, Ordered, PTL

\* Two jobs that occupy one destination are never both running or being
\* canceled, in memory or in the journal, even when the operator resumes a job
\* that its executor still holds (the busy set of Store.Claim).
THEOREM DestinationsExclusive == Spec => [](Exclusive(job) /\ Exclusive(disk))
<1>1. Tidy => Exclusive(job) /\ Exclusive(disk)
  BY DEF Tidy
<1> QED  BY <1>1, Ordered, PTL

LEMMA OrderedPatiently ==
  ASSUME PatientOperator
  PROVE  Spec => /\ [](Sound /\ Tidy /\ Serial)
                 /\ KeepsPromise
<1>1. Init => Sound /\ Tidy /\ Serial /\ Promise!Init
  BY InitSound, InitOrderly
<1>2. Sound /\ Tidy /\ Serial /\ [Next]_vars => (Sound /\ Tidy /\ Serial)' /\ Refines
  BY NextSound, StepKept DEF Kept
<1>3. Refines => [Promise!Next]_(Promise!lifecycleVars)
  BY DEF Refines
<1> QED  BY <1>1, <1>2, <1>3, PTL DEF Spec, KeepsPromise, Promise!Spec

\* Records counts each acknowledged record once (the checkpoint update of
\* Engine.execute), unless a job is resumed while its executor still holds it.
THEOREM CountsExact == ASSUME PatientOperator PROVE Spec => []ExactCounts
<1>1. Serial => ExactCounts
  BY DEF Serial, Right, ExactCounts
<1> QED  BY <1>1, OrderedPatiently, PTL

\* Two executors never work on one destination, so never on one job, unless a
\* job is resumed while its executor still holds it (Store.Claim;
\* docs/architecture.md on jobs of one resource).
THEOREM SinksSerialized == ASSUME PatientOperator PROVE Spec => []SerializedSinks
<1>1. Sound /\ Tidy /\ Serial => SerializedSinks
  <2> SUFFICES ASSUME Sound, Tidy, Serial, NEW v \in Executors, NEW w \in Executors,
                      v # w, Working(v), Working(w)
               PROVE  Resource[Mine(v)] # Resource[Mine(w)]
    BY DEF SerializedSinks
  <2>1. Mine(v) # Mine(w) /\ Mine(v) \in Jobs /\ Mine(w) \in Jobs
    BY HoldsJob DEF Working, Serial, Unique
  <2>2. job[Mine(v)].state \in Busy /\ job[Mine(w)].state \in Busy
    BY DEF Working, Serial, Fit
  <2> QED  BY <2>1, <2>2 DEF Tidy, Exclusive
<1> QED  BY <1>1, OrderedPatiently, PTL

\* What the engine has made durable keeps the promise of Lifecycle: every step of
\* the executors, the operator and the process is one of Lifecycle or none, unless
\* a job is resumed while its executor still holds it (docs/architecture.md, the
\* state diagram).
THEOREM EngineKeepsPromise == ASSUME PatientOperator PROVE Spec => KeepsPromise
  BY OrderedPatiently, PTL

-----------------------------------------------------------------------------
(* Part three: the Store that the engine is modelled with.  StoreContract  *)
(* is what Journal implements until its host fails; here the other side.   *)

Contract == INSTANCE StoreContract WITH
  Records <- JobType(LastPage), shut <- poison

\* Every step appends one record, or opens the Store again, or leaves it.
LEMMA StoreSteps ==
  ASSUME Sound, [Next]_vars
  PROVE  \/ UNCHANGED storeVars
         \/ \E j \in Jobs : \E new : Append(j, new) \/ AppendFails(j, new)
         \/ Reboot
<1>1. ASSUME NEW w \in Executors, ExecutorStep(w)
      PROVE  UNCHANGED storeVars \/ \E j \in Jobs : \E new : Append(j, new) \/ AppendFails(j, new)
  <2>1. CASE Claim(w)
    BY <2>1 DEF Claim, Eligible, AppendRefused, storeVars
  <2>2. CASE Leave(w) \/ Authorize(w) \/ Inspect(w) \/ AfterCheckpoint(w) \/ HandleError(w)
    BY <2>2 DEF Leave, Authorize, Inspect, AfterCheckpoint, HandleError, Local
  <2>3. CASE BeginRead(w) \/ BeginWrite(w) \/ ReadReturns(w) \/ WriteReturns(w)
    <3>1. Mine(w) \in Jobs
      BY <2>3, Holder DEF BeginRead, BeginWrite, Attempt, ReadReturns, WriteReturns
    <3>2. UNCHANGED storeVars \/ \E e : Note(w, e)
      BY <2>3 DEF BeginRead, BeginWrite, Attempt, ReadReturns, WriteReturns, CallFails
    <3> QED  BY <3>1, <3>2 DEF Note, AppendRefused, storeVars
  <2>4. CASE ScheduleRestart(w) \/ Finish(w) \/ Checkpoint(w)
    <3>1. Mine(w) \in Jobs
      BY <2>4, Holder DEF ScheduleRestart, Finish, Checkpoint
    <3>2. \E new, e : Save(w, new, e)
      BY <2>4 DEF ScheduleRestart, Finish, Checkpoint
    <3> QED  BY <3>1, <3>2 DEF Save, AppendRefused, storeVars
  <2> QED  BY <1>1, <2>1, <2>2, <2>3, <2>4 DEF ExecutorStep
<1>2. ASSUME NEW j \in Jobs, Operator(j) \/ Recover(j) \/ ChangeAccess(j)
      PROVE  UNCHANGED storeVars \/ \E k \in Jobs : \E new : Append(k, new) \/ AppendFails(k, new)
  BY <1>2 DEF Operator, Submit, Cancel, Resume, Recover, ChangeAccess, AppendRefused, storeVars
<1>3. CASE Crash \/ Restart
  BY <1>3 DEF Crash, Restart
<1>4. CASE Stop \/ UNCHANGED vars
  BY <1>4 DEF Stop, vars, storeVars
<1> QED  BY <1>1, <1>2, <1>3, <1>4 DEF Next

\* The quantifiers of the contract's next step.
LEMMA ContractNext ==
  ASSUME NEW j \in Jobs, NEW new \in JobType(LastPage),
         Contract!Succeed(j, new) \/ Contract!Fail(j, new)
  PROVE  Contract!Next
  BY DEF Contract!Next

\* One append of the engine's Store is one of the contract, no outcome left out:
\* done, or failed and perhaps durable all the same (Store.append).
LEMMA AppendIsContracts ==
  ASSUME NEW j \in Jobs, NEW new
  PROVE  /\ UNCHANGED faults => (Append(j, new) <=> Contract!Succeed(j, new))
         /\ faults < MaxFaults /\ faults' = faults + 1 =>
              (AppendFails(j, new) <=> Contract!Fail(j, new))
  BY DEF Append, AppendFails, Contract!Succeed, Contract!Fail

\* What the engine does is done over a Store that the contract allows, and so
\* what is shown of the engine rests on no more than the contract says: one
\* record at a time, nothing after a failure until the Store is opened again,
\* and a memory that is what is durable unless an append failed (Store.append,
\* OpenStore).
THEOREM EngineKeepsContract == Spec => Contract!Spec
<1>1. Init => Contract!Init
  <2> SUFFICES ASSUME Init
               PROVE  Contract!Init
    OBVIOUS
  <2>1. job \in [Jobs -> JobType(LastPage)]
    BY InitSound DEF Sound, TypeOK
  <2> QED  BY <2>1 DEF Init, Contract!Init
<1>2. Sound /\ Sound' /\ Tidy /\ [Next]_vars => [Contract!Next]_(Contract!contractVars)
  <2> SUFFICES ASSUME Sound, Sound', Tidy, [Next]_vars
               PROVE  [Contract!Next]_(Contract!contractVars)
    OBVIOUS
  <2>0. /\ job \in [Jobs -> JobType(LastPage)] /\ disk \in [Jobs -> JobType(LastPage)]
        /\ job' \in [Jobs -> JobType(LastPage)] /\ disk' \in [Jobs -> JobType(LastPage)]
        /\ poison \in BOOLEAN /\ poison' \in BOOLEAN
    BY DEF Sound, TypeOK
  <2>1. CASE UNCHANGED storeVars
    BY <2>1 DEF storeVars, Contract!contractVars
  <2>2. ASSUME NEW j \in Jobs, NEW new, Append(j, new)
        PROVE  Contract!Next
    <3>1. new \in JobType(LastPage)
      BY <2>0, <2>2 DEF Append
    <3>2. Contract!Succeed(j, new)
      BY <2>2, AppendIsContracts DEF Append
    <3> QED  BY <3>1, <3>2, ContractNext
  <2>3. ASSUME NEW j \in Jobs, NEW new, AppendFails(j, new)
        PROVE  Contract!Next
    <3>1. CASE disk' = [disk EXCEPT ![j] = new]
      <4>1. new \in JobType(LastPage)
        BY <2>0, <3>1
      <4>2. Contract!Fail(j, new)
        BY <2>3, <3>1 DEF AppendFails, Contract!Fail
      <4> QED  BY <4>1, <4>2, ContractNext
    <3>2. CASE disk' = disk
      <4>1. disk[j] \in JobType(LastPage)
        BY <2>0
      <4>2. Contract!Fail(j, disk[j])
        BY <2>3, <3>2 DEF AppendFails, Contract!Fail
      <4> QED  BY <4>1, <4>2, ContractNext
    <3> QED  BY <2>3, <3>1, <3>2 DEF AppendFails
  <2>4. CASE Reboot
    <3>1. CASE poison
      <4>1. Contract!Open
        BY <2>4, <3>1 DEF Reboot, Contract!Open
      <4> QED  BY <4>1 DEF Contract!Next
    <3>2. CASE ~poison
      BY <2>0, <2>4, <3>2 DEF Reboot, Tidy, InSync, Contract!contractVars
    <3> QED  BY <3>1, <3>2
  <2> QED  BY <2>1, <2>2, <2>3, <2>4, StoreSteps
<1> QED  BY <1>1, <1>2, Ordered, PTL DEF Spec, Contract!Spec
=============================================================================
