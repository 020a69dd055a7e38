------------------------- MODULE WorkerLeaseRefinement -------------------------
(***************************************************************************)
(* WorkerLease implements Lifecycle but for the refusals of jobs whose     *)
(* pair the worker no longer approves, and wholly while the worker's       *)
(* policy stays as it is: what the owner of a transfer was promised holds  *)
(* of the control plane's records, though it hears of the transfer only by *)
(* reports that may be lost, repeated by a later one, or served late.      *)
(*                                                                         *)
(* On top of what WorkerLeaseProofs shows, the argument is that nobody     *)
(* says more than is so: a report names pages that the destination holds,  *)
(* and a cancellation only after the owner asked for one in the same       *)
(* generation of the job, since when the control plane may have failed it  *)
(* but not gone back on it (Honest).                                       *)
(***************************************************************************)
EXTENDS WorkerLeaseProofs

Canceling == {"cancel_requested", "canceled"}

\* What becomes of a cancellation: it may be overtaken by a change of policy.
Over == Canceling \cup {"failed"}

\* What either side has as progress is at the destination.
Delivered ==
  /\ \A j \in Jobs :
       /\ cp[j].pages <= stored[j] /\ local[j].cursor <= stored[j]
       /\ local[j].exhausted => local[j].cursor = LastPage
       /\ local[j].state = "succeeded" => local[j].cursor = LastPage
  /\ engine = "acknowledged" => local[worker.job].cursor < stored[worker.job]

\* So is what a report says; and it says that its job is canceled, or being
\* canceled, of a lease only that was.
Truthful(r) ==
  r.kind = "report" =>
    /\ r.state # "absent" /\ r.pages <= stored[r.job]
    /\ r.state = "succeeded" => r.pages = LastPage
    /\ r.state \in Canceling /\ r.lease = cp[r.job].lease => cp[r.job].state \in Over

\* The worker is never ahead of the owner's resumes, nor cancels what the
\* owner did not.
Asked ==
  /\ \A j \in Jobs :
       /\ localGen[j] <= cp[j].gen
       /\ localGen[j] = cp[j].gen /\ local[j].state \in Canceling =>
            cp[j].state \in Over
  /\ link.kind = "assigned" /\ link.cancel => cp[link.job].state \in Over
  /\ link.kind = "accepted" /\ link.cancel /\ worker.job # 0
       /\ localGen[worker.job] = cp[worker.job].gen => cp[worker.job].state \in Over

\* The worker has a record of the job in its hands, of the lease's generation.
Adopted ==
  worker.job # 0 =>
    /\ local[worker.job].state # "absent"
    /\ cp[worker.job].lease = worker.lease =>
         localGen[worker.job] = cp[worker.job].gen

Honest ==
  /\ Delivered /\ Truthful(link) /\ Truthful(late) /\ Asked /\ Adopted

-----------------------------------------------------------------------------
(* Steps of the control plane.                                             *)

\* A step of Lifecycle, a refusal, or none.
Steps == [Promise!Next \/ PolicyRefuses]_(Promise!lifecycleVars)

\* What a step on the record of one job may be, for the owner and for those
\* who hold a lease of it.
Moves(j) ==
  /\ \A k \in Jobs : k # j => cp'[k] = cp[k]
  /\ \/ cp'[j].state # cp[j].state => <<cp[j].state, cp'[j].state>> \in Promise!Edges
     \/ Disapproved(j)
  /\ cp'[j].pages # cp[j].pages => cp[j].state \in Busy /\ cp'[j].pages > cp[j].pages
  /\ cp'[j].pages <= stored[j]
  /\ cp'[j].state # "absent"
  /\ cp'[j].state = "succeeded" => cp'[j].pages = LastPage
  /\ cp'[j].gen >= cp[j].gen
  /\ cp'[j].gen = cp[j].gen /\ cp[j].state \in Over => cp'[j].state \in Over
  /\ \/ cp'[j].lease = cp[j].lease /\ cp'[j].gen = cp[j].gen
     \/ cp'[j].lease = 0
     \/ cp'[j].lease \notin InUse

\* What the answer to a request may tell the worker.
Answers ==
  \/ link' = link
  \/ /\ link'.kind # "report"
     /\ link'.kind = "assigned" /\ link'.cancel => cp'[link'.job].state \in Over
     /\ link'.kind = "accepted" /\ link'.cancel /\ worker.job # 0 =>
          cp'[worker.job].state \in Over

LEMMA MoveRefines ==
  ASSUME Sound, Sound', NEW j \in Jobs, Moves(j), ~Disapproved(j), stored' = stored
  PROVE  Steps
<1> DEFINE status == [k \in Jobs |-> cp[k].state]
           acked == [k \in Jobs |-> cp[k].pages]
           to == cp'[j].state
           upTo == cp'[j].pages
<1>1. cp \in [Jobs -> CPRec] /\ cp' \in [Jobs -> CPRec] /\ stored \in [Jobs -> 0..LastPage]
  <2>1. cp' \in [Jobs -> CPRec]
    BY DEF Sound, TypeOK, CPRec
  <2> QED  BY <2>1, Typed DEF Sound, TypeOK
<1>2. status' = [status EXCEPT ![j] = to] /\ acked' = [acked EXCEPT ![j] = upTo]
  BY <1>1 DEF Moves
<1>3. [k \in Jobs |-> 1..stored[k]]' = [k \in Jobs |-> 1..stored[k]]
  OBVIOUS
<1>4. /\ to # status[j] => <<status[j], to>> \in Promise!Edges
      /\ upTo # acked[j] => status[j] \in Promise!Executing /\ upTo > acked[j]
      /\ 1..upTo \subseteq 1..stored[j]
      /\ to = "succeeded" => upTo = LastPage
  <2>1. upTo \in Int /\ stored[j] \in Int /\ upTo <= stored[j]
    BY <1>1 DEF CPRec, Moves
  <2>2. 1..upTo \subseteq 1..stored[j]
    BY <2>1
  <2>3. to # status[j] => <<status[j], to>> \in Promise!Edges
    BY DEF Moves
  <2> QED  BY <2>2, <2>3 DEF Moves, Promise!Executing, Busy
<1>5. upTo \in 0..LastPage /\ to \in {e[2] : e \in Promise!Edges}
  <2>1. upTo \in 0..LastPage /\ to \in States \ {"absent"}
    BY <1>1 DEF CPRec, Moves
  <2>2. \A state \in States \ {"absent"} : \E e \in Promise!Edges : e[2] = state
    BY DEF States, Promise!Edges
  <2> QED  BY <2>1, <2>2
<1>6. Promise!Move(j, to, upTo)
  BY <1>2, <1>3, <1>4 DEF Promise!Move
<1> HIDE DEF to, upTo
<1>7. \E n \in 0..LastPage : \E s \in {e[2] : e \in Promise!Edges} : Promise!Move(j, s, n)
  <2> DEFINE Moved(s, n) == Promise!Move(j, s, n)
  <2>1. Moved(to, upTo)
    BY <1>6
  <2> HIDE DEF Moved
  <2>2. \E n \in 0..LastPage : \E s \in {e[2] : e \in Promise!Edges} : Moved(s, n)
    BY <1>5, <2>1
  <2> QED  BY <2>2 DEF Moved
<1>8. Promise!Next
  BY <1>7 DEF Promise!Next
<1> QED  BY <1>8 DEF Steps

\* A lease that somebody else holds stays with its generation of the job.
LEMMA LeaseKept ==
  ASSUME Sound, NEW j \in Jobs, Moves(j), NEW l \in InUse, l # 0, cp'[j].lease = l
  PROVE  cp[j].lease = l /\ cp'[j].gen = cp[j].gen
BY DEF Moves

LEMMA MovesKeepHonest ==
  ASSUME Sound, Sound', Honest, NEW j \in Jobs, Moves(j), Answers,
         late' = late \/ late'.kind = "none",
         UNCHANGED <<published, workerVars, stored>>
  PROVE  Honest'
<1> USE DEF workerVars
<1>1. /\ TypeOK /\ Messages /\ Places
      /\ cp \in [Jobs -> CPRec] /\ cp' \in [Jobs -> CPRec]
      /\ localGen \in [Jobs -> 0..MaxResumes]
      /\ worker.job # 0 => worker.job \in Jobs /\ worker.lease \in InUse /\ worker.lease # 0
  <2>1. cp' \in [Jobs -> CPRec]
    BY DEF Sound, TypeOK, CPRec
  <2> QED  BY <2>1, Typed DEF Sound, Places, InUse
<1>2. /\ \A k \in Jobs : cp[k].gen \in Int /\ cp'[k].gen \in Int /\ localGen[k] \in Int
      /\ \A k \in Jobs : cp'[k].gen >= cp[k].gen
      /\ \A k \in Jobs : cp'[k].gen = cp[k].gen /\ cp[k].state \in Over
                           => cp'[k].state \in Over
  <2>1. \A k \in Jobs : cp[k].gen \in Int /\ cp'[k].gen \in Int /\ localGen[k] \in Int
    BY <1>1 DEF CPRec
  <2> QED  BY <2>1 DEF Moves
<1>4. Delivered'
  BY DEF Honest, Delivered, Moves
<1>5. ASSUME NEW r, r \in Reports, Truthful(r), r.lease \in InUse, r.lease # 0
      PROVE  /\ r.state # "absent" /\ r.pages <= stored'[r.job]
             /\ r.state = "succeeded" => r.pages = LastPage
             /\ r.state \in Canceling /\ r.lease = cp'[r.job].lease =>
                  cp'[r.job].state \in Over
  <2>1. /\ r.state # "absent" /\ r.pages <= stored[r.job]
        /\ r.state = "succeeded" => r.pages = LastPage
        /\ r.state \in Canceling /\ r.lease = cp[r.job].lease =>
             cp[r.job].state \in Over
        /\ r.job \in Jobs
    BY <1>5 DEF Truthful, Reports
  <2>2. CASE r.job # j
    BY <2>1, <2>2 DEF Moves
  <2>3. CASE r.job = j
    <3>1. r.lease = cp'[j].lease => cp[j].lease = r.lease /\ cp'[j].gen = cp[j].gen
      BY <1>5, LeaseKept
    <3> QED  BY <1>2, <2>1, <2>3, <3>1
  <2> QED  BY <2>2, <2>3
<1>6. \A l \in Leases : l # 0
  BY LeaseAssumption DEF Leases
<1>7. Truthful(link)'
  <2>1. SUFFICES ASSUME link'.kind = "report"
                 PROVE  Truthful(link)'
    BY DEF Truthful
  <2>2. link' = link /\ link.kind = "report" /\ link \in Reports /\ Truthful(link)
    BY <1>1, <2>1 DEF Answers, Messages, Honest
  <2>3. link.lease \in InUse /\ link.lease # 0
    BY <1>6, <2>2 DEF InUse, Reports
  <2> QED  BY <1>5, <2>2, <2>3 DEF Truthful
<1>8. Truthful(late)'
  <2>1. SUFFICES ASSUME late'.kind = "report"
                 PROVE  Truthful(late)'
    BY DEF Truthful
  <2>2. late' = late /\ late.kind = "report" /\ late \in Reports /\ Truthful(late)
    BY <1>1, <2>1 DEF Messages, Honest
  <2>3. late.lease \in InUse /\ late.lease # 0
    BY <1>6, <2>2 DEF InUse, Reports
  <2> QED  BY <1>5, <2>2, <2>3 DEF Truthful
<1>9. Asked'
  <2>1. ASSUME NEW k \in Jobs
        PROVE  /\ localGen[k] <= cp'[k].gen
               /\ localGen[k] = cp'[k].gen /\ local[k].state \in Canceling =>
                    cp'[k].state \in Over
    <3>1. localGen[k] <= cp[k].gen /\ (localGen[k] = cp[k].gen /\ local[k].state \in Canceling
                                         => cp[k].state \in Over)
      BY DEF Honest, Asked
    <3> QED  BY <1>2, <3>1
  <2>2. ASSUME link'.kind = "assigned", link'.cancel
        PROVE  cp'[link'.job].state \in Over
    <3>1. CASE link' = link
      <4>1. link.job \in Jobs /\ cp[link.job].state \in Over
        BY <1>1, <2>2, <3>1 DEF Honest, Asked, Messages, Assignments
      <4>2. cp[link.job].gen = link.gen /\ cp'[link.job].gen = link.gen
        BY <2>2, <3>1 DEF Sound, Assigned
      <4> QED  BY <1>2, <3>1, <4>1, <4>2
    <3>2. CASE link' # link
      BY <2>2, <3>2 DEF Answers
    <3> QED  BY <3>1, <3>2
  <2>3. ASSUME link'.kind = "accepted", link'.cancel, worker.job # 0,
               localGen[worker.job] = cp'[worker.job].gen
        PROVE  cp'[worker.job].state \in Over
    <3>1. CASE link' = link
      <4>1. worker.job \in Jobs /\ localGen[worker.job] <= cp[worker.job].gen
        BY <1>1, <2>3 DEF Honest, Asked
      <4>2. cp'[worker.job].gen = cp[worker.job].gen
        BY <1>2, <2>3, <4>1
      <4>3. cp[worker.job].state \in Over
        BY <2>3, <3>1, <4>2 DEF Honest, Asked
      <4> QED  BY <1>2, <4>1, <4>2, <4>3
    <3>2. CASE link' # link
      BY <2>3, <3>2 DEF Answers
    <3> QED  BY <3>1, <3>2
  <2> QED  BY <2>1, <2>2, <2>3 DEF Asked
<1>10. Adopted'
  <2>1. SUFFICES ASSUME worker.job # 0
                 PROVE  Adopted'
    BY DEF Adopted
  <2>2. /\ local[worker.job].state # "absent"
        /\ cp[worker.job].lease = worker.lease => localGen[worker.job] = cp[worker.job].gen
    BY <2>1 DEF Honest, Adopted
  <2>3. cp'[worker.job].lease = worker.lease => localGen[worker.job] = cp'[worker.job].gen
    <3>1. CASE worker.job # j
      BY <1>1, <2>1, <2>2, <3>1 DEF Moves
    <3>2. CASE worker.job = j
      BY <1>1, <2>1, <2>2, <3>2, LeaseKept
    <3> QED  BY <3>1, <3>2
  <2> QED  BY <2>2, <2>3 DEF Adopted
<1> QED  BY <1>4, <1>7, <1>8, <1>9, <1>10 DEF Honest

\* What every step has to keep and to be.
Good == Honest' /\ Steps

LEMMA MovesGood ==
  ASSUME Sound, Sound', Honest, NEW j \in Jobs, Moves(j), Answers,
         late' = late \/ late'.kind = "none",
         UNCHANGED <<published, workerVars, stored>>
  PROVE  Good
<1>1. CASE ~Disapproved(j)
  BY <1>1, MovesKeepHonest, MoveRefines DEF Good
<1>2. CASE Disapproved(j)
  BY <1>2, MovesKeepHonest DEF Good, Steps, PolicyRefuses
<1> QED  BY <1>1, <1>2

LEMMA SubmitGood ==
  ASSUME Sound, Sound', Honest, NEW j \in Jobs, Submit(j)
  PROVE  Good
<1> DEFINE new == [CPAbsent EXCEPT !.state = "queued"]
<1>1. new \in CPRec /\ cp[j] = CPAbsent /\ SetCP(j, new)
  BY Typed DEF Sound, CPRec, CPAbsent, States, Submit
<1>2. cp'[j] = new /\ \A k \in Jobs : k # j => cp'[k] = cp[k]
  BY <1>1, SetCPTyped DEF Sound
<1>3. 0 <= stored[j]
  BY DEF Sound, TypeOK
<1>4. Moves(j)
  BY <1>1, <1>2, <1>3 DEF Moves, CPAbsent, Promise!Edges, Canceling, Over
<1> QED  BY <1>4, MovesGood DEF Submit, Answers

LEMMA CancelGood ==
  ASSUME Sound, Sound', Honest, NEW j \in Jobs, Cancel(j)
  PROVE  Good
<1> DEFINE new == CancelAsked(cp[j])
<1>1. cp[j] \in CPRec /\ SetCP(j, new) /\ Cancelable(cp[j])
  BY Typed DEF Sound, Cancel
<1>2. /\ new \in CPRec /\ new.gen = cp[j].gen /\ new.lease = cp[j].lease
      /\ new.pages = cp[j].pages
      /\ new.state = IF cp[j].state \in Busy THEN "cancel_requested" ELSE "canceled"
  BY <1>1 DEF CPRec, CancelAsked, States, Busy
<1> HIDE DEF new
<1>3. cp'[j] = new /\ \A k \in Jobs : k # j => cp'[k] = cp[k]
  BY <1>1, <1>2, SetCPTyped DEF Sound
<1>4. cp[j].state \in {"queued", "retry_wait", "running", "cancel_requested"}
  BY <1>1 DEF Cancelable, Busy
<1>5. cp[j].pages <= stored[j] /\ cp[j].gen \in Int
  BY <1>1, <1>4 DEF Honest, Delivered, CPRec
<1>6. Moves(j)
  BY <1>2, <1>3, <1>4, <1>5 DEF Moves, Promise!Edges, Canceling, Over, Busy
<1> QED  BY <1>6, MovesGood DEF Cancel, Answers

LEMMA ResumeGood ==
  ASSUME Sound, Sound', Honest, NEW j \in Jobs, Resume(j)
  PROVE  Good
<1> DEFINE new == [cp[j] EXCEPT !.state = "queued", !.gen = @ + 1, !.lease = 0]
<1>1. cp[j] \in CPRec /\ SetCP(j, new) /\ Resumable(cp[j])
  BY Typed DEF Sound, Resume
<1>2. cp' = [cp EXCEPT ![j] = new] /\ cp \in [Jobs -> CPRec]
  BY <1>1, Typed DEF SetCP, Sound
<1>3. cp'[j] = new /\ \A k \in Jobs : k # j => cp'[k] = cp[k]
  BY <1>2
<1>4. new.gen = cp[j].gen + 1 /\ new.lease = 0 /\ new.state = "queued" /\ new.pages = cp[j].pages
  BY <1>1 DEF CPRec
<1> HIDE DEF new
<1>5. cp[j].state \in {"failed", "canceled", "retry_wait"}
  BY <1>1 DEF Resumable
<1>6. cp[j].pages <= stored[j] /\ cp[j].gen \in Int
  BY <1>1, <1>5 DEF Honest, Delivered, CPRec
<1>7. Moves(j)
  BY <1>3, <1>4, <1>5, <1>6 DEF Moves, Promise!Edges
<1> QED  BY <1>7, MovesGood DEF Resume, Answers, workerVars

\* A claim grants a new lease, without taking back a cancellation, or refuses
\* the job.
LEMMA ClaimMovesGood ==
  ASSUME Sound, Honest, link.kind # "report" \/ late.kind # "report",
         NEW due, NEW j \in Jobs, Picked(j, due), LeasePicked(j) \/ RefusePicked(j),
         stored' = stored
  PROVE  Moves(j) /\ cp'[j].state \in {"running", "cancel_requested", "failed"}
         /\ (LeasePicked(j) /\ cp'[j].state = "cancel_requested"
              => cp[j].state = "cancel_requested")
<1>1. TypeOK /\ cp[j] \in CPRec /\ NewLease \in Leases /\ NewLease \notin InUse
  BY Typed, NewLeaseIsNew DEF Sound
<1>2. cp[j].state \in {"queued", "retry_wait", "running", "cancel_requested"}
  BY DEF Picked, Claimable, Busy
<1>3. cp[j].pages <= stored[j] /\ cp[j].gen \in Int
  BY <1>1, <1>2 DEF Honest, Delivered, CPRec
<1>4. CASE LeasePicked(j)
  <2>1. /\ Granted(j) \in CPRec /\ Granted(j).gen = cp[j].gen
        /\ Granted(j).state = IF cp[j].state = "cancel_requested"
                              THEN "cancel_requested" ELSE "running"
        /\ Granted(j).lease = NewLease /\ Granted(j).pages = cp[j].pages
    BY <1>1 DEF Granted, CPRec, States
  <2>2. cp'[j] = Granted(j) /\ \A k \in Jobs : k # j => cp'[k] = cp[k]
    BY <1>1, <1>4, <2>1, SetCPTyped DEF LeasePicked
  <2>3. Moves(j)
    BY <1>1, <1>2, <1>3, <2>1, <2>2 DEF Moves, Promise!Edges, Canceling, Over
  <2> QED  BY <2>1, <2>2, <2>3
<1>5. CASE RefusePicked(j)
  <2> DEFINE new == [cp[j] EXCEPT !.state = "failed", !.lease = 0]
  <2>1. /\ new.gen = cp[j].gen /\ new.state = "failed" /\ new.lease = 0
        /\ new.pages = cp[j].pages
    BY <1>1 DEF CPRec
  <2>2. cp' = [cp EXCEPT ![j] = new] /\ cp \in [Jobs -> CPRec]
    BY <1>5, Typed DEF RefusePicked, SetCP, Sound
  <2> HIDE DEF new
  <2>3. cp'[j] = new /\ \A k \in Jobs : k # j => cp'[k] = cp[k]
    BY <2>2
  <2>4. Disapproved(j)
    BY <1>2, <1>5, <2>1, <2>3 DEF Disapproved, RefusePicked
  <2>5. Moves(j)
    BY <1>3, <2>1, <2>3, <2>4 DEF Moves, Over
  <2>6. cp[j].state = "cancel_requested" \/ ~LeasePicked(j) \/ cp'[j].state = "failed"
    BY <2>1, <2>3
  <2> QED  BY <2>1, <2>3, <2>5
<1> QED  BY <1>4, <1>5

\* A report that is accepted says what happened.
LEMMA ReportMovesGood ==
  ASSUME Sound, Honest, NEW r, r \in Reports, Truthful(r), Acceptable(r), ReportWorker(r)
  PROVE  Moves(r.job) /\ (cp[r.job].state = "cancel_requested" => cp'[r.job].state \in Over)
<1> DEFINE j == r.job
           state == Reported(cp[j].state, r.state)
           held == state \in Busy
           new == [cp[j] EXCEPT !.state = state, !.pages = r.pages,
                                !.lease = IF held THEN @ ELSE 0]
<1>1. /\ TypeOK /\ j \in Jobs /\ r.state \in States /\ r.pages \in 0..LastPage
      /\ cp \in [Jobs -> CPRec] /\ cp[j] \in CPRec
  BY Typed DEF Sound, Reports
<1>2. /\ cp[j].lease = r.lease /\ cp[j].state \in Busy /\ r.pages >= cp[j].pages
      /\ r.state # "absent" /\ r.pages <= stored[j]
      /\ r.state = "succeeded" => r.pages = LastPage
      /\ r.state \in Canceling => cp[j].state \in Over
  <2>1. r.kind = "report"
    BY DEF Reports
  <2> QED  BY <2>1 DEF Acceptable, Truthful
<1>3. /\ state # cp[j].state => <<cp[j].state, state>> \in Promise!Edges
      /\ state # "absent" /\ (state = "succeeded" => r.pages = LastPage)
      /\ cp[j].state = "cancel_requested" => state \in Canceling
      /\ cp[j].state \in Over => state \in Canceling
  <2>1. CASE cp[j].state = "cancel_requested"
    BY <2>1 DEF Reported, Promise!Edges, Canceling, Over
  <2>2. CASE cp[j].state = "running"
    <3>1. state = r.state
      BY <2>2 DEF Reported
    <3>2. r.state \notin Canceling
      BY <1>2, <2>2 DEF Canceling, Over
    <3> QED  BY <1>1, <1>2, <2>2, <3>1, <3>2 DEF States, Promise!Edges, Canceling, Over
  <2> QED  BY <1>2, <2>1, <2>2 DEF Busy
<1>4. cp' = [cp EXCEPT ![j] = new]
  BY DEF ReportWorker, SetCP
<1> HIDE DEF state
<1>5. /\ new.gen = cp[j].gen /\ new.pages = r.pages /\ new.state = state
      /\ new.lease = cp[j].lease \/ new.lease = 0
  BY <1>1 DEF CPRec
<1> HIDE DEF new
<1>6. cp'[j] = new /\ \A k \in Jobs : k # j => cp'[k] = cp[k]
  BY <1>1, <1>4
<1>7. cp[j].gen \in Int /\ cp[j].pages \in Int /\ r.pages \in Int
  BY <1>1, <1>2 DEF Honest, CPRec, Busy
<1> HIDE DEF j
<1>8. Moves(j)
  BY <1>2, <1>3, <1>5, <1>6, <1>7 DEF Moves, Over
<1> QED  BY <1>3, <1>5, <1>6, <1>8 DEF j, Over

LEMMA ServeClaimGood ==
  ASSUME Sound, Sound', Honest, ServeClaim
  PROVE  Good
<1>1. UNCHANGED <<published, workerVars, late, stored>> /\ link.kind = "claim"
  BY DEF ServeClaim
<1>2. CASE link' = [kind |-> "nothing"] /\ UNCHANGED <<cp, left>>
  <2>1. Honest'
    <3>1. Delivered' /\ Adopted'
      BY <1>1, <1>2 DEF Honest, Delivered, Adopted, workerVars
    <3>2. Truthful(link)' /\ Truthful(late)' /\ Asked'
      BY <1>1, <1>2 DEF Honest, Truthful, Asked, workerVars
    <3> QED  BY <3>1, <3>2 DEF Honest
  <2>2. UNCHANGED Promise!lifecycleVars
    BY <1>1, <1>2 DEF Promise!lifecycleVars
  <2> QED  BY <2>1, <2>2 DEF Good, Steps
<1>3. ASSUME NEW due, NEW j \in Jobs, Picked(j, due),
             \/ LeasePicked(j) /\ link' = Assignment(j)
             \/ RefusePicked(j) /\ UNCHANGED link
      PROVE  Good
  <2>1. Moves(j)
    BY <1>1, <1>3, ClaimMovesGood
  <2>2. Answers
    <3>1. CASE link' = Assignment(j)
      <4>1. /\ link'.kind = "assigned" /\ link'.job = j
            /\ link'.cancel = (cp'[j].state = "cancel_requested")
        BY <3>1 DEF Assignment
      <4> QED  BY <4>1 DEF Answers, Canceling, Over
    <3>2. CASE link' = link
      BY <3>2 DEF Answers
    <3> QED  BY <1>3, <3>1, <3>2
  <2> QED  BY <1>1, <2>1, <2>2, MovesGood
<1> QED  BY <1>2, <1>3 DEF ServeClaim

LEMMA ServeReportGood ==
  ASSUME Sound, Sound', Honest, ServeReport
  PROVE  Good
<1>1. /\ UNCHANGED <<published, workerVars, late, stored>>
      /\ link.kind = "report" /\ link \in Reports /\ Truthful(link)
  BY DEF ServeReport, Sound, Messages, Honest
<1>2. CASE link' = [kind |-> "refused"] /\ UNCHANGED <<cp, left>>
  <2>1. Honest'
    <3>1. Delivered' /\ Adopted'
      BY <1>1, <1>2 DEF Honest, Delivered, Adopted, workerVars
    <3>2. Truthful(link)' /\ Truthful(late)' /\ Asked'
      BY <1>1, <1>2 DEF Honest, Truthful, Asked, workerVars
    <3> QED  BY <3>1, <3>2 DEF Honest
  <2>2. UNCHANGED Promise!lifecycleVars
    BY <1>1, <1>2 DEF Promise!lifecycleVars
  <2> QED  BY <2>1, <2>2 DEF Good, Steps
<1>3. CASE /\ Acceptable(link) /\ ReportWorker(link)
           /\ link' = [kind |-> "accepted",
                       cancel |-> cp'[link.job].state = "cancel_requested"]
  <2>1. Moves(link.job) /\ link.job \in Jobs
    BY <1>1, <1>3, ReportMovesGood DEF Reports
  <2>2. worker.job # 0 => link.job = worker.job
    BY <1>1 DEF Sound, Places, Holds
  <2>3. Answers
    BY <1>3, <2>2 DEF Answers, Canceling, Over
  <2> QED  BY <1>1, <2>1, <2>3, MovesGood
<1> QED  BY <1>2, <1>3 DEF ServeReport

LEMMA ServeLateGood ==
  ASSUME Sound, Sound', Honest, ServeLate
  PROVE  Good
<1>1. UNCHANGED <<published, workerVars, link, stored>> /\ late'.kind = "none" /\ Answers
  BY DEF ServeLate, Quiet, Answers
<1>2. CASE UNCHANGED <<cp, left>>
  <2>1. Honest'
    <3>1. Delivered' /\ Adopted'
      BY <1>1, <1>2 DEF Honest, Delivered, Adopted, workerVars
    <3>2. Truthful(link)' /\ Truthful(late)' /\ Asked'
      BY <1>1, <1>2 DEF Honest, Truthful, Asked, workerVars
    <3> QED  BY <3>1, <3>2 DEF Honest
  <2>2. UNCHANGED Promise!lifecycleVars
    BY <1>1, <1>2 DEF Promise!lifecycleVars
  <2> QED  BY <2>1, <2>2 DEF Good, Steps
<1>3. ASSUME late.kind = "claim", NEW due, NEW j \in Jobs, Picked(j, due),
             LeasePicked(j) \/ RefusePicked(j)
      PROVE  Good
  <2>1. Moves(j)
    BY <1>1, <1>3, ClaimMovesGood
  <2> QED  BY <1>1, <2>1, MovesGood
<1>4. CASE late.kind = "report" /\ Acceptable(late) /\ ReportWorker(late)
  <2>1. late \in Reports /\ Truthful(late)
    BY <1>4 DEF Sound, Messages, Honest
  <2>2. Moves(late.job) /\ late.job \in Jobs
    BY <1>4, <2>1, ReportMovesGood DEF Reports
  <2> QED  BY <1>1, <2>2, MovesGood
<1> QED  BY <1>2, <1>3, <1>4 DEF ServeLate

-----------------------------------------------------------------------------
(* Steps of the worker that leave its Store alone.                         *)

\* The worker keeps its job or drops it, and may say what is so.
StoreKept ==
  /\ UNCHANGED <<cp, stored, local, localGen>>
  /\ worker'.job # 0 => worker'.job = worker.job /\ worker'.lease = worker.lease
  /\ engine' # "none" => engine' = engine /\ worker'.job = worker.job
  /\ \/ link' = link
     \/ link'.kind \in {"none", "claim"}
     \/ link'.kind = "report" /\ Truthful(link)'
  /\ late' \in {late, link}

LEMMA StoreKeptGood ==
  ASSUME Sound, Honest, StoreKept
  PROVE  Good
<1>1. Delivered'
  BY DEF Honest, Delivered, StoreKept
<1>2. Truthful(link)' /\ Truthful(late)'
  BY DEF Honest, Truthful, StoreKept
<1>3. Asked'
  BY DEF Honest, Asked, StoreKept
<1>4. Adopted'
  BY DEF Honest, Adopted, StoreKept
<1>5. UNCHANGED Promise!lifecycleVars
  BY DEF Promise!lifecycleVars, StoreKept
<1> QED  BY <1>1, <1>2, <1>3, <1>4, <1>5 DEF Honest, Good, Steps

LEMMA FreeHolds ==
  ASSUME NEW pc
  PROVE  Free(pc).job = 0
BY DEF Free

LEMMA HungUp ==
  ASSUME HangUp
  PROVE  link'.kind = "none"
BY DEF HangUp, Quiet

LEMMA AbandonHolds ==
  ASSUME Sound, worker' = Abandon
  PROVE  \/ worker'.job = 0 /\ worker.job = 0
         \/ worker'.job = worker.job /\ worker'.lease = worker.lease
<1>1. worker \in WorkerRec
  BY Typed DEF Sound
<1> QED  BY <1>1, FreeHolds DEF Abandon, WorkerRec

LEMMA QuietLoopGood ==
  ASSUME Sound, Honest,
         Publish \/ Claim \/ NothingToDo \/ Refused \/ TimerFires \/ Join
  PROVE  Good
<1>1. CASE Publish
  <2>1. worker'.job = 0 /\ engine' = engine /\ worker.job = 0
    BY <1>1, FreeHolds DEF Publish, Sound, Places, Holds
  <2> SUFFICES StoreKept
    BY StoreKeptGood
  <2> QED  BY <1>1, <2>1 DEF StoreKept, Publish
<1>2. CASE Claim
  <2>1. worker'.job = 0 /\ worker.job = 0 /\ link'.kind = "claim"
    BY <1>2, FreeHolds DEF Claim, Ask, ClaimRequest, Sound, Places, Holds
  <2> SUFFICES StoreKept
    BY StoreKeptGood
  <2> QED  BY <1>2, <2>1 DEF StoreKept, Claim, cpVars
<1>3. CASE NothingToDo
  <2>1. worker'.job = 0 /\ worker.job = 0 /\ link'.kind = "none"
    BY <1>3, FreeHolds, HungUp DEF NothingToDo, Sound, Places, Holds
  <2> SUFFICES StoreKept
    BY StoreKeptGood
  <2> QED  BY <1>3, <2>1 DEF StoreKept, NothingToDo, cpVars
<1>4. CASE Refused
  <2>1. \/ worker'.job = 0 /\ worker.job = 0
        \/ worker'.job = worker.job /\ worker'.lease = worker.lease
    <3>1. CASE worker' = Abandon
      BY <3>1, AbandonHolds
    <3>2. CASE worker.pc = "rejecting" /\ worker' = Free("claim")
      BY <3>2, FreeHolds DEF Sound, Places, Holds
    <3> QED  BY <1>4, <3>1, <3>2 DEF Refused
  <2>2. link'.kind = "none"
    BY <1>4, HungUp DEF Refused
  <2> SUFFICES StoreKept
    BY StoreKeptGood
  <2> QED  BY <1>4, <2>1, <2>2 DEF StoreKept, Refused, cpVars
<1>5. CASE TimerFires
  <2>1. \/ worker'.job = 0 /\ worker.job = 0
        \/ worker'.job = worker.job /\ worker'.lease = worker.lease
    BY <1>5, AbandonHolds DEF TimerFires
  <2>2. link'.kind = "none" /\ late' \in {late, link}
    BY <1>5, HungUp, LateKnown DEF TimerFires
  <2> SUFFICES StoreKept
    BY StoreKeptGood
  <2> QED  BY <1>5, <2>1, <2>2 DEF StoreKept, TimerFires, cpVars
<1>6. CASE Join
  <2>1. worker'.job = 0 /\ engine = "none"
    BY <1>6, FreeHolds DEF Join, Joined
  <2> SUFFICES StoreKept
    BY StoreKeptGood
  <2> QED  BY <1>6, <2>1 DEF StoreKept, Join, cpVars
<1> QED  BY <1>1, <1>2, <1>3, <1>4, <1>5, <1>6

LEMMA RejectGood ==
  ASSUME Sound, Honest, Reject
  PROVE  Good
<1>1. /\ TypeOK /\ link \in Assignments /\ link.kind = "assigned"
      /\ worker.job = 0 /\ engine = "none"
  BY DEF Sound, Messages, Places, Runs, Holds, Reject
<1>2. worker'.job = 0
  BY FreeHolds DEF Reject
<1>3. link.job \in Jobs /\ link.pages <= stored[link.job]
  <2>1. link.job \in Jobs /\ cp[link.job].pages = link.pages
    BY <1>1 DEF Assignments, Sound, Assigned
  <2> QED  BY <2>1 DEF Honest, Delivered
<1>4. /\ link'.kind = "report" /\ link'.state = "failed" /\ link'.job = link.job
      /\ link'.pages = link.pages
  BY DEF Reject, Ask, Report
<1>5. Truthful(link)'
  BY <1>3, <1>4 DEF Reject, Truthful, Canceling, Over
<1> SUFFICES StoreKept
  BY StoreKeptGood
<1> QED  BY <1>1, <1>2, <1>4, <1>5 DEF StoreKept, Reject, cpVars

LEMMA SendReportGood ==
  ASSUME Sound, Honest, SendReport
  PROVE  Good
<1> DEFINE j == worker.job
<1>1. TypeOK /\ worker.pc = "executing" /\ j \in Jobs /\ j # 0 /\ worker \in WorkerRec
  BY Typed DEF Sound, Places, Holds, SendReport
<1>2. worker'.job = j /\ worker'.lease = worker.lease
  BY <1>1 DEF SendReport, WorkerRec
<1>3. /\ link'.kind = "report" /\ link'.state = local[j].state /\ link'.job = j
      /\ link'.lease = worker.lease /\ link'.pages = local[j].cursor
  BY DEF SendReport, Ask, Report
<1>4. /\ local[j].state # "absent" /\ local[j].cursor <= stored[j]
      /\ local[j].state = "succeeded" => local[j].cursor = LastPage
      /\ local[j].state \in Canceling /\ worker.lease = cp[j].lease =>
           cp[j].state \in Over
  BY <1>1 DEF Honest, Delivered, Adopted, Asked
<1>5. cp' = cp /\ stored' = stored
  BY DEF SendReport, cpVars
<1>6. Truthful(link)'
  BY <1>3, <1>4, <1>5 DEF Truthful
<1> SUFFICES StoreKept
  BY StoreKeptGood
<1> QED  BY <1>2, <1>3, <1>6 DEF StoreKept, SendReport, cpVars

LEMMA FailureGood ==
  ASSUME Sound, Honest, RequestFails \/ Crash \/ Tick
  PROVE  Good
<1>1. CASE RequestFails
  <2>1. \/ worker'.job = 0 /\ worker.job = 0
        \/ worker'.job = worker.job /\ worker'.lease = worker.lease
    BY <1>1, AbandonHolds DEF RequestFails
  <2>2. link'.kind = "none" /\ late' \in {late, link}
    BY <1>1, HungUp, LateKnown DEF RequestFails
  <2> SUFFICES StoreKept
    BY StoreKeptGood
  <2> QED  BY <1>1, <2>1, <2>2 DEF StoreKept, RequestFails, cpVars
<1>2. CASE Crash
  <2>1. worker'.job = 0 /\ link'.kind = "none" /\ late' \in {late, link}
    BY <1>2, FreeHolds, HungUp, LateKnown DEF Crash
  <2> SUFFICES StoreKept
    BY StoreKeptGood
  <2> QED  BY <1>2, <2>1 DEF StoreKept, Crash, cpVars
<1>3. CASE Tick
  <2>1. StoreKept
    BY <1>3 DEF StoreKept, Tick
  <2> QED  BY <2>1, StoreKeptGood
<1> QED  BY <1>1, <1>2, <1>3

-----------------------------------------------------------------------------
(* Steps that write the worker's Store, or the destination.                *)

\* The record q, of generation g, takes the place of the one of job j.
StoreMoves(j, q, g) ==
  /\ UNCHANGED <<cp, published, approved, late>>
  /\ local' = [local EXCEPT ![j] = q]
  /\ localGen' = [localGen EXCEPT ![j] = g]
  /\ stored' \in [Jobs -> 0..LastPage]
  /\ \A k \in Jobs : stored[k] <= stored'[k]
  /\ q.cursor <= stored'[j]
  /\ q.exhausted \/ q.state = "succeeded" => q.cursor = LastPage
  /\ g <= cp[j].gen
  /\ g = cp[j].gen /\ q.state \in Canceling => cp[j].state \in Over
  /\ worker'.job # 0 =>
       /\ worker'.job = j /\ q.state # "absent"
       /\ cp[j].lease = worker'.lease => g = cp[j].gen
  /\ \/ link'.kind = "none"
     \/ link' = link /\ worker'.job = worker.job /\ (worker.job = 0 \/ g = localGen[j])
  /\ engine' = "acknowledged" => worker'.job = j /\ q.cursor < stored'[j]

LEMMA StoreMovesHonest ==
  ASSUME Sound, Honest, NEW j \in Jobs, NEW q \in JobType(LastPage),
         NEW g \in 0..MaxResumes, StoreMoves(j, q, g)
  PROVE  Honest'
<1>1. /\ TypeOK /\ Messages
      /\ cp \in [Jobs -> CPRec] /\ local \in [Jobs -> JobType(LastPage)]
      /\ localGen \in [Jobs -> 0..MaxResumes] /\ stored \in [Jobs -> 0..LastPage]
  BY Typed DEF Sound, TypeOK
<1>2. /\ local'[j] = q /\ localGen'[j] = g
      /\ \A k \in Jobs : k # j => local'[k] = local[k] /\ localGen'[k] = localGen[k]
  BY <1>1 DEF StoreMoves
<1>3. \A k \in Jobs : \A n \in Int : n <= stored[k] => n <= stored'[k]
  <2>1. \A k \in Jobs : stored[k] \in Int /\ stored'[k] \in Int /\ stored[k] <= stored'[k]
    BY <1>1 DEF StoreMoves
  <2> QED  BY <2>1
<1>5. Delivered'
  <2>1. ASSUME NEW k \in Jobs
        PROVE  /\ cp[k].pages <= stored'[k] /\ local'[k].cursor <= stored'[k]
               /\ local'[k].exhausted => local'[k].cursor = LastPage
               /\ local'[k].state = "succeeded" => local'[k].cursor = LastPage
    <3>1. cp[k].pages \in Int /\ local[k].cursor \in Int
      BY <1>1 DEF CPRec, JobType
    <3>2. /\ cp[k].pages <= stored[k] /\ local[k].cursor <= stored[k]
          /\ local[k].exhausted => local[k].cursor = LastPage
          /\ local[k].state = "succeeded" => local[k].cursor = LastPage
      BY DEF Honest, Delivered
    <3>3. cp[k].pages <= stored'[k]
      BY <1>3, <3>1, <3>2
    <3>4. CASE k = j
      BY <1>2, <3>3, <3>4 DEF StoreMoves
    <3>5. CASE k # j
      BY <1>2, <1>3, <3>1, <3>2, <3>3, <3>5
    <3> QED  BY <3>4, <3>5
  <2> QED  BY <1>2, <2>1 DEF Delivered, StoreMoves
<1>6. \A r \in Reports : Truthful(r) => r.pages <= stored'[r.job]
  <2>1. \A r \in Reports : r.kind = "report" /\ r.pages \in Int /\ r.job \in Jobs
    BY DEF Reports
  <2> QED  BY <1>3, <2>1 DEF Truthful
<1>7. Truthful(late)'
  BY <1>1, <1>6 DEF Honest, Messages, Truthful, StoreMoves
<1>8. Truthful(link)'
  BY <1>1, <1>6 DEF Honest, Messages, Truthful, StoreMoves
<1>9. Asked'
  <2>1. ASSUME NEW k \in Jobs
        PROVE  /\ localGen'[k] <= cp[k].gen
               /\ localGen'[k] = cp[k].gen /\ local'[k].state \in Canceling =>
                    cp[k].state \in Over
    BY <1>2 DEF Honest, Asked, StoreMoves
  <2>2. link'.kind = "assigned" /\ link'.cancel => cp[link'.job].state \in Over
    BY DEF Honest, Asked, StoreMoves
  <2>3. link'.kind = "accepted" /\ link'.cancel /\ worker'.job # 0
          /\ localGen'[worker'.job] = cp[worker'.job].gen => cp[worker'.job].state \in Over
    BY <1>2 DEF Honest, Asked, StoreMoves
  <2> QED  BY <2>1, <2>2, <2>3 DEF Asked, StoreMoves
<1>10. Adopted'
  BY <1>2 DEF Adopted, StoreMoves
<1> QED  BY <1>5, <1>7, <1>8, <1>9, <1>10 DEF Honest

LEMMA StoreMovesGood ==
  ASSUME Sound, Honest, NEW j \in Jobs, NEW q \in JobType(LastPage),
         NEW g \in 0..MaxResumes, StoreMoves(j, q, g), stored' = stored
  PROVE  Good
<1>1. UNCHANGED Promise!lifecycleVars
  BY DEF Promise!lifecycleVars, StoreMoves
<1> QED  BY <1>1, StoreMovesHonest DEF Good, Steps

\* What is known of the record of any job.
LEMMA RecordKnown ==
  ASSUME Sound, Honest, NEW j \in Jobs
  PROVE  /\ local[j] \in JobType(LastPage) /\ localGen[j] \in 0..MaxResumes
         /\ cp[j] \in CPRec /\ cp[j].gen \in 0..MaxResumes
         /\ local[j].cursor \in 0..LastPage /\ stored[j] \in 0..LastPage
         /\ local[j].cursor <= stored[j] /\ cp[j].pages <= stored[j]
         /\ local[j].exhausted \/ local[j].state = "succeeded" => local[j].cursor = LastPage
         /\ localGen[j] <= cp[j].gen
         /\ localGen[j] = cp[j].gen /\ local[j].state \in Canceling => cp[j].state \in Over
         /\ local' = [local EXCEPT ![j] = local[j]] <=> local' = local
         /\ localGen' = [localGen EXCEPT ![j] = localGen[j]] <=> localGen' = localGen
<1>1. /\ cp \in [Jobs -> CPRec] /\ local \in [Jobs -> JobType(LastPage)]
      /\ localGen \in [Jobs -> 0..MaxResumes] /\ stored \in [Jobs -> 0..LastPage]
  BY Typed DEF Sound, TypeOK
<1>2. /\ local[j] \in JobType(LastPage) /\ localGen[j] \in 0..MaxResumes
      /\ cp[j] \in CPRec /\ stored[j] \in 0..LastPage
  BY <1>1
<1>3. cp[j].gen \in 0..MaxResumes /\ local[j].cursor \in 0..LastPage
  BY <1>2 DEF CPRec, JobType
<1>4. /\ local[j].cursor <= stored[j] /\ cp[j].pages <= stored[j]
      /\ local[j].exhausted \/ local[j].state = "succeeded" => local[j].cursor = LastPage
      /\ localGen[j] <= cp[j].gen
      /\ localGen[j] = cp[j].gen /\ local[j].state \in Canceling => cp[j].state \in Over
  BY DEF Honest, Delivered, Asked
<1>5. /\ [local EXCEPT ![j] = local[j]] = local
      /\ [localGen EXCEPT ![j] = localGen[j]] = localGen
  BY <1>1
<1> QED  BY <1>2, <1>3, <1>4, <1>5

LEMMA StoredStays ==
  ASSUME Sound, stored' = stored
  PROVE  stored' \in [Jobs -> 0..LastPage] /\ \A k \in Jobs : stored[k] <= stored'[k]
BY Typed DEF Sound, TypeOK

LEMMA LoseDataGood ==
  ASSUME Sound, Honest, NEW j \in Jobs, LoseData(j)
  PROVE  Good
<1>1. /\ worker.job = 0 /\ engine = "none"
      /\ stored' \in [Jobs -> 0..LastPage] /\ \A k \in Jobs : stored[k] <= stored'[k]
  BY StoredStays DEF Sound, Places, Runs, Holds, LoseData
<1>2. CASE /\ local' = [local EXCEPT ![j] = Absent]
           /\ localGen' = [localGen EXCEPT ![j] = 0]
  <2>1. /\ Absent \in JobType(LastPage) /\ Absent.cursor = 0 /\ Absent.state = "absent"
        /\ Absent.exhausted = FALSE /\ 0 \in 0..MaxResumes
    BY NewJobType, LeaseAssumption DEF Absent
  <2>2. 0 <= cp[j].gen /\ 0 <= stored'[j]
    BY <1>1, RecordKnown
  <2>3. StoreMoves(j, Absent, 0)
    BY <1>1, <1>2, <2>1, <2>2 DEF StoreMoves, LoseData, cpVars, Canceling, Over
  <2> QED  BY <2>1, <2>3, StoreMovesGood DEF LoseData
<1>3. ASSUME NEW page \in 0..(local[j].cursor - 1),
             local' = [local EXCEPT ![j] = [NewJob EXCEPT !.cursor = page, !.records = page]],
             UNCHANGED localGen
      PROVE  Good
  <2> DEFINE q == [NewJob EXCEPT !.cursor = page, !.records = page]
  <2>1. page \in 0..LastPage /\ page \in Nat /\ page <= stored[j]
    BY RecordKnown, LeaseAssumption
  <2>2. NewJob \in JobType(LastPage) /\ NewJob.state = "queued" /\ NewJob.exhausted = FALSE
    BY NewJobType DEF NewJob, Absent
  <2>3. q \in JobType(LastPage) /\ q.cursor = page /\ q.state = "queued" /\ q.exhausted = FALSE
    BY <2>1, <2>2 DEF JobType
  <2> HIDE DEF q
  <2>4. local' = [local EXCEPT ![j] = q] /\ localGen' = [localGen EXCEPT ![j] = localGen[j]]
    BY <1>3, RecordKnown DEF q
  <2>5. StoreMoves(j, q, localGen[j])
    BY <1>1, <2>1, <2>3, <2>4, RecordKnown DEF StoreMoves, LoseData, cpVars, Canceling, Over
  <2>6. localGen[j] \in 0..MaxResumes
    BY RecordKnown
  <2> QED  BY <2>3, <2>5, <2>6, StoreMovesGood DEF LoseData
<1> QED  BY <1>2, <1>3 DEF LoseData

LEMMA StartGood ==
  ASSUME Sound, Honest, Start
  PROVE  Good
<1>1. /\ UNCHANGED <<cp, published, approved, localGen, engine, link, late, stored>>
      /\ worker'.job = 0 /\ engine = "none"
  BY FreeHolds DEF Start, cpVars, Sound, Places, Runs, Holds
<1>2. ASSUME NEW j \in Jobs
      PROVE  /\ local'[j].cursor = local[j].cursor /\ local'[j].exhausted = local[j].exhausted
             /\ local'[j].state = "succeeded" => local[j].state = "succeeded"
             /\ local'[j].state \in Canceling => local[j].state \in Canceling
  <2>1. local[j] \in JobType(LastPage)
    BY RecordKnown
  <2>2. CASE local[j].state \in Busy
    <3>1. local'[j] = Recovered(local[j])
      BY <2>2 DEF Start
    <3>2. Keeps(local[j], Recovered(local[j]))
      BY <2>1, UpdatesKeep
    <3>3. Recovered(local[j]).state = IF local[j].state = "cancel_requested"
                                      THEN "canceled" ELSE "queued"
      BY <2>1 DEF Recovered, CancelWins, JobType
    <3> QED  BY <3>1, <3>2, <3>3 DEF Keeps, Canceling, Over
  <2>3. CASE local[j].state \notin Busy
    BY <2>3 DEF Start
  <2> QED  BY <2>2, <2>3
<1>3. Truthful(link)' /\ Truthful(late)'
  BY <1>1 DEF Honest, Truthful
<1>4. Delivered'
  <2>1. engine' # "acknowledged"
    BY <1>1
  <2> QED  BY <1>1, <1>2, <2>1 DEF Honest, Delivered
<1>5. Asked' /\ Adopted'
  BY <1>1, <1>2 DEF Honest, Asked, Adopted
<1>6. UNCHANGED Promise!lifecycleVars
  BY <1>1 DEF Promise!lifecycleVars
<1> QED  BY <1>3, <1>4, <1>5, <1>6 DEF Honest, Good, Steps

LEMMA AcceptGood ==
  ASSUME Sound, Honest, Accept
  PROVE  Good
<1> DEFINE j == link.job
           p == Prepared(link)
           runnable == p.state \in {"queued", "retry_wait"}
           canceled == link.cancel /\ runnable
           q == IF canceled THEN CancelAsked(p) ELSE p
<1>1. /\ TypeOK /\ Scanning /\ link \in Assignments /\ link.kind = "assigned"
      /\ Preparable(link)
  BY DEF Sound, Messages, Accept
<1>2. j \in Jobs /\ link.gen \in 0..MaxResumes /\ cp[j].gen = link.gen
  BY <1>1 DEF Assignments, Sound, Assigned
<1>3. /\ p \in JobType(LastPage) /\ p.cursor <= stored[j]
      /\ p.exhausted \/ p.state = "succeeded" => p.cursor = LastPage
      /\ p.state # "absent"
      /\ p.state \in Canceling => cp[j].state \in Over
  <2>1. CASE local[j].state = "absent"
    <3>1. p = NewJob
      BY <2>1 DEF Prepared
    <3>2. 0 <= stored[j] /\ NewJob.exhausted = FALSE
      BY <1>2, RecordKnown DEF NewJob, Absent
    <3> QED  BY <3>1, <3>2, NewJobType DEF Canceling, Over
  <2>2. CASE local[j].state # "absent" /\ localGen[j] < link.gen
    <3>1. p = Resumed(local[j])
      BY <2>2 DEF Prepared
    <3>2. Keeps(local[j], Resumed(local[j])) /\ Resumed(local[j]).state = "queued"
      BY <1>2, RecordKnown, UpdatesKeep DEF Resumed, JobType
    <3>3. p \in JobType(LastPage) /\ p.cursor = local[j].cursor
          /\ p.exhausted = local[j].exhausted /\ p.state = "queued"
      BY <3>1, <3>2 DEF Keeps
    <3> HIDE DEF p
    <3> QED  BY <1>2, <3>3, RecordKnown DEF Canceling, Over
  <2>3. CASE local[j].state # "absent" /\ ~(localGen[j] < link.gen)
    <3>1. p = local[j]
      BY <2>3 DEF Prepared
    <3>2. localGen[j] = cp[j].gen
      BY <1>1, <1>2, <2>3, RecordKnown DEF Preparable
    <3> HIDE DEF p
    <3> QED  BY <1>2, <2>3, <3>1, <3>2, RecordKnown
  <2> QED  BY <2>1, <2>2, <2>3
<1>4. /\ q \in JobType(LastPage) /\ q.cursor <= stored[j]
      /\ q.exhausted \/ q.state = "succeeded" => q.cursor = LastPage
      /\ q.state # "absent"
      /\ q.state \in Canceling => cp[j].state \in Over
  <2>1. CASE canceled
    <3>1. q = CancelAsked(p) /\ Keeps(p, CancelAsked(p))
      BY <1>3, <2>1, UpdatesKeep
    <3>2. CancelAsked(p).state = "canceled"
      BY <1>3, <2>1 DEF CancelAsked, JobType, Busy
    <3>3. cp[j].state \in Over
      BY <1>1, <2>1 DEF Honest, Asked
    <3>4. /\ q \in JobType(LastPage) /\ q.cursor = p.cursor
          /\ q.exhausted = p.exhausted /\ q.state = "canceled"
      BY <3>1, <3>2 DEF Keeps
    <3> HIDE DEF q, p
    <3> QED  BY <1>3, <3>3, <3>4
  <2>2. CASE ~canceled
    BY <1>3, <2>2
  <2> QED  BY <2>1, <2>2
<1>5. /\ local' = [local EXCEPT ![j] = q] /\ localGen' = [localGen EXCEPT ![j] = link.gen]
      /\ engine' # "acknowledged"
      /\ UNCHANGED <<cp, published, approved, late, stored>>
  BY DEF Accept, cpVars
<1>6. worker'.job = j /\ link'.kind = "none"
  BY HungUp DEF Accept, Free
<1> HIDE DEF q
<1>7. StoreMoves(j, q, link.gen)
  <2>1. stored' \in [Jobs -> 0..LastPage] /\ \A k \in Jobs : stored[k] <= stored'[k]
    BY <1>5, StoredStays
  <2>2. link.gen <= cp[j].gen
    BY <1>2
  <2> QED  BY <1>2, <1>4, <1>5, <1>6, <2>1, <2>2 DEF StoreMoves
<1> QED  BY <1>2, <1>4, <1>5, <1>7, StoreMovesGood

LEMMA ReportAnsweredGood ==
  ASSUME Sound, Honest, ReportAnswered
  PROVE  Good
<1> DEFINE j == worker.job
           conflict == link.cancel /\ ~Cancelable(local[j])
           cancels == link.cancel /\ ~worker.final /\ ~conflict
           q == IF cancels THEN CancelAsked(local[j]) ELSE local[j]
<1>1. /\ TypeOK /\ j # 0 /\ j \in Jobs /\ worker.pc = "reporting"
      /\ link.kind = "accepted" /\ worker \in WorkerRec
  BY Typed DEF Sound, Places, Holds, ReportAnswered
<1>2. /\ local[j] \in JobType(LastPage) /\ local[j].state # "absent"
      /\ localGen[j] \in 0..MaxResumes
      /\ cp[j].lease = worker.lease => localGen[j] = cp[j].gen
  BY <1>1, RecordKnown DEF Honest, Adopted
<1>3. /\ q \in JobType(LastPage) /\ q.cursor = local[j].cursor
      /\ q.exhausted = local[j].exhausted
      /\ q.state = "succeeded" => local[j].state = "succeeded"
      /\ q.state # "absent"
      /\ q.state \in Canceling => local[j].state \in Canceling \/ link.cancel
  <2>1. CASE cancels
    <3>1. q = CancelAsked(local[j]) /\ Keeps(local[j], CancelAsked(local[j]))
      BY <1>2, <2>1, UpdatesKeep
    <3>2. CancelAsked(local[j]).state \in {"cancel_requested", "canceled"}
      BY <1>2 DEF CancelAsked, JobType
    <3> QED  BY <2>1, <3>1, <3>2 DEF Keeps
  <2>2. CASE ~cancels
    BY <1>2, <2>2
  <2> QED  BY <2>1, <2>2
<1>4. /\ local' = [local EXCEPT ![j] = q]
      /\ localGen' = [localGen EXCEPT ![j] = localGen[j]]
  <2>1. local' = IF cancels THEN [local EXCEPT ![j] = CancelAsked(local[j])] ELSE local
    BY DEF ReportAnswered
  <2>2. localGen' = localGen
    BY DEF ReportAnswered
  <2>3. CASE cancels
    BY <1>1, <2>1, <2>2, <2>3, RecordKnown
  <2>4. CASE ~cancels
    BY <1>1, <2>1, <2>2, <2>4, RecordKnown
  <2> QED  BY <2>3, <2>4
<1>5. /\ UNCHANGED <<cp, published, approved, late, stored, engine>>
      /\ worker'.job = j /\ worker'.lease = worker.lease /\ link'.kind = "none"
  BY <1>1, HungUp DEF ReportAnswered, cpVars, WorkerRec
<1> HIDE DEF q
<1>6. q.state \in Canceling /\ localGen[j] = cp[j].gen => cp[j].state \in Over
  <2>1. link.cancel /\ localGen[j] = cp[j].gen => cp[j].state \in Over
    BY <1>1 DEF Honest, Asked
  <2> QED  BY <1>1, <1>3, <2>1, RecordKnown
<1>7. StoreMoves(j, q, localGen[j])
  <2>1. stored' \in [Jobs -> 0..LastPage] /\ \A k \in Jobs : stored[k] <= stored'[k]
    BY <1>5, StoredStays
  <2>2. /\ q.cursor <= stored[j] /\ localGen[j] <= cp[j].gen
        /\ q.exhausted \/ q.state = "succeeded" => q.cursor = LastPage
    BY <1>1, <1>3, RecordKnown
  <2>3. engine' = "acknowledged" => q.cursor < stored'[j]
    BY <1>3, <1>5 DEF Honest, Delivered
  <2> QED  BY <1>2, <1>3, <1>4, <1>5, <1>6, <2>1, <2>2, <2>3 DEF StoreMoves
<1> QED  BY <1>1, <1>2, <1>3, <1>5, <1>7, StoreMovesGood

\* The engine moves the record q of its job.
EngineMoves(q) ==
  /\ engine # "none"
  /\ local' = [local EXCEPT ![worker.job] = q]
  /\ UNCHANGED <<cpVars, approved, localGen, worker, timer, link, asked, late,
                 faults, resumes>>
  /\ stored' \in [Jobs -> 0..LastPage]
  /\ \A k \in Jobs : stored[k] <= stored'[k]
  /\ q.cursor <= stored'[worker.job]
  /\ q.exhausted \/ q.state = "succeeded" => q.cursor = LastPage
  /\ q.state # "absent"
  /\ q.state \in Canceling => local[worker.job].state \in Canceling
  /\ engine' = "acknowledged" => q.cursor < stored'[worker.job]

LEMMA EngineMovesHonest ==
  ASSUME Sound, Honest, NEW q \in JobType(LastPage), EngineMoves(q)
  PROVE  Honest'
<1> DEFINE j == worker.job
<1>1. j \in Jobs /\ localGen[j] \in 0..MaxResumes /\ localGen[j] = cp[j].gen
      /\ localGen[j] <= cp[j].gen
  BY EngineJob, RecordKnown DEF EngineMoves, Sound, Leased
<1>2. localGen' = [localGen EXCEPT ![j] = localGen[j]]
  BY <1>1, RecordKnown DEF EngineMoves
<1>3. local[j].state \in Canceling => cp[j].state \in Over
  BY <1>1, RecordKnown
<1>4. StoreMoves(j, q, localGen[j])
  BY <1>1, <1>2, <1>3 DEF StoreMoves, EngineMoves, cpVars
<1> QED  BY <1>1, <1>4, StoreMovesHonest

LEMMA EngineMovesGood ==
  ASSUME Sound, Honest, NEW q \in JobType(LastPage), EngineMoves(q), stored' = stored
  PROVE  Good
<1>1. UNCHANGED Promise!lifecycleVars
  BY DEF Promise!lifecycleVars, EngineMoves, cpVars
<1> QED  BY <1>1, EngineMovesHonest DEF Good, Steps

LEMMA EngineStartGood ==
  ASSUME Sound, Honest, EngineStart
  PROVE  Good
<1> DEFINE j == worker.job
           q == Started(local[j])
<1>1. /\ j \in Jobs /\ local[j] \in JobType(LastPage) /\ engine # "none"
      /\ stored' = stored /\ engine' = "working"
  BY EngineJob DEF EngineStart, SetLocal
<1>2. Keeps(local[j], q) /\ q.state = "running"
  BY <1>1, UpdatesKeep DEF Started, JobType
<1>3. /\ q \in JobType(LastPage) /\ q.cursor = local[j].cursor
      /\ q.exhausted = local[j].exhausted
  BY <1>2 DEF Keeps
<1>4. /\ local' = [local EXCEPT ![j] = q]
      /\ UNCHANGED <<cpVars, approved, localGen, worker, timer, link, asked, late,
                     faults, resumes>>
  BY DEF EngineStart, SetLocal
<1> HIDE DEF q
<1>5. EngineMoves(q)
  BY <1>1, <1>2, <1>3, <1>4, RecordKnown, StoredStays DEF EngineMoves, Canceling, Over
<1> QED  BY <1>1, <1>3, <1>5, EngineMovesGood

\* A page reaches the destination of a job that the control plane has as being
\* executed.
LEMMA DeliverySteps ==
  ASSUME NEW k \in Jobs, Promise!Deliver(k)
  PROVE  Promise!Next
  BY DEF Promise!Next

LEMMA EngineWriteGood ==
  ASSUME Sound, Honest, EngineWrite
  PROVE  Good
<1> DEFINE j == worker.job
           page == local[j].cursor + 1
           n == IF stored[j] < page THEN page ELSE stored[j]
<1>1. /\ j \in Jobs /\ local[j] \in JobType(LastPage) /\ engine # "none"
      /\ local[j].cursor \in 0..LastPage /\ local[j].cursor < LastPage
      /\ local[j].state \in Busy
  BY EngineJob DEF EngineWrite, Sound, Runs
<1>2. stored \in [Jobs -> 0..LastPage] /\ stored[j] \in 0..LastPage /\ LastPage \in Int
  BY <1>1, RecordKnown, LeaseAssumption DEF Sound, TypeOK
<1>3. n \in 0..LastPage /\ stored[j] <= n /\ page <= n
  BY <1>1, <1>2
<1>4. stored' = [stored EXCEPT ![j] = n]
  BY DEF EngineWrite
<1>5. local[j].cursor <= n /\ local[j].cursor < n
  BY <1>1, <1>2, <1>3
<1> HIDE DEF n
<1>6. /\ stored' \in [Jobs -> 0..LastPage] /\ stored'[j] = n
      /\ \A k \in Jobs : stored[k] <= stored'[k]
  BY <1>1, <1>2, <1>3, <1>4
<1>7. /\ UNCHANGED <<cpVars, approved, localGen, worker, timer, link, asked, late,
                     faults, resumes>>
      /\ local' = [local EXCEPT ![j] = local[j]]
  BY <1>1, RecordKnown DEF EngineWrite
<1>8. EngineMoves(local[j])
  BY <1>1, <1>5, <1>6, <1>7, RecordKnown DEF EngineMoves, Busy
<1>9. Honest'
  BY <1>1, <1>8, EngineMovesHonest
<1>10. ASSUME NEW k \in Jobs, k = j
       PROVE  Promise!Deliver(k)
  <2> DEFINE pages == [i \in Jobs |-> 1..stored[i]]
  <2>1. cp[j].state \in Busy
    BY <1>1 DEF Sound, Leased
  <2>2. 1..n \in SUBSET (1..LastPage) /\ 1..n = (1..stored[j]) \cup (1..n)
    BY <1>2, <1>3
  <2>3. [i \in Jobs |-> 1..stored'[i]] = [pages EXCEPT ![j] = pages[j] \cup (1..n)]
    <3>1. \A i \in Jobs : i # j => stored'[i] = stored[i]
      BY <1>2, <1>4
    <3> QED  BY <1>1, <1>6, <2>2, <3>1
  <2> HIDE DEF pages
  <2>4. \E P \in SUBSET (1..LastPage) :
          [i \in Jobs |-> 1..stored'[i]] = [pages EXCEPT ![j] = pages[j] \cup P]
    BY <2>2, <2>3
  <2>5. UNCHANGED cp
    BY <1>7 DEF cpVars
  <2> QED  BY <1>1, <1>10, <2>1, <2>4, <2>5 DEF Promise!Deliver, Promise!Executing, Busy, pages
<1>11. Promise!Next
  <2>1. PICK k \in Jobs : k = j
    BY <1>1
  <2> QED  BY <1>10, <2>1, DeliverySteps
<1> QED  BY <1>9, <1>11 DEF Good, Steps

LEMMA EngineCheckpointGood ==
  ASSUME Sound, Sound', Honest, EngineCheckpoint
  PROVE  Good
<1> DEFINE j == worker.job
           r == local[j]
           page == r.cursor + 1
           q == Checkpointed(r, page, 1, page = LastPage)
<1>1. /\ j \in Jobs /\ r \in JobType(LastPage) /\ engine # "none"
      /\ r.cursor \in 0..LastPage /\ r.cursor < stored[j] /\ r.state \in Busy
      /\ stored[j] \in 0..LastPage
  <2>1. engine = "acknowledged"
    BY DEF EngineCheckpoint
  <2> QED  BY <2>1, EngineJob, RecordKnown DEF Sound, Runs, Honest, Delivered
<1>2. /\ local' = [local EXCEPT ![j] = q] /\ stored' = stored
      /\ engine' # "acknowledged"
      /\ UNCHANGED <<cpVars, approved, localGen, worker, timer, link, asked, late,
                     faults, resumes>>
  BY DEF EngineCheckpoint, SetLocal
<1>3. q \in JobType(LastPage)
  <2>1. local' \in [Jobs -> JobType(LastPage)] /\ local \in [Jobs -> JobType(LastPage)]
    BY Typed DEF Sound, TypeOK
  <2>2. local'[j] = q
    BY <1>1, <1>2, <2>1
  <2> QED  BY <1>1, <2>1, <2>2
<1>4. /\ q.cursor = page
      /\ q.exhausted => page = LastPage
      /\ q.state = CancelWins(r, IF page = LastPage THEN "succeeded" ELSE r.state)
  BY <1>1 DEF Checkpointed, JobType
<1>5. /\ q.state # "absent" /\ (q.state = "succeeded" => page = LastPage)
      /\ q.state \in Canceling => r.state \in Canceling
  BY <1>1, <1>4 DEF CancelWins, Canceling, Over, Busy
<1>6. page <= stored[j]
  BY <1>1
<1> HIDE DEF q, page
<1>7. EngineMoves(q)
  BY <1>1, <1>2, <1>4, <1>5, <1>6, StoredStays DEF EngineMoves
<1> QED  BY <1>2, <1>3, <1>7, EngineMovesGood

LEMMA EngineEndGood ==
  ASSUME Sound, Honest, EngineEnd
  PROVE  Good
<1> DEFINE j == worker.job
           r == local[j]
<1>1. /\ j \in Jobs /\ r \in JobType(LastPage) /\ engine # "none" /\ r.state \in Busy
      /\ r.cursor <= stored[j] /\ (r.exhausted => r.cursor = LastPage)
  <2>1. engine = "working"
    BY DEF EngineEnd
  <2> QED  BY <2>1, EngineJob, RecordKnown DEF Sound, Runs
<1>2. /\ \A v \in States : Keeps(r, Finished(r, v)) /\ Finished(r, v).state = CancelWins(r, v)
      /\ Keeps(r, RestartScheduled(r))
      /\ RestartScheduled(r).state = CancelWins(r, "retry_wait")
  <2>1. \A v \in States : Keeps(r, Finished(r, v))
    BY <1>1, UpdatesKeep
  <2>2. Keeps(r, RestartScheduled(r))
    BY <1>1, UpdatesKeep
  <2>3. \A v \in States : Finished(r, v).state = CancelWins(r, v)
    BY <1>1 DEF Finished, JobType
  <2>4. RestartScheduled(r).state = CancelWins(r, "retry_wait")
    <3>1. CASE r.state = "cancel_requested"
      BY <1>1, <3>1 DEF RestartScheduled, CancelWins, JobType
    <3>2. CASE r.state # "cancel_requested"
      BY <1>1, <3>2 DEF RestartScheduled, CancelWins, JobType
    <3> QED  BY <3>1, <3>2
  <2> QED  BY <2>1, <2>2, <2>3, <2>4
<1> DEFINE Ended(q) == /\ Keeps(r, q) /\ SetLocal(q, "none") /\ q.state # "absent"
                       /\ q.state = "succeeded" => r.exhausted
                       /\ q.state \in Canceling => r.state \in Canceling
<1>3. ASSUME NEW q, NEW v \in {"queued", "succeeded", "failed", "retry_wait"},
             Keeps(r, q), SetLocal(q, "none"), q.state = CancelWins(r, v),
             v = "succeeded" => r.exhausted
      PROVE  \E p : Ended(p)
  <2>1. /\ q.state # "absent"
        /\ q.state = "succeeded" => r.exhausted
        /\ q.state \in Canceling => r.state \in Canceling
    BY <1>3 DEF CancelWins, Canceling, Over
  <2>2. Ended(q)
    BY <1>3, <2>1
  <2> QED  BY <2>2
<1>4. PICK q : Ended(q)
  <2>1. {"queued", "succeeded", "failed"} \subseteq States
    BY DEF States
  <2> HIDE DEF Ended
  <2>2. CASE SetLocal(Finished(r, "queued"), "none")
    BY <1>2, <1>3, <2>1, <2>2
  <2>3. CASE r.exhausted /\ SetLocal(Finished(r, "succeeded"), "none")
    BY <1>2, <1>3, <2>1, <2>3
  <2>4. CASE SetLocal(Finished(r, "failed"), "none")
    BY <1>2, <1>3, <2>1, <2>4
  <2>5. CASE SetLocal(RestartScheduled(r), "none")
    BY <1>2, <1>3, <2>5
  <2> QED  BY <2>2, <2>3, <2>4, <2>5 DEF EngineEnd
<1>5. stored' = stored
  BY DEF EngineEnd
<1>6. q \in JobType(LastPage) /\ q.cursor = r.cursor /\ q.exhausted = r.exhausted
  BY <1>4 DEF Keeps
<1>7. /\ local' = [local EXCEPT ![j] = q] /\ engine' = "none"
      /\ UNCHANGED <<cpVars, approved, localGen, worker, timer, link, asked, late,
                     faults, resumes>>
  BY <1>4 DEF SetLocal
<1>8. EngineMoves(q)
  BY <1>1, <1>4, <1>5, <1>6, <1>7, StoredStays DEF EngineMoves
<1> QED  BY <1>5, <1>6, <1>8, EngineMovesGood

-----------------------------------------------------------------------------
(* The theorem.                                                            *)

LEMMA InitHonest ==
  ASSUME Init
  PROVE  Honest /\ Promise!Init
<1>1. Sound /\ LastPage \in Nat \ {0}
  BY InitSound, LeaseAssumption
<1>2. /\ worker.job = 0 /\ engine = "none"
      /\ link.kind = "none" /\ late.kind = "none"
      /\ stored = [j \in Jobs |-> 0]
  BY FreeHolds DEF Init, Quiet
<1>3. \A j \in Jobs : /\ cp[j].state = "absent" /\ cp[j].pages = 0 /\ cp[j].gen = 0
                      /\ local[j].state = "absent" /\ local[j].cursor = 0
                      /\ local[j].exhausted = FALSE /\ localGen[j] = 0 /\ stored[j] = 0
  BY DEF Init, CPAbsent, Absent
<1>4. Delivered
  BY <1>2, <1>3 DEF Delivered
<1>5. Truthful(link) /\ Truthful(late) /\ Asked /\ Adopted
  BY <1>2, <1>3 DEF Truthful, Asked, Adopted, Canceling, Over
<1>6. Promise!Init
  <2>1. [j \in Jobs |-> 1..stored[j]] \in [Jobs -> SUBSET (1..LastPage)]
    BY <1>1, <1>3
  <2>2. /\ [j \in Jobs |-> cp[j].state] = [j \in Jobs |-> "absent"]
        /\ [j \in Jobs |-> cp[j].pages] = [j \in Jobs |-> 0]
    BY <1>3
  <2> QED  BY <2>1, <2>2 DEF Promise!Init
<1> QED  BY <1>4, <1>5, <1>6 DEF Honest

\* The worker starts again with other approved pairs; the owner sees nothing.
LEMMA ChangePolicyGood ==
  ASSUME Sound, Honest, NEW j \in Jobs, ChangePolicy(j)
  PROVE  Good
<1>1. StoreKept
  BY DEF StoreKept, ChangePolicy, cpVars
<1> QED  BY <1>1, StoreKeptGood

LEMMA StepGood ==
  ASSUME Sound, Sound', Honest, [Next]_vars
  PROVE  Good
<1>1. ASSUME NEW j \in Jobs, Submit(j) \/ Cancel(j) \/ Resume(j)
      PROVE  Good
  BY <1>1, SubmitGood, CancelGood, ResumeGood
<1>2. CASE Server
  BY <1>2, ServeClaimGood, ServeReportGood DEF Server
<1>3. CASE ServeLate
  BY <1>3, ServeLateGood
<1>4. CASE Loop
  BY <1>4, StartGood, QuietLoopGood, RejectGood, AcceptGood, SendReportGood,
     ReportAnsweredGood DEF Loop
<1>5. CASE RequestFails \/ Tick \/ Crash
  BY <1>5, FailureGood
<1>6. CASE Engine
  BY <1>6, EngineStartGood, EngineWriteGood, EngineCheckpointGood, EngineEndGood
     DEF Engine
<1>7. ASSUME NEW j \in Jobs, LoseData(j) \/ ChangePolicy(j)
      PROVE  Good
  BY <1>7, LoseDataGood, ChangePolicyGood
<1>8. CASE UNCHANGED vars
  <2>1. StoreKept
    BY <1>8 DEF StoreKept, vars
  <2> QED  BY <2>1, StoreKeptGood
<1> QED  BY <1>1, <1>2, <1>3, <1>4, <1>5, <1>6, <1>7, <1>8 DEF Next

\* Seen from the control plane, every step of the two sides, of the network
\* between them and of their failures is a step of Lifecycle, or none, or the
\* refusal of one job whose pair the worker no longer approves, for any number
\* of jobs, pages, faults and resumes and any change of the worker's policy
\* (worker_jobs.go:58-171).
THEOREM LeaseKeepsAllButRefusals ==
  Spec => KeepsAllButRefusals
<1>1. Init => Honest /\ Promise!Init
  BY InitHonest
<1>2. Sound /\ Sound' /\ Honest /\ [Next]_vars => Good
  BY StepGood
<1>3. Good => Honest' /\ [Promise!Next \/ PolicyRefuses]_(Promise!lifecycleVars)
  BY DEF Good, Steps
<1> QED  BY <1>1, <1>2, <1>3, LeaseSound, PTL DEF Spec, KeepsAllButRefusals

-----------------------------------------------------------------------------
(* A policy that stays as it is.                                           *)

\* The worker published what it approves before there was a job.
Approved ==
  /\ approved = Jobs /\ published \in {{}, Jobs}
  /\ \A j \in Jobs : cp[j].state # "absent" => published = Jobs

\* Pairs are published as they are approved, and jobs are submitted for those.
Publishes ==
  /\ approved' = approved /\ published' \in {published, approved}
  /\ \A j \in Jobs :
       cp'[j].state # "absent" => cp[j].state # "absent" \/ j \in published

LEMMA PublishesApproved ==
  ASSUME Approved, Publishes
  PROVE  Approved'
BY DEF Approved, Publishes

LEMMA RecordsPublish ==
  ASSUME Sound, NEW j \in Jobs, NEW new, SetCP(j, new),
         cp[j].state # "absent" \/ j \in published,
         UNCHANGED <<approved, published>>
  PROVE  Publishes
<1>1. cp \in [Jobs -> CPRec]
  BY Typed DEF Sound
<1> QED  BY <1>1 DEF Publishes, SetCP

LEMMA OwnerPublishes ==
  ASSUME Sound, NEW j \in Jobs, Submit(j) \/ Cancel(j) \/ Resume(j)
  PROVE  Publishes
<1>1. CASE Submit(j)
  BY <1>1, RecordsPublish DEF Submit, workerVars
<1>2. CASE Cancel(j)
  BY <1>2, RecordsPublish DEF Cancel, Cancelable, Busy, workerVars
<1>3. CASE Resume(j)
  BY <1>3, RecordsPublish DEF Resume, Resumable, workerVars
<1> QED  BY <1>1, <1>2, <1>3

LEMMA PickedPublishes ==
  ASSUME Sound, NEW due, NEW j \in Jobs, Picked(j, due),
         LeasePicked(j) \/ RefusePicked(j), UNCHANGED <<approved, published>>
  PROVE  Publishes
<1>1. cp[j].state # "absent"
  BY DEF Picked, Claimable, Busy
<1> QED  BY <1>1, RecordsPublish DEF LeasePicked, RefusePicked

LEMMA ReportPublishes ==
  ASSUME Sound, NEW r, r \in Reports, Acceptable(r), ReportWorker(r),
         UNCHANGED <<approved, published>>
  PROVE  Publishes
<1>1. r.job \in Jobs
  BY DEF Reports
<1>2. cp[r.job].state # "absent"
  BY DEF Acceptable, Busy
<1> QED  BY <1>1, <1>2, RecordsPublish DEF ReportWorker

\* Every step but a change of policy.
LEMMA StepPublishes ==
  ASSUME Sound, ~PolicyMayChange, [Next]_vars
  PROVE  Publishes
<1> USE DEF workerVars, cpVars
<1>1. ASSUME NEW j \in Jobs, Submit(j) \/ Cancel(j) \/ Resume(j)
      PROVE  Publishes
  BY <1>1, OwnerPublishes
<1>2. CASE UNCHANGED <<cp, approved, published>>
  BY <1>2 DEF Publishes
<1>3. CASE ServeClaim
  BY <1>2, <1>3, PickedPublishes DEF ServeClaim
<1>4. CASE ServeReport
  BY <1>2, <1>4, ReportPublishes DEF ServeReport, Sound, Messages
<1>5. CASE ServeLate
  BY <1>2, <1>5, PickedPublishes, ReportPublishes DEF ServeLate, Sound, Messages
<1>6. CASE Publish
  BY <1>6 DEF Publish, Publishes
<1>7. CASE Loop /\ ~Publish
  BY <1>2, <1>7 DEF Loop, Start, Claim, NothingToDo, Reject, Accept, SendReport,
     ReportAnswered, Refused, TimerFires, Join
<1>8. CASE RequestFails \/ Tick \/ Crash
  BY <1>2, <1>8 DEF RequestFails, Tick, Crash
<1>9. CASE Engine
  BY <1>2, <1>9 DEF Engine, EngineStart, EngineWrite, EngineCheckpoint, EngineEnd,
     SetLocal
<1>10. ASSUME NEW j \in Jobs, LoseData(j) \/ ChangePolicy(j)
       PROVE  Publishes
  BY <1>2, <1>10 DEF LoseData, ChangePolicy
<1>11. CASE UNCHANGED vars
  BY <1>2, <1>11 DEF vars
<1> QED  BY <1>1, <1>3, <1>4, <1>5, <1>6, <1>7, <1>8, <1>9, <1>10, <1>11
         DEF Next, Server

\* A job is never refused while its pair stays approved.
LEMMA NoneRefused ==
  ASSUME Approved
  PROVE  ~PolicyRefuses
BY DEF Approved, PolicyRefuses, Disapproved

\* Seen from the control plane, a worker's transfer keeps the promise of
\* Lifecycle while the worker's policy stays as it is: there is then no
\* refusal (worker_jobs.go:67-74,92-171).
THEOREM LeaseKeepsPromise ==
  ASSUME ~PolicyMayChange
  PROVE  Spec => KeepsPromise
<1>1. Init => Approved
  BY DEF Init, Approved, CPAbsent
<1>2. Sound /\ Approved /\ [Next]_vars => Approved'
  BY StepPublishes, PublishesApproved
<1>3. Approved /\ [Promise!Next \/ PolicyRefuses]_(Promise!lifecycleVars)
        => [Promise!Next]_(Promise!lifecycleVars)
  BY NoneRefused
<1> QED  BY <1>1, <1>2, <1>3, LeaseSound, LeaseKeepsAllButRefusals, PTL
         DEF Spec, KeepsPromise, KeepsAllButRefusals, Promise!Spec
=============================================================================
