------------------------------- MODULE Journal -------------------------------
(***************************************************************************)
(* The journal under the Store of control/store.go: one line per job       *)
(* transition, chained by hashes, written and then fsynced while the       *)
(* Store's mutex is held; replay when the Store is opened; and the         *)
(* deduplication of submissions by their idempotency key.                  *)
(*                                                                         *)
(* The process may be killed at any point.  The host may go down too, and  *)
(* what was written but not fsynced is then lost from some line on, one    *)
(* line of it possibly in part.                                            *)
(*                                                                         *)
(* A line's hash stands for itself, different for each line that was ever  *)
(* written.  Keys stands for the idempotency keys of one owner, and Specs  *)
(* for what a submission asks for.  Version counts the updates of a job.   *)
(*                                                                         *)
(* An operator X_Faulty... is X with a plausible mistake, never part of    *)
(* Next: it shows that a property below would notice the mistake.          *)
(***************************************************************************)
EXTENDS Integers, Sequences

CONSTANTS
  NumJobs,    \* bound on the identifiers that Create draws
  Keys,       \* idempotency keys
  Specs,      \* what submissions ask for
  MaxLines    \* bound on the lines ever written

Jobs == 1..NumJobs

ASSUME JournalAssumption ==
  /\ NumJobs \in Nat \ {0}
  /\ MaxLines \in Nat

VARIABLES
  file,     \* the complete lines of journal.jsonl, as readers see them
  torn,     \* behind them stands a part of a line
  synced,   \* file[1..synced] is on the medium
  up,       \* a process has the Store open
  jobs,     \* Store.jobs
  last,     \* Store.sequence and Store.hash
  poison,   \* Store.poison is set
  writing,  \* the line between Write and Sync, if any
  clock,    \* lines ever written, to draw hashes from
  acked,    \* hashes of the lines whose append reported success
  answered, \* what submitters were answered: key, spec and job
  lost      \* the host went down at least once

vars == <<file, torn, synced, up, jobs, last, poison, writing, clock, acked, answered, lost>>

Record == [key : Keys, spec : Specs, version : 0..MaxLines]
NoJob == [version |-> -1]
Line == [seq : 1..MaxLines, hash : 1..MaxLines, prev : 0..MaxLines,
         job : Jobs, rec : Record]
NoLine == [seq |-> 0]
Start == [seq |-> 0, hash |-> 0]

TypeOK ==
  /\ file \in Seq(Line)
  /\ torn \in BOOLEAN
  /\ synced \in 0..Len(file)
  /\ up \in BOOLEAN
  /\ jobs \in [Jobs -> Record \cup {NoJob}]
  /\ last \in [seq : 0..MaxLines, hash : 0..MaxLines]
  /\ poison \in BOOLEAN
  /\ writing \in Line \cup {NoLine}
  /\ clock \in 0..MaxLines
  /\ acked \subseteq 1..MaxLines
  /\ answered \subseteq [key : Keys, spec : Specs, job : Jobs]
  /\ lost \in BOOLEAN

Init ==
  /\ file = <<>>
  /\ torn = FALSE
  /\ synced = 0
  /\ up = TRUE
  /\ jobs = [j \in Jobs |-> NoJob]
  /\ last = Start
  /\ poison = FALSE
  /\ writing = NoLine
  /\ clock = 0
  /\ acked = {}
  /\ answered = {}
  /\ lost = FALSE

-----------------------------------------------------------------------------
(* Store.append.                                                           *)

\* A line written behind a part of another is one line that parses as none.
Garbled == [seq |-> 0, hash |-> 0, prev |-> 0, job |-> 0]

NewLine(j, rec) ==
  [seq |-> last.seq + 1, hash |-> clock + 1, prev |-> last.hash, job |-> j, rec |-> rec]

Written(line) ==
  /\ file' = Append(file, IF torn THEN Garbled ELSE line)
  /\ torn' = FALSE
  /\ writing' = line
  /\ UNCHANGED poison

\* The write fails, having written nothing or a part of the line.
WriteFails_FaultyGoesOn ==
  /\ torn' \in {torn, TRUE}
  /\ UNCHANGED <<file, writing, poison>>
WriteFails ==
  /\ torn' \in {torn, TRUE}
  /\ poison' = TRUE
  /\ UNCHANGED <<file, writing>>

\* The mutex is free and append would not refuse.
Ready == up /\ writing = NoLine /\ ~poison

Write(j, rec) ==
  /\ Ready
  /\ clock < MaxLines
  /\ clock' = clock + 1
  /\ Written(NewLine(j, rec)) \/ WriteFails
  /\ UNCHANGED <<synced, up, jobs, last, acked, answered, lost>>

Answer(rec, j) == [key |-> rec.key, spec |-> rec.spec, job |-> j]

\* The fsync succeeds: the memory follows, and the caller learns of it.
Synced_FaultyTooEarly == synced
Synced == Len(file)

SyncReturns ==
  /\ synced' = Synced
  /\ jobs' = [jobs EXCEPT ![writing.job] = writing.rec]
  /\ last' = [seq |-> writing.seq, hash |-> writing.hash]
  /\ acked' = acked \cup {writing.hash}
  /\ answered' = IF writing.rec.version = 0
                 THEN answered \cup {Answer(writing.rec, writing.job)} ELSE answered
  /\ UNCHANGED poison

\* The fsync fails: the line may be read back, but it need not last.
SyncFails_FaultyRemembers ==
  /\ poison' = TRUE
  /\ jobs' = [jobs EXCEPT ![writing.job] = writing.rec]
  /\ UNCHANGED <<synced, last, acked, answered>>
SyncFails ==
  /\ poison' = TRUE
  /\ UNCHANGED <<synced, jobs, last, acked, answered>>

Sync ==
  /\ writing # NoLine
  /\ writing' = NoLine
  /\ SyncReturns \/ SyncFails
  /\ UNCHANGED <<file, torn, up, clock, lost>>

-----------------------------------------------------------------------------
(* Store.Create and Store.Update.                                          *)

\* The jobs that the memory knows under an idempotency key.
Known_FaultyFresh(key) ==
  {j \in Jobs : jobs[j] # NoJob /\ jobs[j].key = key /\ jobs[j].version = 0}
Known(key) == {j \in Jobs : jobs[j] # NoJob /\ jobs[j].key = key}

\* Identifiers are random: none that the journal has, or had, comes again.
Fresh == {j \in Jobs : /\ jobs[j] = NoJob
                       /\ \A i \in 1..Len(file) : file[i].job # j
                       /\ \A a \in answered : a.job # j}

Create(key, spec) ==
  /\ Known(key) = {}
  /\ \E j \in Fresh :
       /\ \A k \in Fresh : j <= k
       /\ Write(j, [key |-> key, spec |-> spec, version |-> 0])

\* A repeated submission is answered with the job it made; one that asks for
\* something else under the same key is refused.
Repeat(key, spec) ==
  /\ Ready
  /\ \E j \in Known(key) :
       /\ jobs[j].spec = spec
       /\ answered' = answered \cup {Answer(jobs[j], j)}
  /\ UNCHANGED <<file, torn, synced, up, jobs, last, poison, writing, clock, acked, lost>>

Update(j) ==
  /\ jobs[j] # NoJob
  /\ Write(j, [jobs[j] EXCEPT !.version = @ + 1])

-----------------------------------------------------------------------------
(* The end of a process, of the host, and the next OpenStore.              *)

\* The checks of replay on every complete line.
Verifies(f) ==
  \A i \in 1..Len(f) :
    /\ f[i].seq = i
    /\ f[i].prev = IF i = 1 THEN 0 ELSE f[i - 1].hash

\* The last line of a job stands.
Replayed(f) ==
  [j \in Jobs |->
     LET lines == {i \in 1..Len(f) : f[i].job = j} IN
     IF lines = {} THEN NoJob
     ELSE f[CHOOSE i \in lines : \A k \in lines : k <= i].rec]

End(f) ==
  IF f = <<>> THEN Start ELSE [seq |-> f[Len(f)].seq, hash |-> f[Len(f)].hash]

Down == up' = FALSE /\ writing' = NoLine
        /\ UNCHANGED <<jobs, last, poison, clock, acked, answered>>

\* The process ends; what it wrote is still there to be read.
Kill ==
  /\ up
  /\ Down
  /\ UNCHANGED <<file, torn, synced, lost>>

\* The host ends: of the lines not fsynced some prefix survives.
PowerFails ==
  /\ lost' = TRUE
  /\ Down
  /\ \E n \in synced..Len(file) :
       /\ file' = SubSeq(file, 1, n)
       /\ synced' = n
       /\ torn' \in IF n < Len(file) THEN BOOLEAN ELSE {FALSE, torn}

\* OpenStore: replay, which drops a part of a line and fsyncs only then.
OpenStore ==
  /\ ~up
  /\ Verifies(file)
  /\ up' = TRUE
  /\ jobs' = Replayed(file)
  /\ last' = End(file)
  /\ poison' = FALSE
  /\ torn' = FALSE
  /\ synced' = IF torn THEN Len(file) ELSE synced
  /\ UNCHANGED <<file, writing, clock, acked, answered, lost>>

-----------------------------------------------------------------------------
Next ==
  \/ \E key \in Keys, spec \in Specs : Create(key, spec) \/ Repeat(key, spec)
  \/ \E j \in Jobs : Update(j)
  \/ Sync \/ Kill \/ PowerFails \/ OpenStore

Spec == Init /\ [][Next]_vars

-----------------------------------------------------------------------------
(* Properties.                                                             *)

\* Whatever failed before, the journal passes the integrity check of the next
\* OpenStore: a failed write never spoils the lines behind it
\* (store.go:139-169,193-196).
ChainIntact == Verifies(file)

\* What an append reported as done is on the medium (architecture.md:76).
AppendsLast == \A h \in acked : \E i \in 1..synced : file[i].hash = h

\* A key never names two jobs, in the memory or in what a restart would read,
\* though a submission may be repeated after an append that failed in doubt
\* (store.go:217-226).
OneJobPerKey ==
  LET Distinct(recs) ==
        \A j, k \in Jobs : recs[j] # NoJob /\ recs[k] # NoJob /\ recs[j].key = recs[k].key
                             => j = k
  IN  Distinct(jobs) /\ Distinct(Replayed(file))

\* Whoever repeats a submission is answered with the same job, and that job is
\* there as long as the journal is (docs/api.md:42).
AnswersKept ==
  /\ \A a, b \in answered : a.key = b.key => a.job = b.job
  /\ \A a \in answered :
       LET rec == Replayed(file)[a.job] IN
       rec # NoJob /\ rec.key = a.key /\ rec.spec = a.spec

\* So they are as long as no loss of power takes lines back that were never
\* fsynced, though the processes that answered may end.
AnswersOutlive == ~lost => AnswersKept

\* The lines that an append which returned, or a process that ended, left.
Settled == IF writing = NoLine THEN file ELSE SubSeq(file, 1, Len(file) - 1)

\* While the host stays up, the Store is the one that TransferEngine assumes:
\* what it shows is what it would find, unless it is shut (store.go:171-201).
Contract == INSTANCE StoreContract WITH
  Records <- Record \cup {NoJob},
  job  <- jobs,
  disk <- Replayed(Settled),
  shut <- poison \/ ~up
KeepsContract == Contract!Init /\ [][Contract!Next \/ lost']_(Contract!contractVars)
=============================================================================
