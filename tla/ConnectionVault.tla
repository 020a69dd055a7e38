--------------------------- MODULE ConnectionVault ---------------------------
(***************************************************************************)
(* The saved connections of one account (control/connections.go), the      *)
(* routes that create, rotate and remove them (control/api.go), and the    *)
(* jobs that use them: submission and resume on the way in, the executors' *)
(* looking-up of connections page by page (control/engine.go).             *)
(*                                                                         *)
(* A connection's identifier is derived from its Idempotency-Key, so that  *)
(* a key names one connection for good, removed or not.  Its configuration *)
(* is what its fingerprint depends on; its credentials are numbered in the *)
(* order they were first sent.  The vault's lock makes each call one step; *)
(* a request that makes several calls, or that calls the vault and the     *)
(* Store, takes several.  A change reaches the file first and the memory   *)
(* when the file is safe.  A job has one saved connection here, its other  *)
(* side is the operator's, and its life is cut down to what the vault can  *)
(* tell apart: TransferEngine has the rest.                                *)
(***************************************************************************)
EXTENDS Naturals, FiniteSets

CONSTANTS
  Conns,       \* the account's Idempotency-Keys
  Configs,     \* configurations
  Jobs,
  Handlers,    \* requests that can be under way at a time
  Absent,      \* no connection, no job, no request
  MaxSaved,    \* the bound on an account's connections
  MaxVersions, \* bound on the credentials sent
  MaxFaults    \* bound on failed fsyncs of the directory and on kills

ASSUME VaultAssumption ==
  /\ IsFiniteSet(Conns)
  /\ MaxSaved \in Nat
  /\ MaxVersions \in Nat
  /\ MaxFaults \in Nat

VARIABLES
  up,       \* the process runs
  entries,  \* Connections.entries, with their bindings
  file,     \* the files of the vault's directory
  poison,   \* Connections.poison is set
  job,      \* job[j]: state, connection and fingerprint
  call,     \* call[j]: the binding that the executor of j calls
  handler,  \* handler[h]: what request h has checked and still has to do
  version,  \* credentials sent so far
  told,     \* told[i]: the newest credentials the account was told are saved
  gone,     \* connections that the account was told are removed
  faults

vault == <<up, entries, file, poison>>
account == <<version, told, gone>>
vars == <<vault, job, call, handler, account, faults>>

Versions == 1..MaxVersions
Entry == [config : Configs, secret : Versions, first : Versions]
Job == [state : {"queued", "running", "settled"}, conn : Conns, config : Configs]
Binding == [config : Configs, secret : Versions]
Request == [kind : {"submit"}, job : Jobs, conn : Conns, config : Configs]
           \cup [kind : {"resume"}, job : Jobs] \cup [kind : {"delete"}, conn : Conns]
None == [i \in Conns |-> Absent]

ASSUME AbsentAssumption ==
  /\ Absent \notin Entry /\ Absent \notin Job /\ Absent \notin Binding
  /\ Absent \notin Request

TypeOK ==
  /\ up \in BOOLEAN /\ poison \in BOOLEAN
  /\ entries \in [Conns -> Entry \cup {Absent}]
  /\ file \in [Conns -> Entry \cup {Absent}]
  /\ job \in [Jobs -> Job \cup {Absent}]
  /\ call \in [Jobs -> Binding \cup {Absent}]
  /\ handler \in [Handlers -> Request \cup {Absent}]
  /\ version \in 0..MaxVersions
  /\ told \in [Conns -> 0..MaxVersions] /\ gone \subseteq Conns
  /\ faults \in 0..MaxFaults
  /\ Cardinality({i \in Conns : entries[i] # Absent}) <= MaxSaved

Init ==
  /\ up = TRUE /\ poison = FALSE
  /\ entries = None /\ file = None
  /\ job = [j \in Jobs |-> Absent]
  /\ call = [j \in Jobs |-> Absent]
  /\ handler = [h \in Handlers |-> Absent]
  /\ version = 0
  /\ told = [i \in Conns |-> 0] /\ gone = {}
  /\ faults = 0

Fault == faults < MaxFaults /\ faults' = faults + 1

-----------------------------------------------------------------------------
(* The vault.                                                              *)

\* The process ends; its requests and calls end with it.
Down ==
  /\ up' = FALSE /\ poison' = FALSE
  /\ entries' = None
  /\ call' = [j \in Jobs |-> Absent]
  /\ handler' = [h \in Handlers |-> Absent]

\* A change of a file succeeds, and the memory follows.
Saved_FaultyUnwritten(new) ==
  /\ entries' = new
  /\ UNCHANGED <<up, poison, file, call, faults>>
Saved(new) ==
  /\ file' = new /\ entries' = new
  /\ UNCHANGED <<up, poison, call, faults>>

\* The file changed, but its directory could not be synced, or the process
\* was killed before the answer.  (A change that fails earlier is none.)
SaveFails(new) ==
  Fault /\ file' = new /\ poison' = TRUE /\ UNCHANGED <<up, entries, call>>
SaveKilled(new) == Fault /\ file' = new /\ Down /\ UNCHANGED job

Serving == up /\ ~poison

\* Get, as submissions, resumes and executors use it.
Found(i) == Serving /\ entries[i] # Absent

\* The bound on an account's connections.
Room == Cardinality({k \in Conns : entries[k] # Absent}) < MaxSaved

\* A key that is known answers the request that it came with first.
Repeats(i, f, v) ==
  entries[i] # Absent /\ entries[i].config = f /\ entries[i].first = v

\* The account sends a connection, or sends one again.
Create(i, f, v) ==
  LET new == [file EXCEPT ![i] = [config |-> f, secret |-> v, first |-> v]]
  IN  /\ Serving
      /\ v <= version + 1
      /\ version' = IF v > version THEN v ELSE version
      /\ \/ /\ Repeats(i, f, v)
            /\ told' = [told EXCEPT ![i] = IF @ = 0 THEN v ELSE @]
            /\ UNCHANGED <<vault, call, handler, gone, faults>>
         \/ /\ entries[i] = Absent
            /\ Room
            /\ gone' = gone \ {i}
            /\ \/ Saved(new) /\ told' = [told EXCEPT ![i] = v] /\ UNCHANGED handler
               \/ SaveFails(new) /\ UNCHANGED <<told, handler>>
               \/ SaveKilled(new) /\ UNCHANGED told
      /\ UNCHANGED job

Rotated_FaultyKept(i, v) == file
Rotated(i, v) == [file EXCEPT ![i].secret = v]

\* New credentials for a connection; its configuration stays.
Rotate(i) ==
  LET v == version + 1
  IN  /\ Found(i)
      /\ v \in Versions /\ version' = v
      /\ \/ Saved(Rotated(i, v)) /\ told' = [told EXCEPT ![i] = v] /\ UNCHANGED handler
         \/ SaveFails(Rotated(i, v)) /\ UNCHANGED <<told, handler>>
         \/ SaveKilled(Rotated(i, v)) /\ UNCHANGED told
      /\ UNCHANGED <<job, gone>>

-----------------------------------------------------------------------------
(* Requests of two calls: a check, and what it was made for.               *)

Active(j) == job[j] # Absent /\ job[j].state # "settled"
Becomes(h, r) == handler' = [handler EXCEPT ![h] = r]

\* Submit notes the fingerprint that it finds and creates the job.
BeginSubmit(h, j, i) ==
  /\ handler[h] = Absent
  /\ job[j] = Absent /\ \A k \in Handlers : handler[k] # Absent =>
                            ~(handler[k].kind = "submit" /\ handler[k].job = j)
  /\ Found(i)
  /\ Becomes(h, [kind |-> "submit", job |-> j, conn |-> i,
                 config |-> entries[i].config])
  /\ UNCHANGED <<vault, job, call, account, faults>>

\* A resume is for an account that can see the connection now.
BeginResume(h, j) ==
  /\ handler[h] = Absent
  /\ job[j] # Absent /\ Found(job[j].conn)
  /\ Becomes(h, [kind |-> "resume", job |-> j])
  /\ UNCHANGED <<vault, job, call, account, faults>>

\* A removal is refused while a job of the connection is active.
Unused(i) == \A j \in Jobs : Active(j) => job[j].conn # i
BeginDelete(h, i) ==
  /\ up
  /\ handler[h] = Absent
  /\ Unused(i)
  /\ Becomes(h, [kind |-> "delete", conn |-> i])
  /\ UNCHANGED <<vault, job, call, account, faults>>

Queued(j, i, f) == [job EXCEPT ![j] = [state |-> "queued", conn |-> i, config |-> f]]

FinishSubmit(h) ==
  LET r == handler[h]
  IN  /\ r # Absent /\ r.kind = "submit"
      /\ job' = Queued(r.job, r.conn, r.config)
      /\ Becomes(h, Absent)
      /\ UNCHANGED <<vault, call, account, faults>>

\* Action: a job that is not settled any more is a conflict.
FinishResume(h) ==
  LET r == handler[h]
  IN  /\ r # Absent /\ r.kind = "resume"
      /\ job' = IF Active(r.job) THEN job ELSE [job EXCEPT ![r.job].state = "queued"]
      /\ Becomes(h, Absent)
      /\ UNCHANGED <<vault, call, account, faults>>

\* Connections.Delete: the file, the directory, the memory.  From the moment
\* it may have happened, the account cannot count on the connection.
FinishDelete(h) ==
  LET i == handler[h].conn
      new == [file EXCEPT ![i] = Absent]
  IN  /\ handler[h] # Absent /\ handler[h].kind = "delete"
      /\ \/ /\ ~Found(i)
            /\ Becomes(h, Absent)
            /\ UNCHANGED <<vault, call, told, gone, faults>>
         \/ /\ Found(i)
            /\ told' = [told EXCEPT ![i] = 0]
            /\ \/ Saved(new) /\ gone' = gone \cup {i} /\ Becomes(h, Absent)
               \/ SaveFails(new) /\ UNCHANGED gone /\ Becomes(h, Absent)
               \/ SaveKilled(new) /\ UNCHANGED gone
      /\ UNCHANGED <<job, version>>

-----------------------------------------------------------------------------
(* Jobs.                                                                   *)

InState(j, states) == job[j] # Absent /\ job[j].state \in states
Moves(j, state) == job' = [job EXCEPT ![j].state = state]

Claim(j) ==
  /\ up
  /\ InState(j, {"queued"})
  /\ Moves(j, "running")
  /\ UNCHANGED <<vault, call, handler, account, faults>>

\* Before every page the executor looks its connection up again.
Usable_FaultyAnyConfig(j) == Found(job[j].conn)
Usable(j) == Found(job[j].conn) /\ entries[job[j].conn].config = job[j].config

BeginPage(j) ==
  /\ up
  /\ InState(j, {"running"}) /\ call[j] = Absent
  /\ Usable(j)
  /\ LET e == entries[job[j].conn]
     IN  call' = [call EXCEPT ![j] = [config |-> e.config, secret |-> e.secret]]
  /\ UNCHANGED <<vault, job, handler, account, faults>>

\* A connection that is missing, different or not served fails the job.
Refuse_FaultyWaits(j) ==
  /\ up
  /\ InState(j, {"running"}) /\ call[j] = Absent
  /\ ~Usable(j)
  /\ Moves(j, "queued")
  /\ UNCHANGED <<vault, call, handler, account, faults>>
Refuse(j) ==
  /\ up
  /\ InState(j, {"running"}) /\ call[j] = Absent
  /\ ~Usable(j)
  /\ Moves(j, "settled")
  /\ UNCHANGED <<vault, call, handler, account, faults>>

\* The page is acknowledged, or fails, with or without a restart to come; the
\* binding may have been closed under it.
EndPage(j) ==
  /\ call[j] # Absent
  /\ call' = [call EXCEPT ![j] = Absent]
  /\ \/ UNCHANGED job
     \/ \E state \in {"queued", "settled"} : Moves(j, state)
  /\ UNCHANGED <<vault, handler, account, faults>>

\* A cancellation takes effect between pages.
Cancel(j) ==
  /\ up
  /\ InState(j, {"queued", "running"}) /\ call[j] = Absent
  /\ Moves(j, "settled")
  /\ UNCHANGED <<vault, call, handler, account, faults>>

-----------------------------------------------------------------------------
Kill == up /\ Fault /\ Down /\ UNCHANGED <<file, job, account>>

\* A poisoned vault serves nothing until its process is started again.
OperatorStops == up /\ poison /\ Down /\ UNCHANGED <<file, job, account, faults>>

\* The vault reads its files, and Recover queues what was running.
OpenConnections ==
  /\ ~up
  /\ up' = TRUE
  /\ entries' = file
  /\ job' = [j \in Jobs |->
               IF InState(j, {"running"}) THEN [job[j] EXCEPT !.state = "queued"]
               ELSE job[j]]
  /\ UNCHANGED <<file, poison, call, handler, account, faults>>

Step(j) == Claim(j) \/ BeginPage(j) \/ Refuse(j) \/ EndPage(j)

Next ==
  \/ Kill \/ OperatorStops \/ OpenConnections
  \/ \E i \in Conns :
       Rotate(i) \/ \E f \in Configs, v \in Versions : Create(i, f, v)
  \/ \E h \in Handlers :
       \/ \E i \in Conns : BeginDelete(h, i) \/ \E j \in Jobs : BeginSubmit(h, j, i)
       \/ \E j \in Jobs : BeginResume(h, j)
       \/ FinishSubmit(h) \/ FinishResume(h) \/ FinishDelete(h)
  \/ \E j \in Jobs : Step(j) \/ Cancel(j)

Spec == Init /\ [][Next]_vars

\* Executors go on, calls of connectors end, and a stopped process is started.
Fairness == WF_vars(OpenConnections) /\ \A j \in Jobs : WF_vars(Step(j))

FairSpec == Spec /\ Fairness

-----------------------------------------------------------------------------
(* Properties.                                                             *)

\* What the vault answers from is what it would find after a restart: a file
\* that was replaced or removed while the memory was not follows from an
\* error that poisons the vault (connections.go:193-202, 316-331).
AnswersFromFile == Serving => entries = file

\* Through failures and restarts, a connection that the account was told is
\* saved is there, with the credentials it was told about or newer ones, and
\* one that it was told is removed does not come back by itself
\* (connections.go:242-248, 296-304, 316-332).
AcknowledgedStays ==
  \A i \in Conns :
    /\ told[i] > 0 => file[i] # Absent /\ file[i].secret >= told[i]
    /\ i \in gone => file[i] = Absent

\* A page goes to what the job was submitted on, even if the connection was
\* removed and its key used again for something else: the fingerprint is
\* compared before each page (engine.go:219-223).
ChosenProvider ==
  \A j \in Jobs : call[j] # Absent => call[j].config = job[j].config

\* docs/accounts-and-security.md: "Rotation applies to subsequent batches".
\* A page begun after a rotation was acknowledged uses these credentials or
\* newer ones, through restarts too (connections.go:296-303).
RotationApplies ==
  [][\A j \in Jobs : call[j] = Absent /\ call'[j] # Absent =>
       call'[j].secret >= told[job[j].conn]]_vars

\* docs/accounts-and-security.md: "Deleting a connection requires canceling
\* its active jobs"; docs/api.md: "Remove a connection after canceling active
\* jobs".  No active job is on a connection that the account has removed
\* (api.go:132-141).
NoDanglingJob == \A j \in Jobs : Active(j) => job[j].conn \notin gone

\* A job that was caught by the removal of its connection comes to rest, or
\* the connection is saved again (engine.go:219-223).
DanglingJobEnds ==
  \A j \in Jobs, i \in Conns :
    Active(j) /\ job[j].conn = i /\ i \in gone ~> ~Active(j) \/ i \notin gone
=============================================================================
