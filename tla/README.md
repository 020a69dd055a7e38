# A verification project for Vector Transfer

Vector Transfer copies vectors from one database to another. A job names a
source and a sink connection; the program reads the source page by page, writes
each page to the sink, and saves a cursor when the sink has acknowledged the
page. Jobs run on the host (a pool of executors inside the server) or on a
customer worker, a process elsewhere that claims jobs of the server over HTTP
under leases. This directory holds TLA+ models of the parts that keep those
jobs right, TLC runs that check them on small instances, and theorems that
TLAPS proves for every instance.

## Inventory

Paths are below `src/`.

| Part | Source | State it keeps | Operations |
|---|---|---|---|
| Job journal, `Store` | `control/store.go` | `journal.jsonl`, a hash chain of one line per transition; the map of jobs; sequence, last hash, `poison` | `OpenStore`/`replay`, `append`, `Create`, `Update`, `Recover`, `Claim`; reads: `Get`, `List`, `Events` |
| Hosted engine | `control/engine.go` | nothing but the executors' stacks: job, snapshot, page in hand, attempt | `Submit`, `Action` (cancel, resume), `Run`, `execute`, `retry`, `finish` |
| Worker jobs | `control/worker_jobs.go` | lease, generation and report sequence in the job record; on the worker, a `Store` of its own | `ClaimWorker`, `ReportWorker`, `PrepareWorkerJob`, `RunJob` |
| Worker endpoints | `control/worker_api.go` | none | enroll, challenge, session, manifest, claim (a long poll), progress |
| Worker client | `worker/worker.go` | identity file, session token, lease timer, the assignment in hand | `Run`, `execute`, `report`, `Enroll`, `session` |
| Worker registry | `control/workers.go`, `internal/durable/file.go` | `workers.json`, challenges and sessions in memory, `poison` | `Create`, `Revoke`, `Enroll`, `Challenge`, `Session`, `Authenticate`, `Publish`, `Touch` |
| Connection vault | `control/connections.go` | one encrypted file per connection, the open bindings, `poison` | `Create`, `Rotate`, `Delete`, `Get` |
| HTTP API | `control/api.go` | none | requests on jobs and connections, checks of ownership |
| Account sessions | `accountauth/session.go` | login transactions, sessions with their tokens | login, callback, `Authenticate` (refresh), logout |
| Connectors | `connector/*` | none that outlives a call: a scan's position is in the cursor | `Read(cursor, limit)`, `Upsert(records)`, 14 providers |
| Process wiring | `app/*` | none | starts the parts, ends the process on an error |

How they interact: the API, the executors and the worker endpoints share one
`Store` and its mutex; each changes a job only through a closure that runs under
that mutex, and each reads jobs outside of it. The engine calls connectors with
no lock held, for up to their time-outs. A worker has one goroutine that talks to the
server and one that runs the job, joined by a channel and a canceled context; it
shares nothing with the server but requests, any of which may fail, be answered
to nobody, or be served after the worker gave it up.

What makes each part correct:

- **Store**: what it shows is what a restart finds; what it reported as done is
  never lost; whatever failed, the next start reads the journal; a key names
  one job.
- **Engine**: a saved cursor never stands past a page the sink does not hold;
  each acknowledged record is counted once; one executor per destination; no job
  stays busy in nobody's hands; a cancellation wins over everything that
  races it, and takes effect; a queued job is executed in the end.
- **Worker registry**: what somebody was told is on file; a revocation blocks at
  once; a worker bound to a key gets to know it and gets back in after a restart.
- **Connection vault**: what the account was told lasts; a job's pages go where
  it was submitted to, with the newest credentials; no active job is on a
  connection that was removed, and one that is comes to rest.
- **Account sessions**: a sign-in makes one session; whatever was looked up
  before, nothing is answered or refreshed for a session that was signed out; the
  tables keep their bounds; a sign-out takes the newest refresh token.
- **Connectors**: a scan that ends has emitted every record, from cursors that
  outlive the process; it ends; a page that was acknowledged is stored as it was
  sent, whatever arrives late.
- **Worker leases**: the worker writes only while the server has the job leased
  to it; one live lease per worker; no scan from behind what was reported; a
  cancellation takes effect through crashes, lost answers and lost data.

What is hard is listed, line by line, under `hazards` in `PROJECT.json`.

## Modules

```
Lifecycle      <--- TransferEngine ---> JobRecord <--- WorkerLease ---> Lifecycle
                         :
                    StoreContract <--- Journal

WorkerRegistry     ConnectionVault     AccountSessions     ConnectorTransfer
```

Arrows are EXTENDS or INSTANCE; the dotted line is the instance in
`TransferEngineProofs`, by which the engine's store is the journal's. The modules of
the last line stand alone: each contains the
halves of the other parts (the worker's sessions; submissions, resumes and
executors; the engine's checkpoints) that its own state depends on.

- **`JobRecord`**: the fields of `Job` that matter and the closures that
  `Update` applies to them, as operators from record to record. Both the hosted
  engine and the worker's own engine are the same Go code, and both modules use
  these operators.
- **`Lifecycle`** (abstract): what a transfer promises its owner. Jobs move along
  the state diagram, acknowledged progress only grows and never outruns the
  sink, nothing is written outside of execution, success means every page.
- **`StoreContract`** (abstract): an append that succeeds is remembered and
  durable; one that fails changes no memory, may be durable, and shuts the store
  until it is opened again.
- **`TransferEngine`**: hosted execution. Its `Append`, `AppendFails`,
  `AppendRefused` and `Reboot` are the steps of `StoreContract`, as
  `EngineKeepsContract` proves.
- **`Journal`**: `append` as its two system calls, kills between them, losses of
  power, torn lines, replay, and submissions with idempotency keys.
- **`WorkerLease`**: both ends of the worker protocol and the time between them.
- **`WorkerRegistry`**: enrollment, challenges, sessions, revocation and manifests,
  with `workers.json` behind them and the worker's side in front of them.
- **`ConnectionVault`**: saved connections and their files, the two-call requests
  that use them, and the executors that look them up page by page.
- **`AccountSessions`**: sign-ins, sessions and the requests that use them, with the
  calls of the identity provider and of the account API between their steps.
- **`ConnectorTransfer`**: how pages are read and written by the built-in connectors,
  between two checkpoints of the engine.
- **`TransferEngineProofs`**, **`JournalProofs`**, **`WorkerLeaseProofs`**,
  **`ConnectionVaultProofs`**, **`WorkerRegistryProofs`**,
  **`AccountSessionsProofs`**, **`ConnectorTransferProofs`**: the theorems.
- **`WorkerLeaseRefinement`**: that `WorkerLease` implements `Lifecycle`, but for
  refusals after a change of policy.
- **`MCTransferEngine`**, **`MCWorkerLease`**, **`MCJournal`**,
  **`MCWorkerRegistry`**, **`MCConnectionVault`**, **`MCAccountSessions`**,
  **`MCConnectorTransfer`**: values for TLC.

Operators named `X_Faulty...` are no part of any specification. Each is `X` with
one plausible mistake, and putting it in the place of `X` makes the property it
was written for fail.

### TransferEngine and the code

An action is one section under the `Store`'s mutex, or one reply of a database.

| Action | Code |
|---|---|
| `Submit`, `Cancel`, `Resume` | `Engine.Submit` with `Store.Create`; `Engine.Action`; the resume request also checks access first |
| `Recover(j)` | one step of the loop of `Store.Recover`, newest job first; the API is already serving |
| `Claim(w)`, `Leave(w)` | the loop of `Engine.Run`; `due` are the waiting jobs whose `NextRunAt` has passed |
| `Authorize`, `Inspect` | the checks before and at the top of the loop of `execute`; `Inspect` takes the snapshot that `read` and `write` use |
| `BeginRead/BeginWrite`, `ReadReturns/WriteReturns` | `retry`: look, note the phase, call, and on failure give up or note the retry |
| `HandleError`, `ScheduleRestart`, `Finish` | what follows an error: decided in one step, saved in another |
| `Checkpoint`, `AfterCheckpoint` | the update that moves the cursor, then the second look at the job |
| `Crash`, `Stop`, `Restart` | the process ends; its context is canceled; `Run` has returned and the process starts again |
| `ChangeAccess` | grants, connections and their fingerprints change |

`job` is the map in memory and `disk` what a replay would yield. `sink[j]` is the
set of nonempty pages the destination holds. A write that fails may have reached
the sink. An executor keeps the cursor of its snapshot in `from` and always
reads the page after it: the page contents are a function of the cursor.

`PatientOperator` says that nobody resumes a job an executor still holds. The
code does not enforce it; the runs about counts and exclusivity need it, and
`engine_resume_race` shows what happens without it. In the same race both
executors add the page they both copied to `Records` (`ExactCounts` fails under
that run's constants too).

### Journal and the code

`Write` and `WriteFails` are the `Write` call of `append`, `Sync` its `fsync`; the
mutex is held between them (`writing`). `file` holds the complete lines, `torn`
says that a part of a line stands behind them, and `synced` how many lines are on
the medium. A hash stands for itself, different for every line ever written, so
`Verifies` is the check of sequence and previous hash; a line written behind a
torn one would parse as none (`Garbled`). `Create`, `Repeat` and `Update` are the
callers. `Kill` leaves what was written, `PowerFails` keeps a prefix of what was
not fsynced, possibly with a part of one more line, `OpenStore` replays. The
module assumes that unsynced lines are lost from some line on, not from the
middle, and that SHA-256 does not collide.

### WorkerLease and the code

| Action | Code |
|---|---|
| `Submit`, `Cancel`, `Resume` | the API on a job with a `worker_id`; a resume starts a new generation and drops the lease |
| `ServeClaim` | the claim endpoint with `ClaimWorker`: a lease, nothing, or a job failed because the policy changed and the poll going on |
| `ServeReport`, `ServeLate` | the progress endpoint with `ReportWorker`; a request served after the worker gave it up |
| `Start`, `Publish`, `Claim`, `NothingToDo` | the loop of `Client.Run` |
| `Reject`, `Accept` | `execute` up to the goroutine, with `PrepareWorkerJob` |
| `SendReport`, `ReportAnswered`, `Refused`, `RequestFails` | the report loop and its early returns |
| `TimerFires`, `Join` | `leaseTimer` and the deferred join |
| `EngineStart/Write/Checkpoint/End` | `RunJob` and `execute` on the worker, with the closures of `JobRecord` |
| `Tick` | time; it passes only when nothing is due |
| `Crash`, `LoseData`, `ChangePolicy` | the worker ends; its data directory is lost or older; its approved pairs differ at the next start |

`cp` is the server's record of the job, `local` the worker's. `left[j]` counts down
to `LeaseUntil`, `timer` to `leaseTimer`, `asked` to the time-out of a request.
`LeaseAssumption` states what the constants 60 s, 35 s and 20 s have in common:
the request is shorter than the timer, and both together shorter than the lease.

Assumed: the two clocks run at the same speed; a goroutine that was started runs,
and a connector whose context is canceled returns, within a tick (5 s of the
25 s that the code leaves between timer and lease); a write under way when the
worker crashes does not land later; a manifest given up is not served later; the
server itself does not restart (its store keeps leases, so a restart is a
stretch of failed requests) and the worker's store does not fail.
`ReportSequence` is left out since reports of one lease are sent one after
another and never after one that failed, so that the next one is always expected.

### WorkerRegistry and the code

| Action | Code |
|---|---|
| `Create`, `Revoke` | `Workers.Create` and `Revoke`; the token is in the one answer, which may be lost |
| `Enroll`, `Challenge`, `Session` | the endpoints and `Workers.Enroll`, `Challenge`, `Session`: one call each |
| `Admit` | `Authenticate`, before a manifest, before a claim, and again at each turn of the poll |
| `Publish`, `Touch`, `Grant` | `Workers.Publish`, `Touch`, and the `ClaimWorker` that ends the poll |
| `Save` | `Workers.save` with `durable.Write`: done; failed with the file old or new, which poisons; or killed after the replacement |
| `Kill`, `OperatorStops`, `OpenWorkers` | the server ends; is stopped since `/healthz` shows the poison; reads the file |
| `BeginEnroll`, `EndEnroll` | `Client.Enroll`: the key is saved, the request made, the mark saved |
| `AskChallenge`, `AskWork`, `Hear` | `session` and `call` within `Run`; a 401 drops the token |
| `GiveUp`, `Crash` | a request fails, or its process ends, and the server may still serve it |
| `CloseWindow`, `Expire` | the ten minutes of a token, of a session, the minute of a challenge |

The memory is changed before the save, as in the code, so that `entries` and
`file` differ after a failed one. `issued` and `revokedTold` are what the operator has
been told. Two `Clients` with one token are two machines set up with the same token;
`MaxEntries` bounds registrations and outstanding challenges alike, as the
constant 1000 does in the code, so that one registration already fills the table.
Assumed: random tokens do not repeat while in use; a save that succeeded
survives (losses of power are modelled for the journal only); an operator
repeats an enrollment that did not succeed. Sessions are only those of one owner, and
the progress endpoint, whose authentication is that of a manifest, is in
`WorkerLease`.

### ConnectionVault and the code

| Action | Code |
|---|---|
| `Create`, `Rotate` | `Connections.Create` and `Rotate` with `persist`; a known key answers the request it came with first |
| `BeginDelete`, `FinishDelete` | the removal request: the look at active jobs, then `Connections.Delete` |
| `BeginSubmit`, `FinishSubmit` | `Engine.Submit`: the lookup of the connection, then `Store.Create` |
| `BeginResume`, `FinishResume` | the resume request: the check of access, then `Action` |
| `Claim`, `BeginPage`, `EndPage`, `Refuse`, `Cancel` | what an executor does with the vault: it looks the connection up before each page, compares the fingerprint, and fails the job if it is missing or different |
| `Kill`, `OperatorStops`, `OpenConnections` | as above; `Recover` requeues what was running |

`config` is what a fingerprint depends on and `secret` the credentials, numbered in
the order they were first sent. `told` and `gone` are what the account has been told. A
failure before the rename changes nothing and is no action; one after it leaves
the file changed and the memory as it was (`SaveFails`). One account and one saved
side per job: accounts share nothing but the directory. That a rotation closes the
old binding under a call in flight, which may fail that page, is among the ways
`EndPage` ends. While the vault is poisoned every lookup finds nothing, and the
executors fail the jobs they come to: `DanglingJobEnds` counts that as rest, and
an operator who resumes them later loses no progress.

### AccountSessions and the code

| Action | Code |
|---|---|
| `Login(l)` | `login`: prunes, looks at both tables, begins a sign-in |
| `Callback` | `callback` up to its first call: the sign-in is used up whatever follows |
| `Exchanged`, `ExchangeFails` | `exchange` of the code, whose answer may be lost |
| `SignedIn`, `SignInFails` | `profile`, then the part under the mutex: prunes, looks at the table, replaces the session of the browser's cookie |
| `Lookup` | `lookup`, for `Authenticate` and for `logout` |
| `Check` | `Authenticate` from the session's mutex to its first call |
| `Refresh`, `RefreshFails` | `exchange` of the refresh token, which the provider may rotate; its answer may be lost |
| `Answer` | `profile` and the comparison of subjects |
| `Close`, `Revoke`, `Delete` | `logout`: under the session's mutex, the one attempt to revoke, the table |
| `AccessExpires`, `Restart` | an access token comes near its end; the process starts again with empty tables |

`handler[h]` is a request and holds what its stack holds: the code of its sign-in, a
session it looked up, a refresh token. `login` and `session` keep those that are over
too, since a request may still hold them. `Obtains` is the session's mutex, which a page
holds from `Check` to its answer, `Close` for no longer than its step. `issued`,
`alive` and `abandoned` are the provider's view of refresh tokens; `abandoned` are those that an
error path of the code dropped (a callback that fails after its exchange, a
revocation that was not heard, an answer that was lost, a process that ended).
The deadlines of five minutes and eight hours may pass at any time: `Login`, `SignedIn` and
`Lookup` find any of the entries past.

The bearer requests of command-line clients use no session and are left out. A
request that looked its session up before the deadline may be answered after it, and a
session that a new sign-in replaced is taken from the table, not closed or
revoked: neither is promised otherwise, and `EndedStaysEnded` is about sign-outs, restarts and
identity checks. The second lookup of `/auth/session` only reads.

### ConnectorTransfer and the code

A source and a destination are each one of a few kinds, by what they do:

| Kind of source | Connectors | Cursor, and the end of the scan |
|---|---|---|
| `keyset` | pgvector, MongoDB, Turbopuffer | the last ID; a page shorter than the limit |
| `cappedKeyset` | Weaviate, Elasticsearch, OpenSearch | the same, with pages of at most 500 |
| `offset` | Chroma | how many came before; a short page |
| `total` | Polign, the demo data | how many came before; the total is reached |
| `token` | Pinecone, S3 Vectors, Qdrant | the provider's token; no token |
| `mark` | Solr | the provider's mark; a mark that stays the same |
| `scan` | Redis | a position and the keys that no page had room for; position 0 and no keys |
| `range` | Milvus | the least INT64 not yet read; the range up to the greatest one fits a page |

| Kind of destination | Connectors | Requests of a page |
|---|---|---|
| `bulk` | Pinecone, Polign, S3 Vectors; Qdrant, Weaviate, Milvus, Elasticsearch, OpenSearch, Solr | `chunks`; a failed one may have been applied in part |
| `merge` | Chroma | `chunks`; each reads what is there, to clear fields that would stay |
| `whole` | Turbopuffer | one, which may be applied in part |
| `rows` | MongoDB, Redis, the demo data | one for each record |
| `transaction` | pgvector | one, applied as a whole or not at all |

| Action | Code |
|---|---|
| `ReadKeyset` ... `ReadScan`, `ReadRange` | `Source.Read`; the checks of the engine on the page are `PagesKeepContract` |
| `Narrow` | one turn of the loop of `readMilvus`: too many in the range |
| `Look` | the `get` of `writeChroma` |
| `Send`, `SendFails` | one request of `Sink.Upsert`, acknowledged or in doubt; after a failure the engine sends the page again, or reads it again |
| `Arrives` | a request that the client gave up reaches the provider |
| `Checkpoint`, `Restart` | the engine saves the cursor; it has only the cursor |

IDs are integers from `MinId` to `MaxId`, the least and the greatest INT64 for
`range`; the difference of two is taken in the unsigned type and a sum wraps around, as in
the code. A record's content is the set of its fields: `new` those of the source,
`old` an obsolete one that the destination has for some records.

Assumed of the source: it does not change during a job, as the contract asks
(`connector/connector.go:32`); the field that a search index is sorted by is unique, as
`docs/provider-catalog.md` asks (records with an equal value would be left out at the end of a page); tokens end
when, and only when, there is no more to list, and at most one empty page comes in a
row; SCAN answers with every key at least once, and may repeat keys
(`docs/provider-catalog.md:55-57`), which is why `NothingTwice` leaves Redis out. Left
out: conversions, and the errors for data that cannot be converted; the bound of 1 MiB on a Redis
cursor. All of these fail the job.

## Runs

| Run | Asks | Result |
|---|---|---|
| `engine_one` | one job of three pages, two executors, two attempts, a restart, two faults, two resumes at any time: `NoPageSkipped`, `NoOrphan` | holds, 550,000 states |
| `engine_shared` | two jobs on one destination, a patient operator, fair executors: `ExactCounts`, `SerializedSinks`, refinement of `Lifecycle`, every cancellation takes effect, every queued job settles | holds, 396,000 |
| `engine_resume_race` | `SerializedSinks` with an impatient operator | fails |
| `lease_one` | one job, a resume, two faults, a fair worker: types, `WorksUnderLease`, `NoSilentRestart`, refinement of `Lifecycle`, every cancellation takes effect, every queued job comes to rest | holds, 957,000 |
| `lease_two` | two jobs, changing policy, late requests: `WorksUnderLease`, `OneLiveLease`, `KeepsAllButRefusals` | holds, 1.3 million |
| `journal` | kills, failed system calls, losses of power: `ChainIntact`, `AppendsLast`; until power is lost, `AnswersOutlive` and the refinement of `StoreContract` | holds, 1.0 million |
| `journal_answers` | `AnswersKept` with losses of power | fails |
| `registry` | two machines with one token, a full registry, two disturbances: `AnswersFromFile`, `AcknowledgedStays`, `RevocationBlocks`, `NeverBusy`, `EnrollmentRetried`, `WorkerReturns` | holds, 165,000 |
| `vault` | two keys, two configurations, two interleaved requests, a job, two faults: `AcknowledgedStays`, `ChosenProvider`, `RotationApplies`, `DanglingJobEnds` | holds, 152,000 |
| `vault_race` | `NoDanglingJob` | fails |
| `sessions` | three sign-ins, room for two, two requests at a time: `WithinCapacity`, `OneSessionPerLogin`, `TokensAccounted`, `EndedStaysEnded` | holds, 1.3 million |
| `connectors` | all kinds of source and of destination, some sixteen datasets, two faults, a fair engine: types, `PagesKeepContract`, `NothingSkipped`, `NothingTwice`, `CheckpointStored`, `EveryScanEnds` | holds, 1.2 million |

Bounds. Three pages are a first, a middle and a last one; the middle one of
`engine_one` is empty, where the code skips the write. `engine_shared` looks at
exclusivity, counts and ends, for which one page is enough to be before and
after a checkpoint. Two
executors are as many as can meet on one job; two jobs on one
destination are the least that compete. Each fault (crash, stop, failed append;
missed deadline, failed request, lost data; failed save, kill, expiry) is counted
against `MaxFaults`, since two faults are needed for a fault during recovery from
another (`engine_shared` has one, and `engine_one` two). Resumes are counted by
`MaxResumes`. Leases are 6, 3 and 2 ticks, or 4, 2 and 1, the shortest that keep
the order of 60, 35 and 20 s. `Nonces` has one for each place that can hold one,
and one more. One saved connection for two keys makes the limit bite and has the
same place filled by different connections; three credentials are a first, a
rotated and a reused one. Two requests are as many as can race.
`MaxLines` is long enough for two jobs, updates between them
and restarts; with `MaxJobs` of three a key that was lost can be submitted again, and another
one be there. In `sessions` three sign-ins meet a capacity of two,
and two requests are any two of callbacks, pages and sign-outs; two tokens are one and its
rotation. In
`connectors` the IDs are -4 to 3, eight values, so that ranges are halved down to one
ID at both ends of the type; the source has any of four IDs that include both ends;
page sizes are 1 and 3 around the cap of 2, and requests hold at most 2
records, so that a page may need two; `MaxReply` lets SCAN answer with more keys
than a page has room for, or repeat one. The executors are symmetric where only safety is checked.

What TLAPS proves for every value of the constants and other checked properties come
close to (`TypeOK` of `TransferEngine`, `Journal`, `WorkerRegistry`, `ConnectionVault`
and `AccountSessions`, `OneJobPerKey`, `AnswersFromFile` of the vault) is in no run.

`connectors` alone switches off the check for deadlocks: a finished job stops. No
other of the systems stops for good.

Fairness. In `TransferEngine` each executor goes on (goroutines are scheduled,
calls end by their time-outs), `Recover` goes on, and a process that returned from
`Run` is started again: after an error by its service unit
(`deploy/vector-transfer.service:12`), after a stop by whoever stopped it. Nothing is assumed of the
operator or the faults, which are bounded. In `WorkerLease` the server serves
the request on the link, the worker's loop and engine go on, a time-out is
noticed, and time passes; writes to a sink need no fairness since an execution may
fail instead. `QueuedJobSettles` there ends in any state of rest, `retry_wait`
included, whose delay is not modelled. In `WorkerRegistry` and `ConnectionVault` a
process that ended is started again, requests are served, workers and executors go
on. In `ConnectorTransfer` the executor goes on (`Progress`): a call ends by its time-out, and reads,
requests and the checkpoint follow each other; faults are bounded and need no fairness. The registry's liveness also needs the operator to restart a poisoned one, and
to repeat an enrollment that did not succeed, as the worker's message asks. In the
vault, `Cancel`, resumes and new submissions are free to happen or not.

### What failed

1. `engine_resume_race`: `execute` reads the job a second time after the
   checkpoint that canceled it and leaves only if it still is canceled
   (`control/engine.go:306-312`). Resumed in between, the job is claimed by a
   second executor, and the first goes on. `docs/architecture.md:57-58` says that
   hosted workers serialize jobs of one resource.
2. `vault_race`: the removal request looks for active jobs and then removes
   (`control/api.go:132-138`), in two steps that a submission or a resume comes
   between. The account is told that the connection is gone, and an active job is
   on it. `docs/accounts-and-security.md:74` and `docs/api.md:68` say that a removal
   comes after the cancellation of active jobs. `DanglingJobEnds` shows that the
   harm is bounded: the job fails at its next page.
3. `journal_answers`: `replay` fsyncs only after it dropped a partial line
   (`control/store.go:145-152`), so that a line written and not fsynced when the
   process was killed is answered from, and may be gone after a loss of power.

One more disagreement has no run of its own: `ClaimWorker` fails a job in
`cancel_requested` whose pair is no longer approved
(`control/worker_jobs.go:67-74`), while the diagram at `docs/architecture.md:37`
has only `canceled` after `cancel_requested`. `RefusePicked` is that step;
`lease_one` keeps the policy fixed, and `KeepsAllButRefusals` (`lease_two`) says that
with a policy that changes this step is all that is added.

## Proofs

All theorems hold for every value of the constants that the modules' assumptions
admit: any number of jobs, executors, pages, attempts, lines, keys, connections and
registrations, any distribution of destinations, and any operator.

`TransferEngineProofs`

- `TypeCorrect`: `Spec => []TypeOK`.
- `NothingSkipped`: `Spec => []NoPageSkipped`. Not inductive as it stands: a
  checkpoint moves the cursor past the page in hand, so the destination must hold
  that page at `checkpoint` unless it is empty, and every page before the
  executor's snapshot, which another executor may long have left behind. The
  inductive invariant adds these facts about `exec` to the one about `job` and
  `disk`. Pages are never taken back from `sink`, so that what one executor knows no
  other step can disturb. This also covers an impatient operator, beyond
  what `engine_one` explores.
- `NobodyOrphaned` (`NoOrphan`) and `DestinationsExclusive`: two jobs of one
  destination are never both busy, in the memory or in the journal. Both hold for
  any operator. `DestinationsExclusive` is the reason for the busy set of `Claim`, and
  no run has it since `SerializedSinks` says more where it holds. The inductive
  invariant `Tidy`: the memory is what is durable while the store accepts appends
  (`InSync`), an executor at rest has no job (`Resting`), and `Recover` ends before an
  executor begins (`Recovers`). A failed append is the hard case: it may make a job
  busy on disk alone, and only a start follows it, which reads the disk.
- `CountsExact` (`ExactCounts`), `SinksSerialized` (`SerializedSinks`) and
  `EngineKeepsPromise` (`KeepsPromise`, the refinement of `Lifecycle`), each under
  `PatientOperator`, without which they fail (`engine_resume_race`). On top of `Tidy` the
  invariant `Serial` says that a job has one executor (`Unique`), which finds the job
  as it left it but for a cancellation (`Fit`): busy, with the cursor that it read; or
  canceled by its own checkpoint, which it is about to see. A verdict that waits to be
  saved is still called for, so that no canceled job succeeds. `Right` says what a
  record counts. Each append moves a job along an edge of the diagram (`Edge`),
  and one step of the engine appends once at most, so that it maps to one step of
  `Lifecycle`; for a failed append that step happens if the line turned out durable.
- `EngineKeepsContract`: the `Store` that the engine is modelled with is one of
  `StoreContract`, and each append has all the outcomes of the contract
  (`AppendIsContracts`). With `JournalKeepsContract` below, what is proved of the engine
  rests on nothing that the journal does not keep until its host loses power.

`JournalProofs`

- `JournalTypes`, `JournalIntact` (`ChainIntact`), `AppendsDurable`
  (`AppendsLast`), `KeysDistinct` (`OneJobPerKey`), `AnswersStand`
  (`AnswersOutlive`), and `JournalKeepsContract` (`KeepsContract`), whose steps
  implement `StoreContract` until power is lost (`lost`).
- The inductive invariant says where the memory stands relative to the file:
  while the store accepts writes nothing is torn and `last` is the end of the
  file, except while a line is between `Write` and `Sync`, when it is the end of
  all but that line. `poison` is what keeps the invariant: after any failure the
  memory may lag behind the file, and nothing is appended until `OpenStore` reads
  it again. For the refinement, the memory is what a replay of the settled lines
  yields, and the line in flight becomes durable in the abstract step of its
  `Sync`, or of the `Kill` that leaves it behind.
- For `KeysDistinct` and `AnswersStand`, the keys of the file are those of distinct
  jobs: a submission only creates for a key that the memory does not know, and while
  a line can be written the memory is all of the file. An answer is a job of the
  file for as long as nothing is taken from it, which only a loss of power does.

`WorkerLeaseProofs`

- `LeaseTypes`, `WritesAreLeased` (`WorksUnderLease`), `NeverBehindReports`
  (`NoSilentRestart`) and `LeasesOneAtATime` (`OneLiveLease`), for any periods with
  `RequestTicks + TimerTicks < LeaseTicks`: of the code's 60 s lease, 35 s timer and
  20 s time-out nothing more is assumed.
- The inductive invariant `Sound` (`LeaseSound`). An answer on its way was given
  after its request was sent, so at least `Remains` is left of the lease it is about,
  and the timer the worker sets from it runs out first (`Assigned`, `Leased`). A
  lease that still runs keeps every claim away, so that while the engine runs only
  reports touch the job; and a report that was given up and is served late is of
  another lease, or says nothing beyond what the worker's own record says
  (`Harmless`). For this a new lease has to be nobody's (`NewLeaseIsNew`), by counting
  who can hold one. The control plane never knows more of the running job than the
  worker does, which is what `NoSilentRestart` needs.

`WorkerLeaseRefinement`

- `LeaseKeepsAllButRefusals` (`KeepsAllButRefusals`): with any change of the worker's
  policy, every step is one of `Lifecycle`, a stutter, or the refusal of one job whose
  pair is not approved any more (`Disapproved`).
- `LeaseKeepsPromise` (`KeepsPromise`): while the policy does not change
  (`~PolicyMayChange`), every step is one of `Lifecycle` or a stutter. It follows from
  the first with the invariant `Approved`: all pairs are published before there is a
  job, so that none is refused.
- On top of `Sound` the invariant `Honest` says that neither side says more than is so:
  cursors, pages and reports are covered by what the destination holds (`Delivered`,
  `Truthful`), and a cancellation appears in a report, an answer or the worker's
  record only after the owner asked for it in the same generation of the job
  (`Asked`, `Adopted`), so that a late report of an older lease cannot cancel a job
  that was resumed. A cancellation may be overtaken by a refusal, so what was asked is
  remembered as `canceled`, `cancel_requested` or `failed` (`Over`).

`ConnectionVaultProofs`

- `VaultTypes`, `VaultAnswersFromFile` (`AnswersFromFile`), `VaultKeepsWord`
  (`AcknowledgedStays`), `PagesGoWhereChosen` (`ChosenProvider`) and
  `RotationReachesPages` (`RotationApplies`).
- The inductive invariant `Sound`: the memory is the file unless the vault is
  poisoned or its process is down; numbers that an operator was told are not ahead
  of the version, and secrets on file are no older than what was told;
  submissions under way are for jobs that do not exist yet, and only jobs that exist
  call a provider. Assumed: `Conns` is finite, so that saved connections can be
  counted, and `Absent` is not an entry.
- `NothingDanglesAlone`: while requests of an account come one at a time
  (`OneRequest`), no active job is on a connection that was removed (`NoDanglingJob`).
  What `vault_race` finds is thus due to the overlap of two requests alone, and not to
  jobs, saves, kills or restarts. The invariant `Undangled` says that what the request
  under way has found is still so when it acts (`StillSo`).

`WorkerRegistryProofs`

- `RegistryTypes`, `RegistryAnswersFromFile` (`AnswersFromFile`),
  `RegistryKeepsWord` (`AcknowledgedStays`), `RevocationHolds` (`RevocationBlocks`)
  and `NeverTurnedAway` (`NeverBusy`): every safety property of the `registry` run.
- The inductive invariant `Sound` has four parts. Of the files: the memory is the
  file unless the registry is poisoned or down, and a registration on file only
  grows. Of the links: a worker waits for what its state calls for, with its own
  identity, and an answer under way is as true as one that was heard. Of the
  sessions: they are those of known workers, and whoever holds a session's nonce has
  the identity that it was made for, which rests on nonces being new. And
  `AcknowledgedStays` itself, which a late answer would break without the rest.
- `NeverBusy` counts: the tickets of the other workers map one to one into the
  other identities, of which there are fewer than the table has places.

`AccountSessionsProofs`

- `SessionTypes`, `BoundsKept` (`WithinCapacity`), `OneEach`
  (`OneSessionPerLogin`), `TokensOwned` (`TokensAccounted`) and `EndedMeansEnded`
  (`EndedStaysEnded`): every property of the `sessions` run.
- The inductive invariant `Sound` says what the two mutexes are for. Of a session's:
  a page that calls has an open session, alone, and holds its newest refresh token
  (`Holding`), so that a rotated token always finds its way back into a session that
  nobody has ended. Of the order of a sign-out: a session is closed, and its token
  taken, before the token is revoked and before the session leaves the table
  (`SigningOut`), so that whatever is over and can still be reached is closed
  (`EndedClosed`), and a request that finds it late is refused. Of the Service's: a
  sign-in is over before its callback makes a session (`SignIns`). Assumed: `Logins`
  is finite, so that sign-ins can be counted, and `Idle` is no request.

`ConnectorTransferProofs`

- `TransferTypes`, `PagesValid` (`PagesKeepContract`), `ScansComplete`
  (`NothingSkipped`), `ScansOnce` (`NothingTwice`) and `CheckpointsHold`
  (`CheckpointStored`): every safety property of the `connectors` run.
- Reading: `AtCursor` says, for each kind of source, which records a cursor stands
  for. It holds of the checkpoint's cursor and of what was checkpointed, and of the
  next cursor of a page and of both together (`Follows`). The lemmas under it are
  those a reader would doubt: that a page shorter than asked for is the last
  (`Firsts`), that an offset determines the records before it (`OneFront`), that the
  middle of a Milvus range and the ID behind it do not wrap around (`MiddleIn`,
  `NextId`), that a page of SCAN's keys loses none of them (`Split`).
- Writing: a field that is there and not new was there when the request that is to
  clear it was prepared; and a record that is new stays so under every request
  (`Applies`), the late ones included, since each of them gives the same fields.

Only model-checked: liveness, which is out of the prover's reach (`CancelTakesEffect`,
`QueuedJobSettles`, `DanglingJobEnds`, `EnrollmentRetried`, `WorkerReturns` and `EveryScanEnds`).
Every safety property of a run that passes is a theorem, the two refinements of
`Lifecycle` and that of `StoreContract` included. A theorem without a run
(`TypeCorrect`, `DestinationsExclusive` and `EngineKeepsContract` among others) is one
that another property of the runs comes close to, or whose formula ranges over
an infinite set.

## Not modelled

- `Events`: a read. It may show lines that are not fsynced yet.
- A process with `-workers 0`, where nothing calls `Recover`.
- Conversions of the connectors, their configurations (`config.go`, `personal.go`,
  `factory.go`, `additional.go`) and the conformance tests: they compute, and keep no
  state between two calls. In `TransferEngine` a connector is its contract, a page
  or an error, all acknowledged or an error; `ConnectorTransfer` is about how it is kept.
- An orphaned write of a crashed process that lands at its destination later. On
  the host it could only add a page; for `Lifecycle` it would be a delivery outside
  of execution, which `docs/architecture.md` says leases do not prevent.
- Field checks of submissions, messages, phases, time stamps, HTTP and JSON.
- The console, the FAISS adapter, deployment and examples.

## Plan

Written so far, in this order: `JobRecord`, `Lifecycle`, `TransferEngine`,
`WorkerLease`, `StoreContract`, `Journal`, `WorkerRegistry`, `ConnectionVault`,
`AccountSessions`, `ConnectorTransfer`, with their runs and the proofs above. Next:

1. An abstract specification of the two file-backed stores, the registry and the
   vault, that both implement.
2. A process without executors (`-workers 0`), and a restart of the server in
   `WorkerLease`.
