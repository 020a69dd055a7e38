-------------------------- MODULE ConnectorTransfer --------------------------
(***************************************************************************)
(* The built-in connectors (connector/): how a source is read page by page *)
(* from a cursor that outlives the process, and how a page is written to a *)
(* destination in several requests; and what the engine makes of the two   *)
(* (control/engine.go), which checkpoints a page when all of it is         *)
(* acknowledged and otherwise sends it again or reads it again.            *)
(*                                                                         *)
(* The source stays as it is.  A record is its ID, an INT64 of a width     *)
(* that MinId and MaxId give; its content is the set of its metadata       *)
(* fields, "new" at the source.  Providers that return a token of their    *)
(* own may list in any order and in pages of any size; such a token is the *)
(* set of what came before it, with a number that tells empty pages apart. *)
(* Conversions of IDs, vectors and metadata are left out: a record that    *)
(* one of them refuses fails the job.                                      *)
(*                                                                         *)
(* An operator X_Faulty... is X with a plausible mistake, never part of    *)
(* the specification.                                                      *)
(***************************************************************************)
EXTENDS Integers, FiniteSets, Sequences

CONSTANTS
  MinId, MaxId,  \* the least and the greatest ID
  Pairs,         \* kinds of source and destination: <<source, sink>>
  Datasets,      \* what the source may contain
  Limits,        \* page sizes of jobs
  Cap,           \* the most records that some connectors ask for
  MaxChunk,      \* the most records of a request
  MaxReply,      \* bound on the keys of a SCAN's reply
  MaxFaults      \* bound on failed requests and on restarts

Ids == MinId..MaxId
Keysets == {"keyset", "cappedKeyset"}
Offsets == {"offset", "total"}
SourceKinds == Keysets \cup Offsets \cup {"token", "mark", "scan", "range"}
SinkKinds == {"bulk", "merge", "whole", "rows", "transaction"}

ASSUME ConnectorAssumption ==
  /\ MinId \in Int /\ MaxId \in Int /\ MinId < 0 /\ 0 < MaxId
  /\ Pairs \subseteq SourceKinds \X SinkKinds
  /\ Datasets \subseteq SUBSET Ids
  /\ Limits \subseteq Nat \ {0}
  /\ Cap \in Nat \ {0} /\ MaxChunk \in Nat \ {0}
  /\ MaxReply \in Nat /\ MaxFaults \in Nat

VARIABLES
  pair,      \* the kinds of the source and of the destination
  data,      \* the IDs at the source
  limit,     \* the job's page size
  cursor,    \* the checkpoint's cursor
  high,      \* the end of the range that a Milvus read tries
  page,      \* what Read returned, until it is checkpointed
  todo,      \* the records of the page that no request has acknowledged
  known,     \* what a Chroma write has read of its chunk
  finished,  \* the last page is checkpointed
  acked,     \* the records that were checkpointed
  stored,    \* the destination: the fields of each record, {} for none
  late,      \* requests that failed for the client and may still arrive
  faults

job == <<pair, data, limit>>
reading == <<cursor, high, finished, acked>>
writing == <<todo, known>>
destination == <<stored, late>>
vars == <<job, reading, page, writing, destination, faults>>

source == pair[1]
sink == pair[2]
Fields == {"new", "old"}
New == {"new"}
NoPage == [done |-> FALSE]
Unread == <<>>

\* Some records may be at the destination already, with an obsolete field.
Before == [x \in Ids |-> IF x < 0 THEN {"old"} ELSE {}]

Least(m, n) == IF m < n THEN m ELSE n

Init ==
  /\ pair \in Pairs /\ data \in Datasets /\ limit \in Limits
  /\ cursor = <<>> /\ high = MaxId
  /\ page = NoPage /\ todo = {} /\ known = Unread
  /\ finished = FALSE /\ acked = {}
  /\ stored = Before /\ late = {}
  /\ faults = 0

-----------------------------------------------------------------------------
(* Source.Read.                                                            *)

\* The page size that is asked for.
Asked == IF source \in {"keyset", "total", "token", "scan"} THEN limit ELSE Least(limit, Cap)

Serves(records, next, done) ==
  /\ page' = [done |-> done, records |-> records, next |-> next]
  /\ todo' = records
  /\ high' = MaxId
  /\ UNCHANGED <<job, cursor, finished, acked, known, destination, faults>>

\* The first n of some records, in the provider's order.
First(n, S, p) ==
  /\ p \subseteq S
  /\ Cardinality(p) = Least(n, Cardinality(S))
  /\ \A x \in p, y \in S \ p : x < y

Short_FaultyUncapped(p) == Cardinality(p) < limit
Short(p) == Cardinality(p) < Asked

\* pgvector, MongoDB and Turbopuffer; Weaviate, Elasticsearch and OpenSearch:
\* the records behind the last one seen, until there are fewer than asked for.
Behind_FaultyAgain == IF cursor = <<>> THEN data ELSE {x \in data : x >= cursor[1]}
Behind == IF cursor = <<>> THEN data ELSE {x \in data : x > cursor[1]}
ReadKeyset ==
  /\ source \in Keysets
  /\ \E p \in SUBSET Behind :
       /\ First(Asked, Behind, p)
       /\ \/ p = {} /\ Serves(p, <<>>, TRUE)
          \/ \E last \in p : /\ \A x \in p : x <= last
                             /\ Serves(p, <<last>>, Short(p))

\* Chroma, and Polign and the demo data, which know the total: the records
\* behind a number of them.
Offset == IF cursor = <<>> THEN 0 ELSE cursor[1]
ReadOffset ==
  /\ source \in Offsets
  /\ \E front \in SUBSET data :
       /\ First(Offset, data, front)
       /\ \E p \in SUBSET (data \ front) :
            /\ First(Asked, data \ front, p)
            /\ LET next == Offset + Cardinality(p)
               IN Serves(p, <<next>>, IF source = "total" THEN next >= Cardinality(data)
                                      ELSE Short(p))

\* Pinecone, S3 Vectors and Qdrant: the provider's token, which is missing
\* when, and only when, there is no more to list.
Listed == IF cursor = <<>> THEN {} ELSE cursor[1]
Empties == IF cursor = <<>> THEN 0 ELSE cursor[2]
ReadToken ==
  /\ source = "token"
  /\ \E p \in SUBSET (data \ Listed) :
       /\ Cardinality(p) <= Asked
       /\ \/ Listed \cup p = data /\ Serves(p, <<>>, TRUE)
          \/ p # {} /\ Serves(p, <<Listed \cup p, 0>>, FALSE)
          \/ p = {} /\ Empties = 0 /\ Serves(p, <<Listed, 1>>, FALSE)

\* Solr: a mark that stays the same when there was nothing behind it.
Rested_FaultyGoesOn(p) == FALSE
Rested(p) == p = {}
ReadMark ==
  /\ source = "mark"
  /\ \E p \in SUBSET (data \ Listed) :
       /\ Cardinality(p) = Least(Asked, Cardinality(data \ Listed))
       /\ Serves(p, <<Listed \cup p>>, Rested(p))

\* Redis: SCAN answers with any number of keys, some of which it may have
\* answered with before, and a position, 0 at the end as at the start.  The
\* keys that a page has no room for wait in the cursor.
Zero == [listed |-> {}, empties |-> 0]
ScanAt == IF cursor = <<>> THEN Zero ELSE cursor[1]
Waiting == IF cursor = <<>> THEN <<>> ELSE cursor[2]
Keys(seq) == {seq[i] : i \in 1..Len(seq)}

Page(at, pending) ==
  LET n == Least(Asked, Len(pending))
      rest == SubSeq(pending, n + 1, Len(pending))
  IN Serves(Keys(SubSeq(pending, 1, n)), <<at, rest>>, at = Zero /\ rest = <<>>)

\* A reply: fresh keys in some order, and perhaps a key once more.
Reply(fresh, keys) ==
  /\ Keys(keys) \subseteq ScanAt.listed \cup fresh
  /\ fresh \subseteq Keys(keys)

ReadScan(keys) ==
  /\ source = "scan"
  /\ \/ Waiting # <<>> /\ keys = <<>> /\ Page(ScanAt, Waiting)
     \/ /\ Waiting = <<>>
        /\ \E fresh \in SUBSET (data \ ScanAt.listed) :
             LET all == ScanAt.listed \cup fresh
             IN /\ Reply(fresh, keys)
                /\ \/ all = data /\ Page(Zero, keys)
                   \/ keys # <<>> /\ fresh # {} /\ Page([listed |-> all, empties |-> 0], keys)
                   \/ /\ keys = <<>> /\ ScanAt.empties = 0
                      /\ Page([listed |-> all, empties |-> 1], keys)

\* Milvus: a range of IDs, halved until all that is in it fits a page.  The
\* difference of the ends is taken unsigned, and sums wrap around.
Low == IF cursor = <<>> THEN MinId ELSE cursor[1]
InRange == {x \in data : Low <= x /\ x <= high}
Span == MaxId - MinId + 1
Wrapped(n) == MinId + ((n - MinId) % Span)
Middle_FaultyRoundsUp == Low + (((high - Low + 1) % Span) \div 2)
Middle == Low + (((high - Low) % Span) \div 2)

Narrow ==
  /\ source = "range"
  /\ Cardinality(InRange) > Asked
  /\ high' = Middle
  /\ UNCHANGED <<job, cursor, finished, acked, page, writing, destination, faults>>

ReadRange ==
  /\ source = "range"
  /\ Cardinality(InRange) <= Asked
  /\ \/ high = MaxId /\ Serves(InRange, <<>>, TRUE)
     \/ high # MaxId /\ Serves(InRange, <<Wrapped(high + 1)>>, FALSE)

-----------------------------------------------------------------------------
(* Sink.Upsert.                                                            *)

\* A request gives each of its records the new fields, and clears fields.
Cleared_FaultyMerged(x) == IF sink = "merge" THEN {} ELSE Fields
Cleared(x) == IF sink = "merge" THEN known[x] \ New ELSE Fields
Applied(request, done) ==
  [x \in Ids |-> IF x \in done THEN (stored[x] \ request[x]) \cup New ELSE stored[x]]

\* How many records the next request may have: some write all in one, some
\* one by one, and the others half as many until the request is small enough.
Halves(m) == {n \in 1..m : \E k \in 0..m : n = m \div (2 ^ k)}
Sizes ==
  LET m == Cardinality(todo)
  IN CASE sink = "rows" -> {1}
       [] sink \in {"whole", "transaction"} -> {m}
       [] OTHER -> Halves(Least(m, MaxChunk))

Chunk(c) ==
  /\ page # NoPage /\ todo # {}
  /\ c \subseteq todo
  /\ Cardinality(c) \in Sizes

\* Chroma merges metadata: the write first reads what is there.
Look(c) ==
  /\ sink = "merge" /\ known = Unread
  /\ Chunk(c)
  /\ known' = [x \in c |-> stored[x]]
  /\ UNCHANGED <<job, reading, page, todo, destination, faults>>

Ready(c) == Chunk(c) /\ (sink = "merge" => known # Unread /\ c = DOMAIN known)
Request(c) == [x \in c |-> Cleared(x)]

\* Every record of the request is acknowledged.
Send(c) ==
  /\ Ready(c)
  /\ stored' = Applied(Request(c), c)
  /\ todo' = todo \ c
  /\ known' = Unread
  /\ UNCHANGED <<job, reading, page, late, faults>>

\* What remains to be done of a page after an error: all of it, in this
\* process or after it has been read again.
Fault == faults < MaxFaults /\ faults' = faults + 1
Again == page # NoPage /\ UNCHANGED page /\ todo' = page.records
Reread_FaultyKeeps == page' = NoPage /\ UNCHANGED todo
Reread == page' = NoPage /\ todo' = {}

\* The request fails, or its answer is lost or incomplete: some of it was
\* applied, or it is still under way.
Atomic == sink \in {"rows", "transaction"}
SendFails(c) ==
  /\ Fault /\ Ready(c)
  /\ \/ \E done \in SUBSET c : /\ Atomic => done \in {{}, c}
                               /\ stored' = Applied(Request(c), done)
                               /\ UNCHANGED late
     \/ late' = late \cup {Request(c)} /\ UNCHANGED stored
  /\ known' = Unread
  /\ Again \/ Reread
  /\ UNCHANGED <<job, reading>>

Arrives(request) ==
  /\ request \in late
  /\ late' = late \ {request}
  /\ stored' = Applied(request, DOMAIN request)
  /\ UNCHANGED <<job, reading, page, writing, faults>>

\* A read fails, or the process restarts, and there is the checkpoint.
Restart ==
  /\ Fault
  /\ Reread /\ known' = Unread /\ high' = MaxId
  /\ UNCHANGED <<job, cursor, finished, acked, destination>>

-----------------------------------------------------------------------------
(* The engine's checkpoint.                                                *)

Checkpoint ==
  /\ page # NoPage /\ todo = {}
  /\ page' = NoPage
  /\ cursor' = page.next
  /\ finished' = page.done
  /\ acked' = acked \cup page.records
  /\ UNCHANGED <<job, high, writing, destination, faults>>

-----------------------------------------------------------------------------
Replies == UNION {[1..n -> data] : n \in 0..MaxReply}

Read ==
  /\ page = NoPage /\ ~finished
  /\ \/ ReadKeyset \/ ReadOffset \/ ReadToken \/ ReadMark
     \/ source = "scan" /\ \E keys \in Replies : ReadScan(keys)
     \/ Narrow \/ ReadRange

Progress ==
  \/ Read \/ Checkpoint
  \/ \E c \in SUBSET todo : Look(c) \/ Send(c)

Next ==
  \/ Progress
  \/ \E c \in SUBSET todo : SendFails(c)
  \/ \E request \in late : Arrives(request)
  \/ Restart

Spec == Init /\ [][Next]_vars

\* The executor goes on, and every call ends by a timeout.
FairSpec == Spec /\ WF_vars(Progress)

-----------------------------------------------------------------------------
(* Properties.                                                             *)

PageOK ==
  IF page = NoPage THEN todo = {}
  ELSE /\ page.records \subseteq data /\ todo \subseteq page.records
       /\ page.done \in BOOLEAN

\* Every variable has its type: nothing is left to write without its page.
TypeOK ==
  /\ pair \in Pairs /\ data \in Datasets /\ limit \in Limits
  /\ high \in Ids
  /\ PageOK
  /\ finished \in BOOLEAN
  /\ acked \subseteq data
  /\ stored \in [Ids -> SUBSET Fields]
  /\ faults \in 0..MaxFaults

\* A page keeps the contract of sources, so that the engine does not fail the
\* job: no more records than the job asks for, and a cursor that is not empty
\* and not the one it was read from unless the scan is done.
PagesKeepContract ==
  page # NoPage =>
    /\ Cardinality(page.records) <= limit
    /\ ~page.done => page.next # <<>> /\ page.next # cursor

\* A complete scan emits every record, whatever failed on the way.
NothingSkipped == finished => acked = data

\* No record is emitted again behind a checkpoint, but by Redis.
NothingTwice == page # NoPage /\ source # "scan" => page.records \cap acked = {}

\* What a checkpoint stands for is at the destination, as it is at the source
\* and without the fields that the record had before: even when a request
\* that timed out arrives after all.  No other record has changed.
CheckpointStored ==
  \A x \in Ids : /\ x \in acked => stored[x] = New
                 /\ x \notin data => stored[x] = Before[x]

\* Every scan ends: a Milvus range gets smaller until it fits, and Solr's
\* mark comes to rest.
EveryScanEnds == <>finished
=============================================================================
