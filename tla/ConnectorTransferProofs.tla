------------------------ MODULE ConnectorTransferProofs ------------------------
(***************************************************************************)
(* Theorems about ConnectorTransfer: the safety properties of the run      *)
(* "connectors", for IDs of any width and any datasets, page sizes, sizes  *)
(* of requests and faults.                                                 *)
(*                                                                         *)
(* Reading and writing are proved apart.  Of a source it matters that its  *)
(* cursor says which records were emitted (AtCursor), in the terms of the  *)
(* provider; of a destination, that a request leaves none of the fields    *)
(* that its sender knew of, and that a late one takes nothing that is new. *)
(***************************************************************************)
EXTENDS ConnectorTransfer, FiniteSetTheorems, TLAPS

Front(S) == \A x \in S, y \in data \ S : x < y

\* What a SCAN's position stands for.
Scanned(at) == IF at = Zero THEN data ELSE at.listed
Positions == [listed : SUBSET data, empties : 0..1]

\* The cursor c says that the records of S were emitted.
AtCursor(c, S) ==
  \/ c = <<>> /\ S = {}
  \/ source \in Keysets /\ \E last \in Ids : c = <<last>> /\ S = {x \in data : x <= last}
  \/ source \in Offsets /\ c = <<Cardinality(S)>> /\ Front(S)
  \/ source = "token" /\ \E n \in 0..1 : c = <<S, n>>
  \/ source = "mark" /\ c = <<S>>
  \/ source = "range" /\ \E low \in Ids : c = <<low>> /\ S = {x \in data : x < low}
  \/ source = "scan" /\ \E at \in Positions, rest \in Seq(data) :
       /\ c = <<at, rest>>
       /\ S \cup Keys(rest) = Scanned(at)
       /\ at = Zero => rest # <<>>

\* A page follows what is checkpointed.
Follows(p) ==
  /\ Cardinality(p.records) <= limit
  /\ source # "scan" => p.records \cap acked = {}
  /\ p.done => acked \cup p.records = data
  /\ ~p.done => /\ p.next # <<>> /\ p.next # cursor
                /\ AtCursor(p.next, acked \cup p.records)

Reading ==
  /\ IF finished THEN acked = data /\ page = NoPage
                 ELSE AtCursor(cursor, acked)
  /\ page # NoPage => Follows(page) /\ high = MaxId
  /\ source = "range" /\ ~finished => Low <= high

Writing ==
  /\ CheckpointStored
  /\ page # NoPage => \A x \in page.records \ todo : stored[x] = New
  /\ \A request \in late : DOMAIN request \subseteq data
  /\ DOMAIN known \subseteq data
  /\ \A x \in DOMAIN known : stored[x] \subseteq known[x] \cup New

Sound == TypeOK /\ Reading /\ Writing

-----------------------------------------------------------------------------
(* Arithmetic and finite sets.                                             *)

LEMMA ModSmall ==
  ASSUME NEW a \in Int, NEW b \in Int, 0 <= a, a < b
  PROVE  a % b = a
  BY SMT

\* The middle of a range is in it: the unsigned difference does not wrap.
LEMMA MiddleIn ==
  ASSUME NEW l \in Ids, NEW u \in Ids, l <= u
  PROVE  l + (((u - l) % Span) \div 2) \in l..u
<1>1. MinId \in Int /\ MaxId \in Int /\ l \in Int /\ u \in Int
  BY ConnectorAssumption DEF Ids
<1>2. Span \in Int /\ u - l < Span /\ 0 <= u - l
  BY <1>1 DEF Ids, Span
<1>3. (u - l) % Span = u - l
  BY <1>1, <1>2, ModSmall
<1>4. (u - l) \div 2 \in Int /\ 0 <= (u - l) \div 2 /\ (u - l) \div 2 <= u - l
  BY <1>1, <1>2
<1> QED
  BY <1>1, <1>3, <1>4

\* Nor does the sum, below the end of the type.
LEMMA NextId ==
  ASSUME NEW u \in Ids, u # MaxId
  PROVE  Wrapped(u + 1) = u + 1 /\ u + 1 \in Ids
<1>1. MinId \in Int /\ MaxId \in Int /\ u \in Int /\ MinId <= u /\ u < MaxId
  BY ConnectorAssumption DEF Ids
<1>2. u + 1 - MinId \in Int /\ Span \in Int /\ 0 <= u + 1 - MinId /\ u + 1 - MinId < Span
  BY <1>1 DEF Span
<1>3. (u + 1 - MinId) % Span = u + 1 - MinId
  BY <1>2, ModSmall
<1> QED
  BY <1>1, <1>3 DEF Wrapped, Ids

LEMMA Typed ==
  ASSUME TypeOK
  PROVE  /\ data \subseteq Ids /\ Ids \subseteq Int /\ data \subseteq Int
         /\ limit \in Nat \ {0} /\ Asked \in Nat \ {0} /\ Asked <= limit
         /\ source \in SourceKinds /\ sink \in SinkKinds
         /\ MinId \in Ids /\ MaxId \in Ids
  BY ConnectorAssumption DEF TypeOK, Ids, Asked, Least, source, sink

LEMMA Finite ==
  ASSUME TypeOK, NEW S \in SUBSET data
  PROVE  /\ IsFiniteSet(S) /\ IsFiniteSet(data)
         /\ Cardinality(S) \in Nat /\ Cardinality(data) \in Nat
         /\ Cardinality(S) <= Cardinality(data)
         /\ Cardinality(S) = Cardinality(data) => S = data
         /\ Cardinality(S) = 0 <=> S = {}
<1>1. IsFiniteSet(Ids)
  BY ConnectorAssumption, FS_Interval DEF Ids
<1>2. IsFiniteSet(data)
  BY <1>1, Typed, FS_Subset
<1> QED
  BY <1>2, FS_Subset, FS_CardinalityType, FS_EmptySet

\* The first n of some records: all of them, if they are fewer.
LEMMA Firsts ==
  ASSUME TypeOK, NEW S \in SUBSET data, NEW n \in Nat, NEW p, First(n, S, p)
  PROVE  /\ p \in SUBSET S /\ p \in SUBSET data
         /\ Cardinality(p) \in Nat /\ Cardinality(p) <= n
         /\ Cardinality(p) < n => p = S
         /\ n # 0 /\ S # {} => p # {}
<1>1. p \in SUBSET S /\ p \in SUBSET data /\ Cardinality(p) = Least(n, Cardinality(S))
  BY DEF First
<1>2. IsFiniteSet(S) /\ Cardinality(S) \in Nat /\ (Cardinality(S) = 0 <=> S = {})
      /\ Cardinality(p) \in Nat /\ (Cardinality(p) = 0 <=> p = {})
  BY <1>1, Finite
<1>3. Cardinality(S) = Cardinality(p) => S = p
  BY <1>1, <1>2, FS_Subset
<1> QED
  BY <1>1, <1>2, <1>3 DEF Least

\* There is one front of each size.
LEMMA OneFront ==
  ASSUME TypeOK, NEW A \in SUBSET data, NEW B \in SUBSET data, Front(A), Front(B),
         Cardinality(A) = Cardinality(B)
  PROVE  A = B
<1>1. A \subseteq B \/ B \subseteq A
  BY Typed DEF Front
<1>2. IsFiniteSet(A) /\ IsFiniteSet(B)
  BY Finite
<1>3. CASE A \subseteq B
  BY <1>2, <1>3, FS_Subset
<1>4. CASE B \subseteq A
  BY <1>2, <1>4, FS_Subset
<1> QED
  BY <1>1, <1>3, <1>4

-----------------------------------------------------------------------------
(* Pages.                                                                  *)

\* A page that follows its cursor, for a source that returns it.
LEMMA Served ==
  ASSUME Sound, page = NoPage, ~finished,
         NEW p \in SUBSET data, NEW next, NEW done \in BOOLEAN, Serves(p, next, done),
         Cardinality(p) <= limit,
         source # "scan" => p \cap acked = {},
         done => acked \cup p = data,
         ~done => next # <<>> /\ next # cursor /\ AtCursor(next, acked \cup p)
  PROVE  Sound'
<1> DEFINE q == [done |-> done, records |-> p, next |-> next]
<1>1. /\ page' = q /\ todo' = p /\ high' = MaxId
      /\ UNCHANGED <<job, cursor, finished, acked, known, destination, faults>>
  BY DEF Serves
<1>2. UNCHANGED <<pair, data, limit, stored, late>> /\ source' = source
  BY <1>1 DEF job, destination, source
<1>3. q # NoPage /\ q.done = done /\ q.records = p /\ q.next = next
  BY DEF NoPage
<1> HIDE DEF q
<1>4. TypeOK'
  BY <1>1, <1>2, <1>3, Typed DEF Sound, TypeOK, PageOK
<1>5. Reading'
  <2>1. \A c, S : AtCursor(c, S)' <=> AtCursor(c, S)
    BY <1>2 DEF AtCursor, Front, Scanned, Positions
  <2>2. AtCursor(cursor, acked)'
    BY <1>1, <2>1 DEF Sound, Reading
  <2>3. Follows(page)'
    BY <1>1, <1>2, <1>3, <2>1 DEF Follows
  <2>4. source = "range" => Low' <= high'
    <3>1. source = "range" => Low \in Ids
      BY Typed DEF Sound, Reading, AtCursor, Low, Keysets, Offsets
    <3> QED
      BY <1>1, <3>1, ConnectorAssumption DEF Low, Ids
  <2> QED
    BY <1>1, <1>2, <2>2, <2>3, <2>4 DEF Reading
<1>6. Writing'
  BY <1>1, <1>2, <1>3 DEF Sound, Writing, CheckpointStored, Before
<1> QED
  BY <1>4, <1>5, <1>6 DEF Sound

LEMMA KeysetStep ==
  ASSUME Sound, page = NoPage, ~finished, ReadKeyset
  PROVE  Sound'
<1>1. source \in Keysets /\ source \notin Offsets /\ source \notin {"token", "mark", "range", "scan"}
  BY DEF ReadKeyset, Keysets, Offsets
<1>2. PICK p \in SUBSET Behind :
        /\ First(Asked, Behind, p)
        /\ \/ p = {} /\ Serves(p, <<>>, TRUE)
           \/ \E last \in p : /\ \A x \in p : x <= last
                              /\ Serves(p, <<last>>, Short(p))
  BY DEF ReadKeyset
<1>3. /\ acked \subseteq data
      /\ \/ cursor = <<>> /\ acked = {}
         \/ \E last \in Ids : cursor = <<last>> /\ acked = {x \in data : x <= last}
  BY <1>1 DEF Sound, Reading, AtCursor, TypeOK
<1>4. Behind = data \ acked
  <2>1. CASE cursor = <<>> /\ acked = {}
    BY <2>1 DEF Behind
  <2>2. ASSUME NEW last \in Ids, cursor = <<last>>, acked = {x \in data : x <= last}
        PROVE  Behind = data \ acked
    <3>1. cursor # <<>> /\ cursor[1] = last
      BY <2>2
    <3>2. \A x \in data : x > last <=> ~(x <= last)
      BY Typed DEF Sound
    <3> QED
      BY <2>2, <3>1, <3>2 DEF Behind
  <2> QED
    BY <1>3, <2>1, <2>2
<1>5. /\ Behind \in SUBSET data /\ p \in SUBSET data /\ p \cap acked = {}
      /\ Cardinality(p) <= limit
      /\ Short(p) => p = Behind
      /\ p = {} => Behind = {}
  <2>1. Behind \in SUBSET data /\ TypeOK /\ Asked \in Nat \ {0} /\ Asked <= limit /\ limit \in Nat
    BY <1>4, Typed DEF Sound
  <2>2. /\ p \in SUBSET Behind /\ p \in SUBSET data
        /\ Cardinality(p) \in Nat /\ Cardinality(p) <= Asked
        /\ Cardinality(p) < Asked => p = Behind
        /\ Asked # 0 /\ Behind # {} => p # {}
    BY <1>2, <2>1, Firsts
  <2> QED
    BY <1>4, <2>1, <2>2 DEF Short
<1>6. CASE p = {} /\ Serves(p, <<>>, TRUE)
  BY <1>3, <1>4, <1>5, <1>6, Served
<1>7. CASE \E last \in p : (\A x \in p : x <= last) /\ Serves(p, <<last>>, Short(p))
  <2>1. PICK last \in p : (\A x \in p : x <= last) /\ Serves(p, <<last>>, Short(p))
    BY <1>7
  <2>2. last \in Ids /\ last \notin acked /\ last \in Int
    BY <1>5, <2>1, Typed DEF Sound
  <2>3. acked \cup p = {x \in data : x <= last}
    <3>1. \A x \in acked : x <= last
      BY <1>3, <1>5, <2>1, Typed DEF Sound
    <3>2. \A x \in data : x <= last => x \in acked \cup p
      BY <1>2, <1>4, <1>5, <2>1, Typed DEF Sound, First
    <3> QED
      BY <1>3, <1>5, <2>1, <3>1, <3>2
  <2>4. cursor # <<last>> /\ <<last>> # <<>>
    BY <1>3, <1>5, <2>2
  <2>5. AtCursor(<<last>>, acked \cup p)
    BY <1>1, <2>2, <2>3 DEF AtCursor
  <2>6. Short(p) \in BOOLEAN /\ (Short(p) => acked \cup p = data)
    BY <1>3, <1>4, <1>5 DEF Short
  <2> QED
    BY <1>5, <2>1, <2>4, <2>5, <2>6, Served
<1> QED
  BY <1>2, <1>6, <1>7

LEMMA OffsetStep ==
  ASSUME Sound, page = NoPage, ~finished, ReadOffset
  PROVE  Sound'
<1>1. source \in Offsets /\ source \notin Keysets /\ source \notin {"token", "mark", "range", "scan"}
  BY DEF ReadOffset, Keysets, Offsets
<1>2. PICK front \in SUBSET data :
        /\ First(Offset, data, front)
        /\ \E p \in SUBSET (data \ front) :
             /\ First(Asked, data \ front, p)
             /\ LET next == Offset + Cardinality(p)
                IN Serves(p, <<next>>, IF source = "total" THEN next >= Cardinality(data)
                                       ELSE Short(p))
  BY DEF ReadOffset
<1>3. PICK p \in SUBSET (data \ front) :
        /\ First(Asked, data \ front, p)
        /\ LET next == Offset + Cardinality(p)
           IN Serves(p, <<next>>, IF source = "total" THEN next >= Cardinality(data)
                                  ELSE Short(p))
  BY <1>2
<1>4. /\ acked \in SUBSET data /\ Front(acked)
      /\ Offset = Cardinality(acked)
      /\ cursor = <<>> \/ cursor = <<Offset>>
  <2>1. acked \in SUBSET data /\ AtCursor(cursor, acked)
    BY DEF Sound, Reading, TypeOK
  <2>2. CASE cursor = <<>> /\ acked = {}
    BY <2>2, FS_EmptySet DEF Offset, Front
  <2>3. CASE cursor = <<Cardinality(acked)>> /\ Front(acked)
    BY <2>1, <2>3 DEF Offset
  <2> QED
    BY <1>1, <2>1, <2>2, <2>3 DEF AtCursor
<1>5. front = acked
  <2>1. Offset \in Nat /\ Offset <= Cardinality(data) /\ Cardinality(data) \in Nat
    BY <1>4, Finite DEF Sound
  <2>2. Cardinality(front) = Cardinality(acked) /\ Front(front)
    BY <1>2, <1>4, <2>1 DEF First, Least, Front
  <2> QED
    BY <1>4, <2>2, OneFront DEF Sound
<1>6. /\ data \ front \in SUBSET data /\ p \in SUBSET data /\ p \cap acked = {}
      /\ Cardinality(p) \in Nat /\ Cardinality(p) <= limit
      /\ Short(p) => acked \cup p = data
      /\ p = {} => acked = data
  <2>1. /\ data \ front \in SUBSET data /\ TypeOK
        /\ Asked \in Nat \ {0} /\ Asked <= limit /\ limit \in Nat
    BY Typed DEF Sound
  <2>2. /\ p \in SUBSET (data \ front) /\ p \in SUBSET data
        /\ Cardinality(p) \in Nat /\ Cardinality(p) <= Asked
        /\ Cardinality(p) < Asked => p = data \ front
        /\ Asked # 0 /\ data \ front # {} => p # {}
    BY <1>3, <2>1, Firsts
  <2>3. p \cap acked = {} /\ (p = data \ acked => acked \cup p = data)
    BY <1>4, <1>5
  <2>4. Cardinality(p) <= limit
    BY <2>1, <2>2
  <2>5. Short(p) => p = data \ acked
    BY <1>5, <2>2 DEF Short
  <2>6. p = {} => data \ acked = {}
    BY <1>5, <2>1, <2>2
  <2> QED
    BY <1>4, <2>1, <2>2, <2>3, <2>4, <2>5, <2>6
<1> DEFINE next == Offset + Cardinality(p)
           done == IF source = "total" THEN next >= Cardinality(data) ELSE Short(p)
<1>7. /\ next = Cardinality(acked \cup p) /\ next \in Nat /\ Offset \in Nat
      /\ acked \cup p \in SUBSET data
  <2>1. IsFiniteSet(acked) /\ IsFiniteSet(p) /\ Cardinality(acked) \in Nat
    BY <1>4, <1>6, Finite DEF Sound
  <2>2. Cardinality(acked \cap p) = 0
    <3>1. acked \cap p = {}
      BY <1>6
    <3> QED
      BY <3>1, FS_EmptySet
  <2>3. Cardinality(acked \cup p) = Cardinality(acked) + Cardinality(p) - Cardinality(acked \cap p)
    BY <2>1, FS_Union
  <2>4. Cardinality(acked \cup p) = Cardinality(acked) + Cardinality(p)
    BY <1>6, <2>1, <2>2, <2>3
  <2> QED
    BY <1>4, <1>6, <2>1, <2>4
<1>8. Front(acked \cup p)
  BY <1>3, <1>4, <1>5 DEF Front, First
<1>9. Serves(p, <<next>>, done) /\ done \in BOOLEAN
  <2>1. Cardinality(data) \in Nat /\ Asked \in Nat
    BY Finite, Typed DEF Sound
  <2>2. (next >= Cardinality(data)) \in BOOLEAN /\ Short(p) \in BOOLEAN
    BY <1>6, <1>7, <2>1 DEF Short
  <2> QED
    BY <1>3, <2>2
<1>10. done => acked \cup p = data
  <2>1. /\ Cardinality(data) \in Nat
        /\ Cardinality(acked \cup p) <= Cardinality(data)
        /\ Cardinality(acked \cup p) = Cardinality(data) => acked \cup p = data
    BY <1>7, Finite DEF Sound
  <2> QED
    BY <1>6, <1>7, <2>1
<1>11. ~done => next # Offset
  <2>1. CASE p = {}
    <3>1. acked = data /\ Cardinality(p) = 0
      BY <1>6, <2>1, FS_EmptySet
    <3>2. next = Cardinality(data)
      BY <1>7, <2>1, <3>1
    <3>3. Short(p)
      BY <3>1, Typed DEF Sound, Short
    <3> QED
      BY <1>7, <3>2, <3>3
  <2>2. CASE p # {}
    <3>1. Cardinality(p) # 0
      BY <1>6, <2>2, Finite DEF Sound
    <3> QED
      BY <1>6, <1>7, <3>1
  <2> QED
    BY <2>1, <2>2
<1>12. AtCursor(<<next>>, acked \cup p)
  BY <1>1, <1>7, <1>8 DEF AtCursor
<1> HIDE DEF next, done
<1> QED
  BY <1>4, <1>6, <1>9, <1>10, <1>11, <1>12, Served

LEMMA TokenStep ==
  ASSUME Sound, page = NoPage, ~finished, ReadToken
  PROVE  Sound'
<1>1. source = "token" /\ source \notin Keysets /\ source \notin Offsets
  BY DEF ReadToken, Keysets, Offsets
<1>2. PICK p \in SUBSET (data \ Listed) :
        /\ Cardinality(p) <= Asked
        /\ \/ Listed \cup p = data /\ Serves(p, <<>>, TRUE)
           \/ p # {} /\ Serves(p, <<Listed \cup p, 0>>, FALSE)
           \/ p = {} /\ Empties = 0 /\ Serves(p, <<Listed, 1>>, FALSE)
  BY DEF ReadToken
<1>3. /\ Listed = acked
      /\ cursor = <<>> \/ cursor = <<acked, Empties>>
  BY <1>1 DEF Sound, Reading, AtCursor, Listed, Empties
<1>4. p \in SUBSET data /\ p \cap acked = {} /\ Cardinality(p) <= limit
  <2>1. p \in SUBSET data /\ p \cap acked = {}
    BY <1>2, <1>3
  <2>2. Cardinality(p) \in Nat /\ Asked \in Nat /\ limit \in Nat /\ Asked <= limit
    BY <2>1, Finite, Typed DEF Sound
  <2> QED
    BY <1>2, <2>1, <2>2
<1>5. CASE Listed \cup p = data /\ Serves(p, <<>>, TRUE)
  BY <1>3, <1>4, <1>5, Served
<1>6. CASE p # {} /\ Serves(p, <<Listed \cup p, 0>>, FALSE)
  <2>1. AtCursor(<<acked \cup p, 0>>, acked \cup p)
    BY <1>1 DEF AtCursor
  <2>2. <<acked \cup p, 0>> # <<>> /\ <<acked \cup p, 0>> # cursor
    BY <1>3, <1>4, <1>6
  <2> QED
    BY <1>3, <1>4, <1>6, <2>1, <2>2, Served
<1>7. CASE p = {} /\ Empties = 0 /\ Serves(p, <<Listed, 1>>, FALSE)
  <2>1. AtCursor(<<acked, 1>>, acked \cup p)
    BY <1>1, <1>7 DEF AtCursor
  <2>2. <<acked, 1>> # <<>> /\ <<acked, 1>> # cursor
    BY <1>3, <1>7
  <2> QED
    BY <1>3, <1>4, <1>7, <2>1, <2>2, Served
<1> QED
  BY <1>2, <1>5, <1>6, <1>7

LEMMA MarkStep ==
  ASSUME Sound, page = NoPage, ~finished, ReadMark
  PROVE  Sound'
<1>1. source = "mark" /\ source \notin Keysets /\ source \notin Offsets
  BY DEF ReadMark, Keysets, Offsets
<1>2. PICK p \in SUBSET (data \ Listed) :
        /\ Cardinality(p) = Least(Asked, Cardinality(data \ Listed))
        /\ Serves(p, <<Listed \cup p>>, Rested(p))
  BY DEF ReadMark
<1>3. Listed = acked /\ (cursor = <<>> \/ cursor = <<acked>>)
  BY <1>1 DEF Sound, Reading, AtCursor, Listed
<1>4. /\ p \in SUBSET data /\ p \cap acked = {} /\ Cardinality(p) <= limit
      /\ p = {} => acked \cup p = data
  <2>1. p \in SUBSET data /\ p \cap acked = {} /\ acked \in SUBSET data
    BY <1>2, <1>3 DEF Sound, TypeOK
  <2>2. /\ Cardinality(p) \in Nat /\ (p = {} => Cardinality(p) = 0)
        /\ Cardinality(data \ Listed) \in Nat /\ (Cardinality(data \ Listed) = 0 => data \ Listed = {})
    BY <2>1, Finite DEF Sound
  <2>3. Asked \in Nat \ {0} /\ limit \in Nat /\ Asked <= limit
    BY Typed DEF Sound
  <2>4. Cardinality(p) <= Asked /\ (Cardinality(p) = 0 => Cardinality(data \ Listed) = 0)
    BY <1>2, <2>2, <2>3 DEF Least
  <2> QED
    BY <1>3, <2>1, <2>2, <2>3, <2>4
<1>5. AtCursor(<<acked \cup p>>, acked \cup p)
  BY <1>1 DEF AtCursor
<1>6. <<acked \cup p>> # <<>> /\ (p # {} => <<acked \cup p>> # cursor)
  BY <1>3, <1>4
<1>7. Serves(p, <<acked \cup p>>, p = {}) /\ (p = {}) \in BOOLEAN
  BY <1>2, <1>3 DEF Rested
<1> QED
  BY <1>4, <1>5, <1>6, <1>7, Served

\* Half of a range is a range, below the same records.
LEMMA NarrowStep ==
  ASSUME Sound, page = NoPage, ~finished, Narrow
  PROVE  Sound'
<1>1. /\ source = "range" /\ high' = Middle
      /\ UNCHANGED <<pair, data, limit, cursor, finished, acked, page, todo, known, stored, late, faults>>
  BY DEF Narrow, job, writing, destination
<1>2. Low \in Ids /\ high \in Ids /\ Low <= high
  BY <1>1, Typed DEF Sound, Reading, AtCursor, TypeOK, Low, Keysets, Offsets
<1>3. Middle \in Low..high
  BY <1>2, MiddleIn DEF Middle
<1>4. Middle \in Ids /\ Low <= Middle
  <2>1. MinId \in Int /\ MaxId \in Int
    BY ConnectorAssumption
  <2> QED
    BY <1>2, <1>3, <2>1 DEF Ids
<1>5. TypeOK'
  BY <1>1, <1>4 DEF Sound, TypeOK, PageOK
<1>6. Reading'
  BY <1>1, <1>4 DEF Sound, Reading, AtCursor, source, Low, Front, Scanned, Positions
<1>7. Writing'
  BY <1>1 DEF Sound, Writing, CheckpointStored
<1> QED
  BY <1>5, <1>6, <1>7 DEF Sound

LEMMA RangeStep ==
  ASSUME Sound, page = NoPage, ~finished, ReadRange
  PROVE  Sound'
<1>1. /\ source = "range" /\ source \notin Keysets /\ source \notin Offsets
      /\ Cardinality(InRange) <= Asked
      /\ \/ high = MaxId /\ Serves(InRange, <<>>, TRUE)
         \/ high # MaxId /\ Serves(InRange, <<Wrapped(high + 1)>>, FALSE)
  BY DEF ReadRange, Keysets, Offsets
<1>2. /\ Low \in Ids /\ high \in Ids /\ Low <= high
      /\ acked = {x \in data : x < Low}
      /\ cursor = <<>> \/ cursor = <<Low>>
  <2>1. /\ \/ cursor = <<>> /\ acked = {}
           \/ \E low \in Ids : cursor = <<low>> /\ acked = {x \in data : x < low}
        /\ high \in Ids /\ Low <= high
    BY <1>1 DEF Sound, Reading, AtCursor, TypeOK
  <2>2. CASE cursor = <<>> /\ acked = {}
    <3>1. \A x \in data : ~(x < MinId)
      BY Typed, ConnectorAssumption DEF Sound, Ids
    <3> QED
      BY <2>1, <2>2, <3>1, Typed DEF Sound, Low
  <2>3. ASSUME NEW low \in Ids, cursor = <<low>>, acked = {x \in data : x < low}
        PROVE  /\ Low \in Ids /\ acked = {x \in data : x < Low} /\ cursor = <<Low>>
    <3>1. Low = low
      BY <2>3 DEF Low
    <3> QED
      BY <2>3, <3>1
  <2> QED
    BY <2>1, <2>2, <2>3
<1>3. /\ InRange \in SUBSET data /\ InRange \cap acked = {}
      /\ acked \cup InRange = {x \in data : x <= high}
  BY <1>2, Typed DEF Sound, InRange
<1>4. Cardinality(InRange) <= limit
  <2>1. Cardinality(InRange) \in Nat /\ Asked \in Nat /\ limit \in Nat /\ Asked <= limit
    BY <1>3, Finite, Typed DEF Sound
  <2> QED
    BY <1>1, <2>1
<1>5. CASE high = MaxId /\ Serves(InRange, <<>>, TRUE)
  <2>1. \A x \in data : x <= MaxId
    BY Typed, ConnectorAssumption DEF Sound, Ids
  <2>2. acked \cup InRange = data
    BY <1>3, <1>5, <2>1
  <2> QED
    BY <1>3, <1>4, <1>5, <2>2, Served
<1>6. CASE high # MaxId /\ Serves(InRange, <<Wrapped(high + 1)>>, FALSE)
  <2>1. Wrapped(high + 1) = high + 1 /\ high + 1 \in Ids
    BY <1>2, <1>6, NextId
  <2>2. high \in Int /\ Low \in Int /\ \A x \in data : x \in Int
    BY <1>2, Typed DEF Sound
  <2>3. acked \cup InRange = {x \in data : x < high + 1}
    BY <1>3, <2>2
  <2>4. AtCursor(<<high + 1>>, acked \cup InRange)
    BY <1>1, <2>1, <2>3 DEF AtCursor
  <2>5. high + 1 # Low
    BY <1>2, <2>2
  <2>6. <<high + 1>> # <<>> /\ <<high + 1>> # cursor
    BY <1>2, <2>5
  <2> QED
    BY <1>3, <1>4, <1>6, <2>1, <2>4, <2>6, Served
<1> QED
  BY <1>1, <1>5, <1>6

\* A page takes the first keys that wait, and leaves the others.
LEMMA Split ==
  ASSUME NEW pending \in Seq(data), NEW n \in 0..Len(pending)
  PROVE  LET front == SubSeq(pending, 1, n)
             rest == SubSeq(pending, n + 1, Len(pending))
         IN /\ rest \in Seq(data) /\ Len(rest) = Len(pending) - n
            /\ Keys(pending) = Keys(front) \cup Keys(rest)
            /\ Keys(front) \subseteq data
            /\ Cardinality(Keys(front)) <= n
<1> DEFINE front == SubSeq(pending, 1, n)
           rest == SubSeq(pending, n + 1, Len(pending))
<1>1. Len(pending) \in Nat /\ n \in Nat /\ n <= Len(pending)
  OBVIOUS
<1>2. /\ Len(front) = n /\ Len(rest) = Len(pending) - n
      /\ \A i \in 1..n : front[i] = pending[i]
      /\ \A i \in 1..(Len(pending) - n) : rest[i] = pending[n + i]
  BY <1>1
<1>3. \A i \in 1..Len(pending) : pending[i] \in data
  OBVIOUS
<1>4. rest \in Seq(data)
  BY <1>1, <1>3
<1>5. Keys(pending) = Keys(front) \cup Keys(rest)
  <2>1. \A i \in 1..Len(pending) : i \in 1..n \/ (i - n \in 1..(Len(pending) - n) /\ n + (i - n) = i)
    BY <1>1
  <2>2. \A i \in 1..(Len(pending) - n) : n + i \in 1..Len(pending)
    BY <1>1
  <2>3. \A i \in 1..n : i \in 1..Len(pending)
    BY <1>1
  <2> HIDE DEF front, rest
  <2>4. Keys(pending) \subseteq Keys(front) \cup Keys(rest)
    <3> SUFFICES ASSUME NEW i \in 1..Len(pending)
                 PROVE  pending[i] \in Keys(front) \cup Keys(rest)
      BY DEF Keys
    <3>1. CASE i \in 1..n
      BY <1>2, <3>1 DEF Keys
    <3>2. CASE i - n \in 1..(Len(pending) - n) /\ n + (i - n) = i
      <4>1. rest[i - n] = pending[i] /\ i - n \in 1..Len(rest)
        BY <1>2, <3>2
      <4> QED
        BY <4>1 DEF Keys
    <3> QED
      BY <2>1, <3>1, <3>2
  <2>5. \A i \in 1..Len(front) : i \in 1..Len(pending) /\ front[i] = pending[i]
    BY <1>2, <2>3
  <2>6. Keys(front) \subseteq Keys(pending)
    BY <2>5 DEF Keys
  <2>7. \A i \in 1..Len(rest) : n + i \in 1..Len(pending) /\ rest[i] = pending[n + i]
    BY <1>2, <2>2
  <2>8. Keys(rest) \subseteq Keys(pending)
    BY <2>7 DEF Keys
  <2> QED
    BY <2>4, <2>6, <2>8
<1>6. Keys(front) \subseteq data
  <2>1. Keys(pending) \subseteq data
    BY <1>3 DEF Keys
  <2> QED
    BY <1>5, <2>1
<1>7. Cardinality(Keys(front)) <= n
  <2> DEFINE f == [i \in 1..n |-> front[i]]
  <2>1. f \in Surjection(1..n, Keys(front))
    BY <1>2 DEF Surjection, Keys
  <2>2. ExistsSurjection(1..n, Keys(front))
    BY <2>1 DEF ExistsSurjection
  <2> QED
    BY <1>1, <2>2, FS_SurjCardinalityBound
<1> QED
  BY <1>2, <1>4, <1>5, <1>6, <1>7

\* A page of the keys that wait at a position, which stands for them and for
\* what was emitted.
LEMMA Paged ==
  ASSUME Sound, page = NoPage, ~finished, source = "scan",
         NEW at \in Positions, NEW pending \in Seq(data), Page(at, pending),
         acked \cup Keys(pending) = Scanned(at),
         \A rest \in Seq(data) :
           Len(rest) = Len(pending) - Least(Asked, Len(pending)) /\ (at = Zero => rest # <<>>)
             => cursor # <<at, rest>>
  PROVE  Sound'
<1> DEFINE n == Least(Asked, Len(pending))
           front == SubSeq(pending, 1, n)
           rest == SubSeq(pending, n + 1, Len(pending))
           done == at = Zero /\ rest = <<>>
<1>1. n \in 0..Len(pending) /\ n <= limit /\ limit \in Nat /\ n \in Nat
  BY Typed DEF Sound, Least
<1>2. /\ rest \in Seq(data) /\ Len(rest) = Len(pending) - n
      /\ Keys(pending) = Keys(front) \cup Keys(rest)
      /\ Keys(front) \subseteq data
      /\ Cardinality(Keys(front)) <= n
  BY <1>1, Split
<1>3. Serves(Keys(front), <<at, rest>>, done) /\ done \in BOOLEAN
  BY DEF Page
<1> HIDE DEF n, front, rest
<1>4. Cardinality(Keys(front)) <= limit
  <2>1. Cardinality(Keys(front)) \in Nat
    BY <1>2, Finite DEF Sound
  <2> QED
    BY <1>1, <1>2, <2>1
<1>5. (acked \cup Keys(front)) \cup Keys(rest) = Scanned(at)
  BY <1>2
<1>6. done => acked \cup Keys(front) = data
  BY <1>5 DEF Scanned, Keys
<1>7. ~done => AtCursor(<<at, rest>>, acked \cup Keys(front))
  BY <1>2, <1>5 DEF AtCursor
<1>8. <<at, rest>> # <<>> /\ (~done => <<at, rest>> # cursor)
  BY <1>2 DEF n
<1> QED
  BY <1>2, <1>3, <1>4, <1>6, <1>7, <1>8, Served

LEMMA ScanStep ==
  ASSUME Sound, page = NoPage, ~finished, NEW keys \in Replies, ReadScan(keys)
  PROVE  Sound'
<1>1. source = "scan" /\ source \notin Keysets /\ source \notin Offsets
  BY DEF ReadScan, Keysets, Offsets
<1>2. \/ cursor = <<>> /\ acked = {}
      \/ \E at \in Positions, rest \in Seq(data) :
           /\ cursor = <<at, rest>>
           /\ acked \cup Keys(rest) = Scanned(at)
           /\ at = Zero => rest # <<>>
  BY <1>1 DEF Sound, Reading, AtCursor
<1>3. Keys(<<>>) = {}
  BY DEF Keys
<1>4. Zero \in Positions /\ Zero.listed = {} /\ Zero.empties = 0
  BY DEF Zero, Positions
<1>5. keys \in Seq(data) /\ acked \in SUBSET data
  BY DEF Replies, Sound, TypeOK
<1>6. Len(<<>>) = 0 /\ <<>> \in Seq(data) /\ \A q \in Seq(data) : Len(q) \in Nat /\ (Len(q) = 0 <=> q = <<>>)
  OBVIOUS
<1>7. CASE Waiting # <<>> /\ keys = <<>> /\ Page(ScanAt, Waiting)
  <2>1. /\ ScanAt \in Positions /\ Waiting \in Seq(data) /\ cursor = <<ScanAt, Waiting>>
        /\ acked \cup Keys(Waiting) = Scanned(ScanAt)
    BY <1>2, <1>7 DEF ScanAt, Waiting
  <2>2. Least(Asked, Len(Waiting)) \in Nat /\ Least(Asked, Len(Waiting)) # 0
    BY <1>6, <1>7, <2>1, Typed DEF Sound, Least
  <2>3. \A rest \in Seq(data) :
          Len(rest) = Len(Waiting) - Least(Asked, Len(Waiting)) => cursor # <<ScanAt, rest>>
    BY <1>6, <2>1, <2>2
  <2> QED
    BY <1>1, <1>7, <2>1, <2>3, Paged
<1>8. ASSUME NEW fresh \in SUBSET (data \ ScanAt.listed), Waiting = <<>>, Reply(fresh, keys)
      PROVE  LET all == ScanAt.listed \cup fresh
             IN /\ all = data /\ Page(Zero, keys) => Sound'
                /\ keys # <<>> /\ fresh # {} /\ Page([listed |-> all, empties |-> 0], keys) => Sound'
                /\ keys = <<>> /\ ScanAt.empties = 0 /\ Page([listed |-> all, empties |-> 1], keys)
                     => Sound'
  <2> DEFINE all == ScanAt.listed \cup fresh
  <2>1. /\ ScanAt.listed = acked
        /\ cursor = <<>> \/ cursor = <<ScanAt, <<>> >>
    <3>1. CASE cursor = <<>> /\ acked = {}
      BY <1>4, <3>1 DEF ScanAt
    <3>2. ASSUME NEW at \in Positions, NEW rest \in Seq(data), cursor = <<at, rest>>,
                 acked \cup Keys(rest) = Scanned(at), at = Zero => rest # <<>>
          PROVE  ScanAt.listed = acked /\ cursor = <<ScanAt, <<>> >>
      <4>1. ScanAt = at /\ Waiting = rest
        BY <3>2 DEF ScanAt, Waiting
      <4>2. rest = <<>> /\ at # Zero
        BY <1>8, <3>2, <4>1
      <4> QED
        BY <1>3, <3>2, <4>1, <4>2 DEF Scanned
    <3> QED
      BY <1>2, <3>1, <3>2
  <2>2. acked \cup Keys(keys) = all /\ all \in SUBSET data
    BY <1>5, <1>8, <2>1 DEF Reply
  <2>3. ASSUME all = data, Page(Zero, keys) PROVE Sound'
    <3>1. \A rest \in Seq(data) : rest # <<>> => cursor # <<Zero, rest>>
      BY <2>1
    <3>2. acked \cup Keys(keys) = Scanned(Zero)
      BY <2>2, <2>3 DEF Scanned
    <3> QED
      BY <1>1, <1>4, <1>5, <2>3, <3>1, <3>2, Paged
  <2>4. ASSUME NEW m \in 0..1, m = 0 => fresh # {}, m = 1 => ScanAt.empties = 0,
               Page([listed |-> all, empties |-> m], keys)
        PROVE  Sound'
    <3> DEFINE at == [listed |-> all, empties |-> m]
    <3>1. at \in Positions /\ at.listed = all /\ at.empties = m
      BY <2>2 DEF Positions
    <3>2. at # Zero
      BY <1>4, <2>4, <3>1
    <3>3. at # ScanAt
      BY <1>8, <2>4, <3>1
    <3> HIDE DEF at
    <3>4. acked \cup Keys(keys) = Scanned(at)
      BY <2>2, <3>1, <3>2 DEF Scanned
    <3>5. \A rest \in Seq(data) : cursor # <<at, rest>>
      BY <2>1, <3>3
    <3>6. Page(at, keys)
      BY <2>4 DEF at
    <3> QED
      BY <1>1, <1>5, <3>1, <3>4, <3>5, <3>6, Paged
  <2> QED
    BY <2>3, <2>4
<1> QED
  BY <1>7, <1>8 DEF ReadScan

LEMMA ReadStep ==
  ASSUME Sound, Read
  PROVE  Sound'
  BY KeysetStep, OffsetStep, TokenStep, MarkStep, ScanStep, NarrowStep, RangeStep DEF Read

-----------------------------------------------------------------------------
(* Requests.                                                               *)

\* A request, of some records of the source, only takes fields away that are
\* not new; what is new stays, and nothing else appears.
LEMMA Applies ==
  ASSUME TypeOK, NEW request, NEW done \in SUBSET data, stored' = Applied(request, done)
  PROVE  /\ stored' \in [Ids -> SUBSET Fields]
         /\ \A x \in Ids : /\ stored'[x] \subseteq stored[x] \cup New
                           /\ stored[x] = New => stored'[x] = New
                           /\ x \notin done => stored'[x] = stored[x]
                           /\ x \in done => stored'[x] = (stored[x] \ request[x]) \cup New
<1>1. /\ \A x \in Ids : stored[x] \subseteq Fields
      /\ New \subseteq Fields
      /\ \A x \in Ids : stored'[x] = IF x \in done THEN (stored[x] \ request[x]) \cup New ELSE stored[x]
      /\ DOMAIN stored' = Ids /\ stored' = [x \in Ids |-> stored'[x]]
  BY DEF TypeOK, Applied, New, Fields
<1>2. \A x \in Ids : stored'[x] \subseteq Fields
  BY <1>1
<1>3. stored' \in [Ids -> SUBSET Fields]
  BY <1>1, <1>2
<1> QED
  BY <1>1, <1>3

\* What such a request leaves of the invariant, whatever becomes of the page.
LEMMA Disturbs ==
  ASSUME Sound,
         UNCHANGED <<pair, data, limit, acked>>,
         stored' \in [Ids -> SUBSET Fields],
         \A x \in Ids : /\ stored[x] = New => stored'[x] = New
                        /\ x \notin data => stored'[x] = stored[x]
  PROVE  /\ CheckpointStored'
         /\ \A x \in Ids : stored[x] = New => stored'[x] = New
<1>1. Before' = Before
  BY DEF Before
<1> QED
  BY <1>1 DEF Sound, Writing, CheckpointStored

\* The cursor and the page are left alone, or the page is dropped.
LEMMA SameReading ==
  ASSUME Sound, UNCHANGED <<pair, data, limit, cursor, high, finished, acked>>,
         page' = page \/ page' = NoPage
  PROVE  Reading'
<1>1. source' = source
  BY DEF source
<1>2. \A c, S : AtCursor(c, S)' <=> AtCursor(c, S)
  BY <1>1 DEF AtCursor, Front, Scanned, Positions
<1>3. page' # NoPage => Follows(page)'
  BY <1>1, <1>2 DEF Sound, Reading, Follows
<1>4. AtCursor(cursor, acked)' <=> AtCursor(cursor, acked)
  BY <1>2
<1> QED
  BY <1>1, <1>3, <1>4 DEF Sound, Reading, Low

\* The records of a request are of the page.
LEMMA Chunked ==
  ASSUME Sound, NEW c, Chunk(c)
  PROVE  /\ page # NoPage /\ c \subseteq todo
         /\ todo \subseteq page.records /\ page.records \subseteq data
         /\ c \subseteq data /\ data \subseteq Ids
  BY Typed DEF Chunk, Sound, TypeOK, PageOK

LEMMA LookStep ==
  ASSUME Sound, NEW c \in SUBSET todo, Look(c)
  PROVE  Sound'
<1>1. /\ Chunk(c) /\ known' = [x \in c |-> stored[x]]
      /\ UNCHANGED <<pair, data, limit, cursor, high, finished, acked, page, todo, stored, late, faults>>
  BY DEF Look, job, reading, destination
<1>2. c \subseteq data
  BY <1>1, Chunked
<1>3. TypeOK'
  BY <1>1 DEF Sound, TypeOK, PageOK
<1>4. Reading'
  BY <1>1, SameReading
<1>5. Writing'
  <2>1. DOMAIN known' = c /\ \A x \in c : known'[x] = stored[x]
    BY <1>1
  <2>2. CheckpointStored'
    BY <1>1 DEF Sound, Writing, CheckpointStored, Before
  <2> QED
    BY <1>1, <1>2, <2>1, <2>2 DEF Sound, Writing
<1> QED
  BY <1>3, <1>4, <1>5 DEF Sound

\* A request clears all fields, or those that its sender had read; and what
\* was there cannot have grown since, but by what is new.
LEMMA SendStep ==
  ASSUME Sound, NEW c \in SUBSET todo, Send(c)
  PROVE  Sound'
<1>1. /\ Ready(c) /\ Chunk(c) /\ stored' = Applied(Request(c), c)
      /\ todo' = todo \ c /\ known' = Unread
      /\ UNCHANGED <<pair, data, limit, cursor, high, finished, acked, page, late, faults>>
  BY DEF Send, Ready, job, reading
<1>2. /\ c \subseteq data /\ data \subseteq Ids /\ page # NoPage
      /\ todo \subseteq page.records /\ page.records \subseteq data
  BY <1>1, Chunked
<1>3. /\ stored' \in [Ids -> SUBSET Fields]
      /\ \A x \in Ids : /\ stored[x] = New => stored'[x] = New
                        /\ x \notin data => stored'[x] = stored[x]
                        /\ x \in c => stored'[x] = (stored[x] \ Request(c)[x]) \cup New
  <2>1. TypeOK /\ c \in SUBSET data
    BY <1>2 DEF Sound
  <2> QED
    BY <1>1, <1>2, <2>1, Applies
<1>4. \A x \in c : stored'[x] = New
  <2> SUFFICES ASSUME NEW x \in c PROVE stored'[x] = New
    OBVIOUS
  <2>1. /\ x \in Ids /\ stored[x] \subseteq Fields
        /\ stored'[x] = (stored[x] \ Request(c)[x]) \cup New
    BY <1>2, <1>3 DEF Sound, TypeOK
  <2>2. Request(c)[x] = IF sink = "merge" THEN known[x] \ New ELSE Fields
    BY DEF Request, Cleared
  <2>3. CASE sink = "merge"
    <3>1. stored[x] \subseteq known[x] \cup New
      BY <1>1, <2>3 DEF Ready, Sound, Writing
    <3> QED
      BY <2>1, <2>2, <2>3, <3>1
  <2>4. CASE sink # "merge"
    BY <2>1, <2>2, <2>4
  <2> QED
    BY <2>3, <2>4
<1>5. CheckpointStored'
  BY <1>1, <1>3, Disturbs
<1>6. TypeOK'
  BY <1>1, <1>2, <1>3 DEF Sound, TypeOK, PageOK
<1>7. Reading'
  BY <1>1, SameReading
<1>8. Writing'
  <2>1. \A x \in page'.records \ todo' : stored'[x] = New
    BY <1>1, <1>2, <1>3, <1>4 DEF Sound, Writing
  <2>2. DOMAIN known' = {}
    BY <1>1 DEF Unread
  <2> QED
    BY <1>1, <1>5, <2>1, <2>2 DEF Sound, Writing
<1> QED
  BY <1>6, <1>7, <1>8 DEF Sound

\* What is left of a page after an error is all of it, or nothing.
LEMMA SendFailsStep ==
  ASSUME Sound, NEW c \in SUBSET todo, SendFails(c)
  PROVE  Sound'
<1>1. /\ Ready(c) /\ Chunk(c) /\ known' = Unread
      /\ faults' \in 0..MaxFaults
      /\ \/ page' = page /\ page # NoPage /\ todo' = page.records
         \/ page' = NoPage /\ todo' = {}
      /\ UNCHANGED <<pair, data, limit, cursor, high, finished, acked>>
  BY ConnectorAssumption DEF SendFails, Ready, Fault, Again, Reread, job, reading, Sound, TypeOK
<1>2. /\ c \subseteq data /\ data \subseteq Ids
      /\ todo \subseteq page.records /\ page.records \subseteq data
  BY <1>1, Chunked
<1>3. /\ stored' \in [Ids -> SUBSET Fields]
      /\ \A x \in Ids : /\ stored[x] = New => stored'[x] = New
                        /\ x \notin data => stored'[x] = stored[x]
      /\ \A request \in late' : DOMAIN request \subseteq data
  <2>1. ASSUME NEW done \in SUBSET c, stored' = Applied(Request(c), done), late' = late
        PROVE  /\ stored' \in [Ids -> SUBSET Fields]
               /\ \A x \in Ids : /\ stored[x] = New => stored'[x] = New
                                 /\ x \notin data => stored'[x] = stored[x]
               /\ \A request \in late' : DOMAIN request \subseteq data
    <3>1. TypeOK /\ done \in SUBSET data
      BY <1>2 DEF Sound
    <3> QED
      BY <1>2, <2>1, <3>1, Applies DEF Sound, Writing
  <2>2. CASE late' = late \cup {Request(c)} /\ stored' = stored
    <3>1. DOMAIN Request(c) = c
      BY DEF Request
    <3> QED
      BY <1>2, <2>2, <3>1 DEF Sound, Writing, TypeOK
  <2> QED
    BY <2>1, <2>2 DEF SendFails
<1>4. CheckpointStored'
  BY <1>1, <1>3, Disturbs
<1>5. TypeOK'
  BY <1>1, <1>2, <1>3 DEF Sound, TypeOK, PageOK
<1>6. Reading'
  BY <1>1, SameReading
<1>7. Writing'
  <2>1. DOMAIN known' = {}
    BY <1>1 DEF Unread
  <2> QED
    BY <1>1, <1>3, <1>4, <2>1 DEF Writing
<1> QED
  BY <1>5, <1>6, <1>7 DEF Sound

\* A late request takes nothing new away, and adds nothing old.
LEMMA ArrivesStep ==
  ASSUME Sound, NEW request \in late, Arrives(request)
  PROVE  Sound'
<1>1. /\ stored' = Applied(request, DOMAIN request)
      /\ late' = late \ {request}
      /\ UNCHANGED <<pair, data, limit, cursor, high, finished, acked, page, todo, known, faults>>
  BY DEF Arrives, job, reading, writing
<1>2. TypeOK /\ DOMAIN request \in SUBSET data /\ data \subseteq Ids
  BY Typed DEF Sound, Writing
<1>3. /\ stored' \in [Ids -> SUBSET Fields]
      /\ \A x \in Ids : /\ stored'[x] \subseteq stored[x] \cup New
                        /\ stored[x] = New => stored'[x] = New
                        /\ x \notin data => stored'[x] = stored[x]
  BY <1>1, <1>2, Applies
<1>4. CheckpointStored'
  BY <1>1, <1>3, Disturbs
<1>5. TypeOK'
  BY <1>1, <1>3 DEF Sound, TypeOK, PageOK
<1>6. Reading'
  BY <1>1, SameReading
<1>7. Writing'
  <2>1. \A x \in DOMAIN known' : stored'[x] \subseteq known'[x] \cup New
    BY <1>1, <1>2, <1>3 DEF Sound, Writing
  <2>2. page' # NoPage => \A x \in page'.records \ todo' : stored'[x] = New
    BY <1>1, <1>2, <1>3 DEF Sound, Writing, TypeOK, PageOK
  <2> QED
    BY <1>1, <1>4, <2>1, <2>2 DEF Sound, Writing
<1> QED
  BY <1>5, <1>6, <1>7 DEF Sound

LEMMA RestartStep ==
  ASSUME Sound, Restart
  PROVE  Sound'
<1>1. /\ page' = NoPage /\ todo' = {} /\ known' = Unread /\ high' = MaxId
      /\ faults' \in 0..MaxFaults
      /\ UNCHANGED <<pair, data, limit, cursor, finished, acked, stored, late>>
  BY ConnectorAssumption DEF Restart, Reread, Fault, job, destination, Sound, TypeOK
<1>2. TypeOK'
  BY <1>1, Typed DEF Sound, TypeOK, PageOK
<1>3. Reading'
  <2>1. source' = source
    BY <1>1 DEF source
  <2>2. AtCursor(cursor, acked)' <=> AtCursor(cursor, acked)
    BY <1>1, <2>1 DEF AtCursor, Front, Scanned, Positions
  <2>3. source = "range" /\ ~finished => Low <= MaxId
    <3>1. source = "range" /\ ~finished => Low \in Ids
      BY Typed DEF Sound, Reading, AtCursor, Low, Keysets, Offsets
    <3> QED
      BY <3>1, ConnectorAssumption DEF Ids
  <2> QED
    BY <1>1, <2>1, <2>2, <2>3 DEF Sound, Reading, Low
<1>4. Writing'
  <2>1. DOMAIN known' = {}
    BY <1>1 DEF Unread
  <2> QED
    BY <1>1, <2>1 DEF Sound, Writing, CheckpointStored, Before
<1> QED
  BY <1>2, <1>3, <1>4 DEF Sound

\* The whole page is acknowledged, and the cursor says so.
LEMMA CheckpointStep ==
  ASSUME Sound, Checkpoint
  PROVE  Sound'
<1>1. /\ page # NoPage /\ todo = {} /\ page' = NoPage
      /\ cursor' = page.next /\ finished' = page.done
      /\ acked' = acked \cup page.records
      /\ UNCHANGED <<pair, data, limit, high, todo, known, stored, late, faults>>
  BY DEF Checkpoint, job, writing, destination
<1>2. Follows(page) /\ high = MaxId /\ page.records \subseteq data /\ page.done \in BOOLEAN
  BY <1>1 DEF Sound, Reading, TypeOK, PageOK
<1>3. TypeOK'
  BY <1>1, <1>2 DEF Sound, TypeOK, PageOK
<1>4. Reading'
  <2>1. source' = source
    BY <1>1 DEF source
  <2>2. ~page.done => AtCursor(page.next, acked \cup page.records)
    BY <1>2 DEF Follows
  <2>3. ~page.done => AtCursor(cursor, acked)'
    BY <1>1, <2>1, <2>2 DEF AtCursor, Front, Scanned, Positions
  <2>4. source = "range" /\ ~page.done => Low' \in Ids
    BY <1>1, <2>2, Typed DEF Sound, AtCursor, Low, Keysets, Offsets
  <2>5. source = "range" /\ ~page.done => Low' <= MaxId
    BY <2>4, ConnectorAssumption DEF Ids
  <2> QED
    BY <1>1, <1>2, <2>1, <2>3, <2>5 DEF Reading, Follows
<1>5. Writing'
  <2>1. \A x \in page.records : stored[x] = New
    BY <1>1 DEF Sound, Writing
  <2> QED
    BY <1>1, <2>1 DEF Sound, Writing, CheckpointStored, Before
<1> QED
  BY <1>3, <1>4, <1>5 DEF Sound

-----------------------------------------------------------------------------
(* The theorems.                                                           *)

LEMMA InitSound == Init => Sound
<1> SUFFICES ASSUME Init PROVE Sound
  OBVIOUS
<1>1. TypeOK
  <2>1. Before \in [Ids -> SUBSET Fields]
    BY DEF Before, Fields
  <2>2. MaxId \in Ids /\ 0 \in 0..MaxFaults
    BY ConnectorAssumption DEF Ids
  <2> QED
    BY <2>1, <2>2 DEF Init, TypeOK, PageOK
<1>2. Reading
  BY <1>1, ConnectorAssumption DEF Init, Reading, AtCursor, Low
<1>3. Writing
  BY DEF Init, Writing, CheckpointStored, Unread
<1> QED
  BY <1>1, <1>2, <1>3 DEF Sound

LEMMA NextSound == Sound /\ [Next]_vars => Sound'
<1> SUFFICES ASSUME Sound, [Next]_vars PROVE Sound'
  OBVIOUS
<1>1. CASE Read
  BY <1>1, ReadStep
<1>2. CASE Checkpoint
  BY <1>2, CheckpointStep
<1>3. ASSUME NEW c \in SUBSET todo, Look(c) \/ Send(c) \/ SendFails(c) PROVE Sound'
  BY <1>3, LookStep, SendStep, SendFailsStep
<1>4. ASSUME NEW request \in late, Arrives(request) PROVE Sound'
  BY <1>4, ArrivesStep
<1>5. CASE Restart
  BY <1>5, RestartStep
<1>6. CASE UNCHANGED vars
  <2>1. UNCHANGED <<pair, data, limit, cursor, high, finished, acked, page, todo, known, stored,
                    late, faults>>
    BY <1>6 DEF vars, job, reading, writing, destination
  <2>2. TypeOK'
    BY <2>1 DEF Sound, TypeOK, PageOK
  <2>3. Reading'
    BY <2>1, SameReading
  <2>4. Writing'
    BY <2>1 DEF Sound, Writing, CheckpointStored, Before
  <2> QED
    BY <2>2, <2>3, <2>4 DEF Sound
<1> QED
  BY <1>1, <1>2, <1>3, <1>4, <1>5, <1>6 DEF Next, Progress

\* The invariant holds in every reachable state.
THEOREM AlwaysSound == Spec => []Sound
  BY InitSound, NextSound, PTL DEF Spec

\* Every variable has its type: Serves writes what it read, and after an error
\* nothing is left to write without its page.
THEOREM TransferTypes == Spec => []TypeOK
<1>1. Sound => TypeOK
  BY DEF Sound
<1> QED
  BY <1>1, AlwaysSound, PTL

\* Every Read returns a page within the limit, with a cursor that is new
\* unless the scan is done, as validPage of the engine asks.
THEOREM PagesValid == Spec => []PagesKeepContract
<1>1. Sound => PagesKeepContract
  BY DEF Sound, Reading, Follows, PagesKeepContract
<1> QED
  BY <1>1, AlwaysSound, PTL

\* The last page of a scan leaves nothing behind: neither a short page, nor a
\* missing token, a mark at rest, a SCAN's zero or the last range.
THEOREM ScansComplete == Spec => []NothingSkipped
<1>1. Sound => NothingSkipped
  BY DEF Sound, Reading, NothingSkipped
<1> QED
  BY <1>1, AlwaysSound, PTL

\* A cursor leads behind what was emitted: but for SCAN, which may repeat a
\* key, no record comes twice.
THEOREM ScansOnce == Spec => []NothingTwice
<1>1. Sound => NothingTwice
  BY DEF Sound, Reading, Follows, NothingTwice
<1> QED
  BY <1>1, AlwaysSound, PTL

\* A checkpoint comes after the acknowledgement of every request of the page,
\* and no repeated or late request takes back what one of them wrote.
THEOREM CheckpointsHold == Spec => []CheckpointStored
<1>1. Sound => CheckpointStored
  BY DEF Sound, Writing
<1> QED
  BY <1>1, AlwaysSound, PTL
=============================================================================
