---------------------------- MODULE JournalProofs ----------------------------
(***************************************************************************)
(* Proofs about Journal, for every bound.                                  *)
(*                                                                         *)
(* The journal is intact because nothing is ever written behind a part of  *)
(* a line: a write that fails poisons the Store, and only OpenStore, which *)
(* drops that part, ends the poison.  While the Store accepts an append it *)
(* therefore stands at the end of the file, with the sequence and the hash *)
(* of the last line.                                                       *)
(***************************************************************************)
EXTENDS Journal, SequenceTheorems, WellFoundedInduction, NaturalsInduction, TLAPS

\* The types of TypeOK, with what was written so far for the bound.
RecordTo(n) == [key : Keys, spec : Specs, version : 0..n]
LineTo(n) ==
  [seq : 1..n, hash : 1..n, prev : 0..n, job : Jobs, rec : RecordTo(n)]

Typed ==
  /\ file \in Seq(LineTo(clock))
  /\ torn \in BOOLEAN
  /\ synced \in 0..Len(file)
  /\ up \in BOOLEAN
  /\ jobs \in [Jobs -> RecordTo(clock) \cup {NoJob}]
  /\ last \in [seq : 0..clock, hash : 0..clock]
  /\ poison \in BOOLEAN
  /\ writing \in LineTo(clock) \cup {NoLine}
  /\ clock \in 0..MaxLines
  /\ acked \subseteq 1..clock
  /\ answered \subseteq [key : Keys, spec : Specs, job : Jobs]
  /\ lost \in BOOLEAN

\* While appends are accepted, the file ends in a complete line.
Whole == up /\ ~poison => ~torn

\* The line whose fsync is awaited is the last one.
Pending ==
  writing # NoLine =>
    /\ up /\ ~poison
    /\ file # <<>>
    /\ writing = file[Len(file)]

\* While an append may start, the Store knows the last line.
AtEnd == Ready => last = End(file)

Sound == Typed /\ ChainIntact /\ AppendsLast /\ Whole /\ Pending /\ AtEnd

-----------------------------------------------------------------------------
\* The types only grow.
LEMMA TypesGrow ==
  ASSUME NEW n \in Nat
  PROVE  /\ RecordTo(n) \subseteq RecordTo(n + 1)
         /\ LineTo(n) \subseteq LineTo(n + 1)
<1>1. 0..n \subseteq 0..(n + 1) /\ 1..n \subseteq 1..(n + 1)
  OBVIOUS
<1>2. RecordTo(n) \subseteq RecordTo(n + 1)
  BY <1>1 DEF RecordTo
<1>3. LineTo(n) \subseteq LineTo(n + 1)
  BY <1>1, <1>2 DEF LineTo
<1> QED BY <1>2, <1>3

\* Typed implies TypeOK, since the clock stays within its bound.
LEMMA TypedImplies == Typed => TypeOK
<1> SUFFICES ASSUME Typed PROVE TypeOK
  OBVIOUS
<1>1. clock \in Nat /\ MaxLines \in Nat /\ clock <= MaxLines
  BY JournalAssumption DEF Typed
<1>2. 0..clock \subseteq 0..MaxLines /\ 1..clock \subseteq 1..MaxLines
  BY <1>1
<1>3. RecordTo(clock) \subseteq Record
  BY <1>2 DEF RecordTo, Record
<1>4. LineTo(clock) \subseteq Line
  BY <1>2, <1>3 DEF LineTo, Line
<1>5. file \in Seq(Line)
  BY <1>4, SeqMonotonic DEF Typed
<1>6. writing \in Line \cup {NoLine}
  BY <1>4 DEF Typed
<1>7. jobs \in [Jobs -> Record \cup {NoJob}]
  BY <1>3 DEF Typed
<1>8. last \in [seq : 0..MaxLines, hash : 0..MaxLines]
  BY <1>2 DEF Typed
<1>9. acked \subseteq 1..MaxLines
  BY <1>2 DEF Typed
<1> QED BY <1>5, <1>6, <1>7, <1>8, <1>9 DEF Typed, TypeOK

\* A set of line numbers that is not empty has a greatest one.
LEMMA LastOf ==
  ASSUME NEW n \in Nat, NEW T \in SUBSET (1..n), T # {}
  PROVE  \E i \in T : \A k \in T : k <= i
<1> DEFINE D == {n - i : i \in T}
<1>0. \A i \in T : i \in Nat /\ n - i \in Nat
  OBVIOUS
<1>1. D \subseteq Nat /\ D # {}
  <2>1. D \subseteq Nat
    BY <1>0
  <2>2. PICK i \in T : TRUE
    OBVIOUS
  <2>3. n - i \in D
    BY <2>2
  <2> QED BY <2>1, <2>3
<1>2. \E d \in D : \A e \in D : ~ (<<e, d>> \in OpToRel(<, Nat))
  BY <1>1, NatLessThanWellFounded, WFMin
<1>3. PICK d \in D : \A e \in D : ~ (<<e, d>> \in OpToRel(<, Nat))
  BY <1>2
<1>4. \A e \in D : ~ (e < d)
  BY <1>1, <1>3 DEF OpToRel
<1>5. PICK i \in T : d = n - i
  BY <1>3
<1>6. \A k \in T : k <= i
  <2> TAKE k \in T
  <2>1. n - k \in D
    OBVIOUS
  <2>2. ~ (n - k < n - i)
    BY <2>1, <1>4, <1>5
  <2>3. k \in Nat /\ i \in Nat
    BY <1>0
  <2> HIDE DEF D
  <2> QED BY <2>2, <2>3
<1> QED BY <1>6

\* What replay reads is typed like the lines.
LEMMA ReplayedTyped ==
  ASSUME NEW n \in Nat, NEW f \in Seq(LineTo(n))
  PROVE  Replayed(f) \in [Jobs -> RecordTo(n) \cup {NoJob}]
<1> DEFINE Lines(j) == {i \in 1..Len(f) : f[i].job = j}
           Chosen(j) == CHOOSE i \in Lines(j) : \A k \in Lines(j) : k <= i
           Value(j) == IF Lines(j) = {} THEN NoJob ELSE f[Chosen(j)].rec
<1>1. Replayed(f) = [j \in Jobs |-> Value(j)]
  BY DEF Replayed
<1>2. \A j \in Jobs : Value(j) \in RecordTo(n) \cup {NoJob}
  <2> TAKE j \in Jobs
  <2>1. CASE Lines(j) = {}
    BY <2>1
  <2>2. CASE Lines(j) # {}
    <3>1. Len(f) \in Nat
      BY LenProperties
    <3>2. Lines(j) \in SUBSET (1..Len(f))
      OBVIOUS
    <3>3. \E i \in Lines(j) : \A k \in Lines(j) : k <= i
      <4> HIDE DEF Lines
      <4> QED BY <2>2, <3>1, <3>2, LastOf
    <3>4. Chosen(j) \in Lines(j)
      BY <3>3
    <3>5. Chosen(j) \in 1..Len(f)
      BY <3>4, <3>2
    <3> HIDE DEF Chosen
    <3>6. f[Chosen(j)] \in LineTo(n)
      BY <3>5, ElementOfSeq
    <3>7. f[Chosen(j)].rec \in RecordTo(n)
      BY <3>6 DEF LineTo
    <3> QED BY <2>2, <3>7
  <2> QED BY <2>1, <2>2
<1> HIDE DEF Value
<1> QED BY <1>1, <1>2

\* The position that append and replay keep is typed.
LEMMA EndTyped ==
  ASSUME NEW n \in Nat, NEW f \in Seq(LineTo(n))
  PROVE  End(f) \in [seq : 0..n, hash : 0..n]
<1>1. CASE f = <<>>
  BY <1>1 DEF End, Start
<1>2. CASE f # <<>>
  <2>1. Len(f) \in 1..Len(f)
    BY <1>2, EmptySeq, LenProperties
  <2>2. f[Len(f)] \in LineTo(n)
    BY <2>1, ElementOfSeq
  <2> QED BY <1>2, <2>2 DEF End, LineTo
<1> QED BY <1>1, <1>2

\* A line that continues a chain keeps it.
LEMMA ChainGrows ==
  ASSUME NEW n \in Nat, NEW f \in Seq(LineTo(n)), Verifies(f),
         NEW line \in LineTo(n),
         line.seq = End(f).seq + 1, line.prev = End(f).hash
  PROVE  /\ Append(f, line) \in Seq(LineTo(n))
         /\ Len(Append(f, line)) = Len(f) + 1
         /\ \A i \in 1..Len(f) : Append(f, line)[i] = f[i]
         /\ Append(f, line)[Len(f) + 1] = line
         /\ Verifies(Append(f, line))
<1> DEFINE g == Append(f, line)
<1>0. Len(f) \in Nat
  BY LenProperties
<1>1. /\ g \in Seq(LineTo(n))
      /\ Len(g) = Len(f) + 1
      /\ \A i \in 1..Len(f) : g[i] = f[i]
      /\ g[Len(f) + 1] = line
  OBVIOUS
<1> HIDE DEF g
<1>2. line.seq = Len(f) + 1
  <2>1. CASE f = <<>>
    BY <2>1, EmptySeq DEF End, Start
  <2>2. CASE f # <<>>
    <3>1. Len(f) \in 1..Len(f)
      BY <2>2, EmptySeq, <1>0
    <3> QED BY <2>2, <3>1 DEF End, Verifies
  <2> QED BY <2>1, <2>2
<1>3. line.prev = IF Len(f) + 1 = 1 THEN 0 ELSE f[Len(f)].hash
  <2>1. CASE f = <<>>
    BY <2>1, EmptySeq DEF End, Start
  <2>2. CASE f # <<>>
    BY <2>2, EmptySeq, <1>0 DEF End
  <2> QED BY <2>1, <2>2
<1>4. Verifies(g)
  <2> SUFFICES ASSUME NEW i \in 1..Len(g)
               PROVE  /\ g[i].seq = i
                      /\ g[i].prev = IF i = 1 THEN 0 ELSE g[i - 1].hash
    BY DEF Verifies
  <2>1. CASE i \in 1..Len(f)
    <3>1. f[i].seq = i /\ f[i].prev = IF i = 1 THEN 0 ELSE f[i - 1].hash
      BY <2>1 DEF Verifies
    <3>2. i # 1 => i - 1 \in 1..Len(f)
      BY <2>1, <1>0
    <3> QED BY <2>1, <3>1, <3>2, <1>1
  <2>2. CASE i = Len(f) + 1
    <3>1. i # 1 => i - 1 \in 1..Len(f) /\ i - 1 = Len(f)
      BY <2>2, <1>0
    <3> QED BY <2>2, <3>1, <1>1, <1>2, <1>3
  <2> QED BY <2>1, <2>2, <1>1, <1>0
<1> QED BY <1>1, <1>4 DEF g

\* What is cut off at its end stays a chain.
LEMMA ChainCut ==
  ASSUME NEW n \in Nat, NEW f \in Seq(LineTo(n)), Verifies(f),
         NEW m \in 0..Len(f)
  PROVE  /\ SubSeq(f, 1, m) \in Seq(LineTo(n))
         /\ Len(SubSeq(f, 1, m)) = m
         /\ \A i \in 1..m : SubSeq(f, 1, m)[i] = f[i]
         /\ Verifies(SubSeq(f, 1, m))
<1> DEFINE g == SubSeq(f, 1, m)
<1>0. Len(f) \in Nat /\ m \in Nat /\ m <= Len(f)
  BY LenProperties
<1>1. \A i \in 1..m : f[i] \in LineTo(n)
  BY <1>0, ElementOfSeq
<1>2. /\ g \in Seq(LineTo(n))
      /\ Len(g) = IF 1 <= m THEN m - 1 + 1 ELSE 0
      /\ \A i \in 1..(m - 1 + 1) : g[i] = f[1 + i - 1]
  BY <1>0, <1>1, SubSeqProperties
<1> HIDE DEF g
<1>3. Len(g) = m /\ \A i \in 1..m : g[i] = f[i]
  BY <1>0, <1>2
<1>4. Verifies(g)
  <2> SUFFICES ASSUME NEW i \in 1..m
               PROVE  /\ g[i].seq = i
                      /\ g[i].prev = IF i = 1 THEN 0 ELSE g[i - 1].hash
    BY <1>3 DEF Verifies
  <2>1. f[i].seq = i /\ f[i].prev = IF i = 1 THEN 0 ELSE f[i - 1].hash
    BY <1>0 DEF Verifies
  <2>2. i # 1 => i - 1 \in 1..m
    BY <1>0
  <2> QED BY <2>1, <2>2, <1>3
<1> QED BY <1>2, <1>3, <1>4 DEF g

-----------------------------------------------------------------------------
\* The empty journal is sound.
LEMMA InitSound == Init => Sound
<1> SUFFICES ASSUME Init PROVE Sound
  OBVIOUS
<1>1. file \in Seq(LineTo(clock)) /\ Len(file) = 0
  BY EmptySeq DEF Init
<1>2. Typed
  <2>1. 0 \in 0..MaxLines /\ 0 \in 0..0
    BY JournalAssumption
  <2>2. jobs \in [Jobs -> RecordTo(clock) \cup {NoJob}]
    BY DEF Init
  <2>3. last \in [seq : 0..clock, hash : 0..clock]
    BY <2>1 DEF Init, Start
  <2> QED BY <1>1, <2>1, <2>2, <2>3 DEF Init, Typed
<1>3. ChainIntact /\ AppendsLast
  BY <1>1 DEF Init, ChainIntact, Verifies, AppendsLast
<1>4. Whole /\ Pending /\ AtEnd
  BY DEF Init, Whole, Pending, AtEnd, End
<1> QED BY <1>2, <1>3, <1>4 DEF Sound

\* The clock moves by one and everything keeps its type.
LEMMA ClockTicks ==
  ASSUME Typed, clock < MaxLines, clock' = clock + 1
  PROVE  /\ clock' \in 0..MaxLines
         /\ file \in Seq(LineTo(clock'))
         /\ jobs \in [Jobs -> RecordTo(clock') \cup {NoJob}]
         /\ last \in [seq : 0..clock', hash : 0..clock']
         /\ writing \in LineTo(clock') \cup {NoLine}
         /\ acked \subseteq 1..clock'
<1>1. clock \in Nat /\ MaxLines \in Nat
  BY JournalAssumption DEF Typed
<1>2. RecordTo(clock) \subseteq RecordTo(clock') /\ LineTo(clock) \subseteq LineTo(clock')
  BY <1>1, TypesGrow
<1>3. 0..clock \subseteq 0..clock' /\ 1..clock \subseteq 1..clock'
  BY <1>1
<1>4. clock' \in 0..MaxLines
  BY <1>1
<1>5. file \in Seq(LineTo(clock'))
  BY <1>2, SeqMonotonic DEF Typed
<1>6. jobs \in [Jobs -> RecordTo(clock') \cup {NoJob}]
  BY <1>2 DEF Typed
<1>7. last \in [seq : 0..clock', hash : 0..clock']
  BY <1>3 DEF Typed
<1>8. writing \in LineTo(clock') \cup {NoLine}
  BY <1>2 DEF Typed
<1>9. acked \subseteq 1..clock'
  BY <1>3 DEF Typed
<1> QED BY <1>4, <1>5, <1>6, <1>7, <1>8, <1>9

\* A write, complete or failed, of a record that is typed by the new clock.
LEMMA WriteSound ==
  ASSUME Sound, NEW j \in Jobs, NEW rec \in RecordTo(clock + 1), Write(j, rec)
  PROVE  Sound'
<1> DEFINE line == NewLine(j, rec)
<1>1. /\ up /\ ~poison /\ ~torn /\ writing = NoLine /\ last = End(file)
      /\ clock < MaxLines /\ clock' = clock + 1
      /\ UNCHANGED <<synced, up, jobs, last, acked, answered, lost>>
  BY DEF Sound, Write, Ready, Whole, AtEnd
<1>2. /\ clock' \in 0..MaxLines
      /\ file \in Seq(LineTo(clock'))
      /\ jobs \in [Jobs -> RecordTo(clock') \cup {NoJob}]
      /\ last \in [seq : 0..clock', hash : 0..clock']
      /\ acked \subseteq 1..clock'
  BY <1>1, ClockTicks DEF Sound
<1>3. Len(file) \in Nat /\ synced \in 0..Len(file) /\ clock \in Nat /\ clock' \in Nat
  BY <1>1, LenProperties DEF Sound, Typed
<1>4. CASE Written(line)
  <2>1. file' = Append(file, line) /\ torn' = FALSE /\ writing' = line /\ poison' = poison
    BY <1>1, <1>4 DEF Written
  <2>2. line \in LineTo(clock')
    <3>1. last.seq + 1 \in 1..clock' /\ clock + 1 \in 1..clock' /\ last.hash \in 0..clock'
      <4>1. last.seq \in 0..clock /\ last.hash \in 0..clock
        BY DEF Sound, Typed
      <4> QED BY <4>1, <1>1, <1>3
    <3> QED BY <3>1, <1>1 DEF NewLine, LineTo
  <2>3. line.seq = End(file).seq + 1 /\ line.prev = End(file).hash
    BY <1>1 DEF NewLine
  <2> HIDE DEF line
  <2>4. /\ file' \in Seq(LineTo(clock'))
        /\ Len(file') = Len(file) + 1
        /\ \A i \in 1..Len(file) : file'[i] = file[i]
        /\ file'[Len(file) + 1] = line
        /\ Verifies(file')
    <3> DEFINE n == clock'
    <3>1. n \in Nat /\ file \in Seq(LineTo(n)) /\ line \in LineTo(n) /\ Verifies(file)
      BY <1>2, <1>3, <2>2 DEF Sound, ChainIntact
    <3> HIDE DEF n
    <3>2. /\ Append(file, line) \in Seq(LineTo(n))
          /\ Len(Append(file, line)) = Len(file) + 1
          /\ \A i \in 1..Len(file) : Append(file, line)[i] = file[i]
          /\ Append(file, line)[Len(file) + 1] = line
          /\ Verifies(Append(file, line))
      BY <2>3, <3>1, ChainGrows
    <3> QED BY <2>1, <3>2 DEF n, Verifies
  <2>5. Typed'
    <3>1. synced' \in 0..Len(file')
      BY <1>1, <1>3, <2>4
    <3> QED BY <3>1, <1>1, <1>2, <2>1, <2>2, <2>4 DEF Typed, Sound
  <2>6. AppendsLast'
    <3> SUFFICES ASSUME NEW h \in acked
                 PROVE  \E i \in 1..synced : file'[i].hash = h
      BY <1>1 DEF AppendsLast
    <3>1. PICK i \in 1..synced : file[i].hash = h
      BY DEF Sound, AppendsLast
    <3>2. i \in 1..Len(file)
      BY <1>3
    <3> QED BY <3>1, <3>2, <2>4
  <2>7. line # NoLine
    BY <2>2, <1>3 DEF LineTo, NoLine
  <2>8. file' # <<>>
    BY <2>4, <1>3, EmptySeq
  <2>9. Pending'
    BY <1>1, <2>1, <2>4, <2>8 DEF Pending
  <2> QED BY <1>1, <2>1, <2>4, <2>5, <2>6, <2>7, <2>9
          DEF Sound, ChainIntact, Whole, AtEnd, Ready
<1>5. CASE WriteFails
  <2>1. /\ torn' \in BOOLEAN /\ poison' = TRUE /\ UNCHANGED <<file, writing>>
    BY <1>1, <1>5 DEF WriteFails, Sound, Typed
  <2>2. Typed'
    BY <1>1, <1>2, <2>1 DEF Typed, Sound
  <2>3. ChainIntact' /\ AppendsLast'
    BY <1>1, <2>1 DEF Sound, ChainIntact, Verifies, AppendsLast
  <2> QED BY <1>1, <2>1, <2>2, <2>3 DEF Sound, Whole, Pending, AtEnd, Ready
<1> QED BY <1>4, <1>5 DEF Write

\* The fsync: what was written becomes durable, or the Store is poisoned.
LEMMA SyncSound ==
  ASSUME Sound, Sync
  PROVE  Sound'
<1>1. /\ writing # NoLine /\ writing' = NoLine /\ UNCHANGED <<file, torn, up, clock, lost>>
      /\ up /\ ~poison /\ ~torn /\ file # <<>> /\ writing = file[Len(file)]
  BY DEF Sound, Sync, Pending, Whole
<1>2. Len(file) \in Nat /\ Len(file) \in 1..Len(file) /\ synced \in 0..Len(file)
  BY <1>1, LenProperties, EmptySeq DEF Sound, Typed
<1>3. writing \in LineTo(clock)
  BY <1>1 DEF Sound, Typed
<1>4. CASE SyncReturns
  <2>1. /\ synced' = Len(file)
        /\ jobs' = [jobs EXCEPT ![writing.job] = writing.rec]
        /\ last' = [seq |-> writing.seq, hash |-> writing.hash]
        /\ acked' = acked \cup {writing.hash}
        /\ poison' = poison
    BY <1>4 DEF SyncReturns, Synced
  <2>2. answered' \subseteq [key : Keys, spec : Specs, job : Jobs]
    BY <1>3, <1>4 DEF SyncReturns, Answer, LineTo, RecordTo, Sound, Typed
  <2>3. jobs' \in [Jobs -> RecordTo(clock) \cup {NoJob}]
    BY <1>3, <2>1 DEF LineTo, Sound, Typed
  <2>4. last' \in [seq : 0..clock, hash : 0..clock]
    BY <1>3, <2>1 DEF LineTo, Sound, Typed
  <2>5. acked' \subseteq 1..clock
    BY <1>3, <2>1 DEF LineTo, Sound, Typed
  <2>6. Typed'
    BY <1>1, <1>2, <2>1, <2>2, <2>3, <2>4, <2>5 DEF Sound, Typed
  <2>7. AppendsLast'
    <3> SUFFICES ASSUME NEW h \in acked'
                 PROVE  \E i \in 1..synced' : file[i].hash = h
      BY <1>1 DEF AppendsLast
    <3>1. CASE h = writing.hash
      BY <3>1, <1>1, <1>2, <2>1
    <3>2. CASE h \in acked
      <4>1. PICK i \in 1..synced : file[i].hash = h
        BY <3>2 DEF Sound, AppendsLast
      <4>2. i \in 1..Len(file)
        BY <1>2
      <4> QED BY <4>1, <4>2, <2>1
    <3> QED BY <3>1, <3>2, <2>1
  <2>8. last' = End(file)
    BY <1>1, <2>1 DEF End
  <2>9. ChainIntact'
    BY <1>1 DEF Sound, ChainIntact, Verifies
  <2> QED BY <1>1, <2>1, <2>6, <2>7, <2>8, <2>9 DEF Sound, Whole, Pending, AtEnd, End
<1>5. CASE SyncFails
  <2>1. poison' = TRUE /\ UNCHANGED <<synced, jobs, last, acked, answered>>
    BY <1>5 DEF SyncFails
  <2>2. Typed'
    BY <1>1, <2>1 DEF Sound, Typed
  <2>3. ChainIntact' /\ AppendsLast'
    BY <1>1, <2>1 DEF Sound, ChainIntact, Verifies, AppendsLast
  <2> QED BY <1>1, <2>1, <2>2, <2>3 DEF Sound, Whole, Pending, AtEnd, Ready
<1> QED BY <1>4, <1>5 DEF Sync

\* Create and Update write records of the new clock.
LEMMA WritersSound ==
  ASSUME Sound,
         \/ \E key \in Keys, spec \in Specs : Create(key, spec)
         \/ \E j \in Jobs : Update(j)
  PROVE  Sound'
<1>0. clock \in Nat
  BY JournalAssumption DEF Sound, Typed
<1>1. ASSUME NEW key \in Keys, NEW spec \in Specs, Create(key, spec)
      PROVE  Sound'
  <2>1. PICK j \in Fresh : Write(j, [key |-> key, spec |-> spec, version |-> 0])
    BY <1>1 DEF Create
  <2>2. j \in Jobs
    BY DEF Fresh
  <2>3. [key |-> key, spec |-> spec, version |-> 0] \in RecordTo(clock + 1)
    BY <1>0, <1>1 DEF RecordTo
  <2> QED BY <2>1, <2>2, <2>3, WriteSound
<1>2. ASSUME NEW j \in Jobs, Update(j)
      PROVE  Sound'
  <2>1. jobs[j] \in RecordTo(clock)
    BY <1>2 DEF Update, Sound, Typed
  <2>2. /\ jobs[j].version + 1 \in 0..(clock + 1)
        /\ jobs[j] \in [key : Keys, spec : Specs, version : 0..clock]
    BY <1>0, <2>1 DEF RecordTo
  <2>3. [jobs[j] EXCEPT !.version = @ + 1] \in RecordTo(clock + 1)
    BY <2>2 DEF RecordTo
  <2> QED BY <1>2, <2>3, WriteSound DEF Update
<1> QED BY <1>1, <1>2

\* A repeated submission writes nothing.
LEMMA RepeatSound ==
  ASSUME Sound, NEW key \in Keys, NEW spec \in Specs, Repeat(key, spec)
  PROVE  Sound'
<1>1. PICK j \in Known(key) : answered' = answered \cup {Answer(jobs[j], j)}
  BY DEF Repeat
<1>2. j \in Jobs /\ jobs[j] \in RecordTo(clock)
  BY DEF Known, Sound, Typed
<1>3. answered' \subseteq [key : Keys, spec : Specs, job : Jobs]
  BY <1>1, <1>2 DEF Answer, RecordTo, Sound, Typed
<1>4. UNCHANGED <<file, torn, synced, up, jobs, last, poison, writing, clock, acked, lost>>
  BY DEF Repeat
<1> QED BY <1>3, <1>4
        DEF Sound, Typed, ChainIntact, Verifies, AppendsLast, Whole, Pending, AtEnd, Ready, End

\* The process ends.
LEMMA KillSound ==
  ASSUME Sound, Kill
  PROVE  Sound'
  BY DEF Kill, Down, Sound, Typed, ChainIntact, Verifies, AppendsLast, Whole,
         Pending, AtEnd, Ready, NoLine

\* The host ends: what is cut off was not durable.
LEMMA PowerFailsSound ==
  ASSUME Sound, PowerFails
  PROVE  Sound'
<1>1. PICK n \in synced..Len(file) :
        /\ file' = SubSeq(file, 1, n)
        /\ synced' = n
        /\ torn' \in IF n < Len(file) THEN BOOLEAN ELSE {FALSE, torn}
  BY DEF PowerFails
<1>2. /\ up' = FALSE /\ writing' = NoLine
      /\ UNCHANGED <<jobs, last, poison, clock, acked, answered>>
  BY DEF PowerFails, Down
<1>3. /\ Len(file) \in Nat /\ synced \in 0..Len(file) /\ n \in 0..Len(file)
      /\ n \in Nat /\ clock \in Nat
  BY <1>1, LenProperties, JournalAssumption DEF Sound, Typed
<1>4. /\ file' \in Seq(LineTo(clock))
      /\ Len(file') = n
      /\ \A i \in 1..n : file'[i] = file[i]
      /\ Verifies(file')
  <2>1. /\ SubSeq(file, 1, n) \in Seq(LineTo(clock))
        /\ Len(SubSeq(file, 1, n)) = n
        /\ \A i \in 1..n : SubSeq(file, 1, n)[i] = file[i]
        /\ Verifies(SubSeq(file, 1, n))
    BY <1>3, ChainCut DEF Sound, Typed, ChainIntact
  <2> QED BY <1>1, <2>1 DEF Verifies
<1>5. torn' \in BOOLEAN
  BY <1>1 DEF Sound, Typed
<1>6. Typed'
  <2>1. clock' = clock /\ file' \in Seq(LineTo(clock')) /\ synced' \in 0..Len(file')
    BY <1>1, <1>2, <1>3, <1>4
  <2>2. /\ jobs' \in [Jobs -> RecordTo(clock') \cup {NoJob}]
        /\ last' \in [seq : 0..clock', hash : 0..clock']
        /\ poison' \in BOOLEAN
        /\ clock' \in 0..MaxLines
        /\ acked' \subseteq 1..clock'
        /\ answered' \subseteq [key : Keys, spec : Specs, job : Jobs]
    BY <1>2 DEF Sound, Typed
  <2>3. lost' \in BOOLEAN
    BY DEF PowerFails
  <2> QED BY <1>2, <1>5, <2>1, <2>2, <2>3 DEF Typed
<1>7. AppendsLast'
  <2> SUFFICES ASSUME NEW h \in acked
               PROVE  \E i \in 1..n : file'[i].hash = h
    BY <1>1, <1>2 DEF AppendsLast
  <2>1. PICK i \in 1..synced : file[i].hash = h
    BY DEF Sound, AppendsLast
  <2>2. i \in 1..n
    BY <1>1, <1>3
  <2> QED BY <2>1, <2>2, <1>4
<1> QED BY <1>2, <1>4, <1>6, <1>7 DEF Sound, ChainIntact, Whole, Pending, AtEnd, Ready

\* OpenStore: the memory is what the lines say, and no part of a line is left.
LEMMA OpenSound ==
  ASSUME Sound, OpenStore
  PROVE  Sound'
<1>1. /\ jobs' = Replayed(file) /\ last' = End(file)
      /\ torn' = FALSE /\ poison' = FALSE
      /\ synced' = IF torn THEN Len(file) ELSE synced
      /\ UNCHANGED <<file, writing, clock, acked, answered, lost>>
  BY DEF OpenStore
<1>2. /\ clock \in Nat /\ file \in Seq(LineTo(clock)) /\ Len(file) \in Nat
      /\ synced \in 0..Len(file) /\ synced' \in synced..Len(file)
  BY <1>1, LenProperties, JournalAssumption DEF Sound, Typed
<1>3. jobs' \in [Jobs -> RecordTo(clock) \cup {NoJob}]
  BY <1>1, <1>2, ReplayedTyped
<1>4. last' \in [seq : 0..clock, hash : 0..clock]
  BY <1>1, <1>2, EndTyped
<1>5. Typed'
  <2>1. clock' = clock /\ file' \in Seq(LineTo(clock')) /\ synced' \in 0..Len(file')
    BY <1>1, <1>2
  <2>2. /\ torn' \in BOOLEAN /\ up' \in BOOLEAN /\ poison' \in BOOLEAN
        /\ writing' \in LineTo(clock') \cup {NoLine}
        /\ clock' \in 0..MaxLines
        /\ acked' \subseteq 1..clock'
        /\ answered' \subseteq [key : Keys, spec : Specs, job : Jobs]
        /\ lost' \in BOOLEAN
    BY <1>1, <2>1 DEF Sound, Typed, OpenStore
  <2>3. /\ jobs' \in [Jobs -> RecordTo(clock') \cup {NoJob}]
        /\ last' \in [seq : 0..clock', hash : 0..clock']
    BY <1>3, <1>4, <2>1
  <2> QED BY <2>1, <2>2, <2>3 DEF Typed
<1>6. AppendsLast'
  <2> SUFFICES ASSUME NEW h \in acked
               PROVE  \E i \in 1..synced' : file[i].hash = h
    BY <1>1 DEF AppendsLast
  <2>1. PICK i \in 1..synced : file[i].hash = h
    BY DEF Sound, AppendsLast
  <2> QED BY <2>1, <1>2
<1>7. writing = NoLine
  BY DEF Sound, Pending, OpenStore
<1>8. ChainIntact' /\ Whole' /\ AtEnd' /\ Pending'
  BY <1>1, <1>7 DEF Sound, ChainIntact, Verifies, Whole, AtEnd, Pending, End
<1> QED BY <1>5, <1>6, <1>8 DEF Sound

\* Every step keeps the invariant.
LEMMA NextSound == Sound /\ [Next]_vars => Sound'
<1> SUFFICES ASSUME Sound, [Next]_vars PROVE Sound'
  OBVIOUS
<1>1. CASE \E key \in Keys, spec \in Specs : Create(key, spec)
  BY <1>1, WritersSound
<1>2. CASE \E key \in Keys, spec \in Specs : Repeat(key, spec)
  BY <1>2, RepeatSound
<1>3. CASE \E j \in Jobs : Update(j)
  BY <1>3, WritersSound
<1>4. CASE Sync
  BY <1>4, SyncSound
<1>5. CASE Kill
  BY <1>5, KillSound
<1>6. CASE PowerFails
  BY <1>6, PowerFailsSound
<1>7. CASE OpenStore
  BY <1>7, OpenSound
<1>8. CASE UNCHANGED vars
  BY <1>8 DEF vars, Sound, Typed, ChainIntact, Verifies, AppendsLast, Whole,
              Pending, AtEnd, Ready, End
<1> QED BY <1>1, <1>2, <1>3, <1>4, <1>5, <1>6, <1>7, <1>8 DEF Next

-----------------------------------------------------------------------------
\* The file, the Store's memory and what callers were told keep their types.
THEOREM JournalTypes == Spec => []TypeOK
<1>1. Sound => TypeOK
  BY TypedImplies DEF Sound
<1> QED BY <1>1, InitSound, NextSound, PTL DEF Spec

\* OpenStore never meets a journal that fails its integrity check, whatever
\* write or fsync failed, and wherever a process or the host ended
\* (store.go:139-169).
THEOREM JournalIntact == Spec => []ChainIntact
<1>1. Sound => ChainIntact
  BY DEF Sound
<1> QED BY <1>1, InitSound, NextSound, PTL DEF Spec

\* An append that reported success is on the medium, and stays there
\* (store.go:171-201).
THEOREM AppendsDurable == Spec => []AppendsLast
<1>1. Sound => AppendsLast
  BY DEF Sound
<1> QED BY <1>1, InitSound, NextSound, PTL DEF Spec

-----------------------------------------------------------------------------
(* Until the host fails, Journal implements StoreContract.                 *)

\* The memory of a Store that is open and not poisoned is what a replay of
\* the lines yields, but for the line whose fsync is awaited.
Remembers == up /\ ~poison => jobs = Replayed(Settled)

\* Replaying one more line replaces the record of its job.
LEMMA ReplayLast ==
  ASSUME NEW n \in Nat, NEW f \in Seq(LineTo(n)), f # <<>>
  PROVE  Replayed(f) = [Replayed(SubSeq(f, 1, Len(f) - 1))
                          EXCEPT ![f[Len(f)].job] = f[Len(f)].rec]
<1> DEFINE m == Len(f)
           g == SubSeq(f, 1, m - 1)
           Lines(h, j) == {i \in 1..Len(h) : h[i].job = j}
           Value(h, j) == IF Lines(h, j) = {} THEN NoJob
                          ELSE h[CHOOSE i \in Lines(h, j) : \A k \in Lines(h, j) : k <= i].rec
<1>1. m \in Nat /\ m >= 1 /\ m \in 1..m /\ m - 1 \in 0..m /\ m - 1 \in Nat
  BY EmptySeq, LenProperties
<1>2. Len(g) = m - 1 /\ \A i \in 1..(m - 1) : g[i] = f[i]
  <2>1. \A i \in 1..(m - 1) : f[i] \in LineTo(n)
    BY <1>1, ElementOfSeq
  <2>2. /\ Len(g) = IF 1 <= m - 1 THEN (m - 1) - 1 + 1 ELSE 0
        /\ \A i \in 1..((m - 1) - 1 + 1) : g[i] = f[1 + i - 1]
    BY <1>1, <2>1, SubSeqProperties
  <2> HIDE DEF m, g
  <2>3. Len(g) = m - 1 /\ (m - 1) - 1 + 1 = m - 1
    BY <1>1, <2>2
  <2>4. ASSUME NEW i \in 1..(m - 1) PROVE g[i] = f[i]
    <3>1. g[i] = f[1 + i - 1] /\ 1 + i - 1 = i
      BY <2>2, <2>3
    <3> QED BY <3>1
  <2> QED BY <2>3, <2>4
<1>3. Replayed(f) = [j \in Jobs |-> Value(f, j)] /\ Replayed(g) = [j \in Jobs |-> Value(g, j)]
  BY DEF Replayed
<1> HIDE DEF m, g
<1>4. ASSUME NEW j \in Jobs, j = f[m].job
      PROVE  Value(f, j) = f[m].rec
  <2>1. m \in Lines(f, j)
    BY <1>1, <1>4 DEF m
  <2>2. \A k \in Lines(f, j) : k \in Nat /\ k <= m
    BY <1>1 DEF m
  <2>3. (CHOOSE i \in Lines(f, j) : \A k \in Lines(f, j) : k <= i) = m
    <3> HIDE DEF Lines
    <3> DEFINE c == CHOOSE i \in Lines(f, j) : \A k \in Lines(f, j) : k <= i
    <3>1. c \in Lines(f, j) /\ \A k \in Lines(f, j) : k <= c
      BY <2>1, <2>2
    <3>2. c \in Nat /\ c <= m /\ m <= c
      BY <2>1, <2>2, <3>1
    <3> HIDE DEF c
    <3>3. c = m
      BY <3>2, <1>1
    <3> QED BY <3>3 DEF c
  <2> QED BY <2>1, <2>3
<1>5. ASSUME NEW j \in Jobs, j # f[m].job
      PROVE  Value(f, j) = Value(g, j)
  <2>1. Lines(f, j) = Lines(g, j)
    <3>1. \A i : i \in Lines(f, j) => i \in Lines(g, j)
      BY <1>1, <1>2, <1>5 DEF m
    <3>2. \A i : i \in Lines(g, j) => i \in Lines(f, j)
      BY <1>1, <1>2 DEF m
    <3> QED BY <3>1, <3>2
  <2>2. CASE Lines(f, j) = {}
    BY <2>1, <2>2
  <2>3. CASE Lines(f, j) # {}
    <3> DEFINE c == CHOOSE i \in Lines(f, j) : \A k \in Lines(f, j) : k <= i
    <3>1. \E i \in Lines(f, j) : \A k \in Lines(f, j) : k <= i
      <4>1. Lines(f, j) \in SUBSET (1..m)
        BY DEF m
      <4> HIDE DEF Lines
      <4> QED BY <1>1, <2>3, <4>1, LastOf
    <3>2. c \in Lines(f, j)
      BY <3>1
    <3>3. c \in Lines(g, j)
      BY <2>1, <3>2
    <3>4. c = CHOOSE i \in Lines(g, j) : \A k \in Lines(g, j) : k <= i
      BY <2>1
    <3>5. f[c].rec = g[c].rec
      <4>1. c \in 1..Len(g)
        BY <3>3
      <4> HIDE DEF c
      <4> QED BY <4>1, <1>2
    <3>6. Value(f, j) = f[c].rec
      BY <2>3
    <3>7. Value(g, j) = g[c].rec
      BY <2>1, <2>3, <3>4
    <3> QED BY <3>5, <3>6, <3>7
  <2> QED BY <2>2, <2>3
<1> HIDE DEF Value
<1>6. Replayed(f) = [Replayed(g) EXCEPT ![f[m].job] = f[m].rec]
  BY <1>3, <1>4, <1>5
<1> QED BY <1>6 DEF m, g

\* A line that is written and not yet fsynced is not settled.
LEMMA WrittenUnsettled ==
  ASSUME NEW n \in Nat, NEW f \in Seq(LineTo(n)), NEW line
  PROVE  SubSeq(Append(f, line), 1, Len(Append(f, line)) - 1) = f
<1>1. Len(f) \in Nat /\ Len(Append(f, line)) = Len(f) + 1
  BY LenProperties
<1>2. SubSeq(Append(f, line), 1, Len(f)) = f
  OBVIOUS
<1> QED BY <1>1, <1>2

\* What a write leaves: nothing settled changed, and a failure shuts the Store.
LEMMA WriteKeeps ==
  ASSUME Sound, NEW j, NEW rec, Write(j, rec)
  PROVE  /\ ~poison /\ up /\ UNCHANGED <<up, jobs>>
         /\ Settled' = Settled
         /\ poison' = poison \/ poison' = TRUE
<1>1. ~poison /\ up /\ ~torn /\ writing = NoLine /\ UNCHANGED <<up, jobs>>
  BY DEF Sound, Write, Ready, Whole
<1>2. Settled = file
  BY <1>1 DEF Settled
<1>3. CASE Written(NewLine(j, rec))
  <2>1. file' = Append(file, NewLine(j, rec)) /\ writing' = NewLine(j, rec) /\ poison' = poison
    BY <1>1, <1>3 DEF Written
  <2>2. writing' # NoLine
    <3>1. last.seq \in Nat
      BY JournalAssumption DEF Sound, Typed
    <3>2. writing'.seq = last.seq + 1 /\ NoLine.seq = 0
      BY <2>1 DEF NewLine, NoLine
    <3> QED BY <3>1, <3>2
  <2>3. SubSeq(file', 1, Len(file') - 1) = file
    BY <2>1, WrittenUnsettled, JournalAssumption DEF Sound, Typed
  <2> QED BY <1>1, <1>2, <2>1, <2>2, <2>3 DEF Settled
<1>4. CASE WriteFails
  BY <1>1, <1>4 DEF WriteFails, Settled
<1> QED BY <1>1, <1>3, <1>4 DEF Write

\* The fsync settles the last line, whether or not it reports success.
LEMMA SyncKeeps ==
  ASSUME Sound, Sync
  PROVE  /\ up /\ ~poison /\ up' = up
         /\ writing.job \in Jobs /\ writing.rec \in Record
         /\ Replayed(Settled') = [Replayed(Settled) EXCEPT ![writing.job] = writing.rec]
<1>1. /\ writing # NoLine /\ writing' = NoLine /\ file' = file
      /\ up /\ ~poison /\ up' = up
      /\ file # <<>> /\ writing = file[Len(file)]
  BY DEF Sound, Sync, Pending
<1>2. clock \in Nat /\ file \in Seq(LineTo(clock)) /\ writing \in LineTo(clock)
  BY <1>1, JournalAssumption DEF Sound, Typed
<1>3. Replayed(file) = [Replayed(SubSeq(file, 1, Len(file) - 1))
                          EXCEPT ![file[Len(file)].job] = file[Len(file)].rec]
  BY <1>1, <1>2, ReplayLast
<1>4. writing.job \in Jobs /\ writing.rec \in RecordTo(clock)
  BY <1>2 DEF LineTo
<1>5. writing.rec \in Record
  <2>1. 0..clock \subseteq 0..MaxLines
    BY JournalAssumption DEF Sound, Typed
  <2> QED BY <1>4, <2>1 DEF Record, RecordTo
<1>6. Settled' = file /\ Settled = SubSeq(file, 1, Len(file) - 1)
  BY <1>1 DEF Settled
<1> QED BY <1>1, <1>3, <1>4, <1>5, <1>6

Remembering == Sound /\ Remembers

\* The memory stays what the lines say.
LEMMA NextRemembers == Remembering /\ [Next]_vars => Remembers'
<1> SUFFICES ASSUME Remembering, [Next]_vars PROVE Remembers'
  OBVIOUS
<1>0. Sound /\ Remembers
  BY DEF Remembering
<1>1. ASSUME NEW j, NEW rec, Write(j, rec) PROVE Remembers'
  <2>1. /\ ~poison /\ up /\ up' = up /\ jobs' = jobs /\ Settled' = Settled
    BY <1>0, <1>1, WriteKeeps
  <2>2. jobs = Replayed(Settled)
    BY <1>0, <2>1 DEF Remembers
  <2> QED BY <2>1, <2>2 DEF Remembers
<1>2. CASE \E key \in Keys, spec \in Specs : Create(key, spec)
  BY <1>1, <1>2 DEF Create
<1>3. CASE \E j \in Jobs : Update(j)
  BY <1>1, <1>3 DEF Update
<1>4. CASE \E key \in Keys, spec \in Specs : Repeat(key, spec)
  <2>1. /\ up' = up /\ poison' = poison /\ jobs' = jobs
        /\ file' = file /\ writing' = writing
    BY <1>4 DEF Repeat
  <2>2. Settled' = Settled
    BY <2>1 DEF Settled
  <2> QED BY <1>0, <2>1, <2>2 DEF Remembers
<1>5. CASE Sync
  <2>1. /\ up /\ ~poison /\ up' = up
        /\ Replayed(Settled') = [Replayed(Settled) EXCEPT ![writing.job] = writing.rec]
    BY <1>0, <1>5, SyncKeeps
  <2>2. jobs = Replayed(Settled)
    BY <1>0, <2>1 DEF Remembers
  <2>3. CASE SyncReturns
    BY <2>1, <2>2, <2>3 DEF SyncReturns, Remembers
  <2>4. CASE SyncFails
    BY <2>4 DEF SyncFails, Remembers
  <2> QED BY <1>5, <2>3, <2>4 DEF Sync
<1>6. CASE Kill
  BY <1>6 DEF Kill, Down, Remembers
<1>7. CASE PowerFails
  BY <1>7 DEF PowerFails, Down, Remembers
<1>8. CASE OpenStore
  <2>1. writing = NoLine
    BY <1>0, <1>8 DEF Sound, Pending, OpenStore
  <2>2. Settled' = file
    BY <1>8, <2>1 DEF OpenStore, Settled
  <2> QED BY <1>8, <2>2 DEF OpenStore, Remembers
<1>9. CASE UNCHANGED vars
  <2>1. /\ up' = up /\ poison' = poison /\ jobs' = jobs
        /\ file' = file /\ writing' = writing
    BY <1>9 DEF vars
  <2>2. Settled' = Settled
    BY <2>1 DEF Settled
  <2> QED BY <1>0, <2>1, <2>2 DEF Remembers
<1> QED BY <1>2, <1>3, <1>4, <1>5, <1>6, <1>7, <1>8, <1>9 DEF Next

\* Initially the memory and the file are empty.
LEMMA InitRemembers == Init => Remembers
<1> SUFFICES ASSUME Init PROVE Remembers
  OBVIOUS
<1>1. Settled = <<>> /\ Len(Settled) = 0
  BY EmptySeq DEF Init, Settled
<1>2. Replayed(Settled) = [j \in Jobs |-> NoJob]
  <2>1. \A j \in Jobs : {i \in 1..Len(Settled) : Settled[i].job = j} = {}
    BY <1>1
  <2> QED BY <2>1 DEF Replayed
<1> QED BY <1>2 DEF Init, Remembers

\* The initial states map to initial states of StoreContract.
LEMMA InitKeeps == Init => Contract!Init
<1> SUFFICES ASSUME Init PROVE Contract!Init
  OBVIOUS
<1>1. jobs = Replayed(Settled)
  BY InitRemembers DEF Init, Remembers
<1> QED BY <1>1 DEF Init, Contract!Init

\* Every step but a loss of power maps to a step of StoreContract, or changes
\* nothing it shows.
LEMMA NextKeeps ==
  ASSUME ~PowerFails, Remembering, [Next]_vars
  PROVE  [Contract!Next]_(Contract!contractVars)
<1> DEFINE Disk == Replayed(Settled)
           Shut == poison \/ ~up
           Kept == jobs' = jobs /\ Disk' = Disk /\ Shut' = Shut
           Failed(j, new) == /\ ~Shut /\ Shut' = TRUE /\ jobs' = jobs
                             /\ Disk' \in {Disk, [Disk EXCEPT ![j] = new]}
<1>0. Sound /\ Remembers /\ NumJobs \in Nat \ {0}
  BY JournalAssumption DEF Remembering
<1>1. Kept => [Contract!Next]_(Contract!contractVars)
  BY DEF Contract!contractVars
<1>2. ASSUME NEW j \in Jobs, NEW new \in Record \cup {NoJob}, Failed(j, new)
      PROVE  Contract!Next
  BY <1>2 DEF Contract!Next, Contract!Fail
<1>3. ASSUME NEW j, NEW rec, Write(j, rec)
      PROVE  [Contract!Next]_(Contract!contractVars)
  <2>1. /\ ~Shut /\ up' = up /\ up /\ jobs' = jobs /\ Disk' = Disk
        /\ poison' = poison \/ poison' = TRUE
    BY <1>0, <1>3, WriteKeeps
  <2>2. CASE poison' = poison
    BY <2>1, <2>2, <1>1
  <2>3. CASE poison' = TRUE
    <3>1. 1 \in Jobs
      BY <1>0 DEF Jobs
    <3>2. Failed(1, NoJob)
      BY <2>1, <2>3
    <3> HIDE DEF Failed
    <3> QED BY <3>1, <3>2, <1>2
  <2> QED BY <2>1, <2>2, <2>3
<1>4. CASE \E key \in Keys, spec \in Specs : Create(key, spec)
  BY <1>3, <1>4 DEF Create
<1>5. CASE \E j \in Jobs : Update(j)
  BY <1>3, <1>5 DEF Update
<1>6. CASE \E key \in Keys, spec \in Specs : Repeat(key, spec)
  <2>1. /\ up' = up /\ poison' = poison /\ jobs' = jobs
        /\ file' = file /\ writing' = writing
    BY <1>6 DEF Repeat
  <2>2. Settled' = Settled
    BY <2>1 DEF Settled
  <2> QED BY <2>1, <2>2, <1>1
<1>7. CASE Sync
  <2>1. /\ up /\ ~poison /\ up' = up
        /\ writing.job \in Jobs /\ writing.rec \in Record
        /\ Disk' = [Disk EXCEPT ![writing.job] = writing.rec]
    BY <1>0, <1>7, SyncKeeps
  <2>2. CASE SyncReturns
    <3>1. jobs' = [jobs EXCEPT ![writing.job] = writing.rec] /\ poison' = poison
      BY <2>2 DEF SyncReturns
    <3>2. Contract!Succeed(writing.job, writing.rec)
      BY <2>1, <3>1 DEF Contract!Succeed
    <3> QED BY <2>1, <3>2 DEF Contract!Next
  <2>3. CASE SyncFails
    <3>1. jobs' = jobs /\ poison' = TRUE
      BY <2>3 DEF SyncFails
    <3>2. Failed(writing.job, writing.rec)
      BY <2>1, <3>1
    <3> HIDE DEF Failed
    <3> QED BY <2>1, <3>2, <1>2
  <2> QED BY <1>7, <2>2, <2>3 DEF Sync
<1>8. CASE Kill
  <2>1. /\ up /\ up' = FALSE /\ writing' = NoLine /\ file' = file
        /\ jobs' = jobs /\ poison' = poison
    BY <1>8 DEF Kill, Down
  <2>2. CASE writing = NoLine
    <3>1. Settled' = Settled
      BY <2>1, <2>2 DEF Settled
    <3>2. CASE poison
      BY <2>1, <3>1, <3>2, <1>1
    <3>3. CASE ~poison
      <4>1. 1 \in Jobs
        BY <1>0 DEF Jobs
      <4>2. Failed(1, NoJob)
        BY <2>1, <3>1, <3>3
      <4> HIDE DEF Failed
      <4> QED BY <4>1, <4>2, <1>2
    <3> QED BY <3>2, <3>3
  <2>3. CASE writing # NoLine
    <3>1. /\ ~poison /\ file # <<>> /\ writing = file[Len(file)]
      BY <1>0, <2>3 DEF Sound, Pending
    <3>2. Settled' = file /\ Settled = SubSeq(file, 1, Len(file) - 1)
      BY <2>1, <2>3 DEF Settled
    <3>3. clock \in Nat /\ file \in Seq(LineTo(clock)) /\ writing \in LineTo(clock)
      BY <1>0, <2>3, JournalAssumption DEF Sound, Typed
    <3>4. Disk' = [Disk EXCEPT ![writing.job] = writing.rec]
      BY <3>1, <3>2, <3>3, ReplayLast
    <3>5. writing.job \in Jobs /\ writing.rec \in Record
      <4>1. 0..clock \subseteq 0..MaxLines
        BY <1>0, JournalAssumption DEF Sound, Typed
      <4> QED BY <3>3, <4>1 DEF LineTo, RecordTo, Record
    <3>6. Failed(writing.job, writing.rec)
      BY <2>1, <3>1, <3>4
    <3> HIDE DEF Failed
    <3> QED BY <3>5, <3>6, <1>2
  <2> QED BY <2>2, <2>3
<1>9. CASE OpenStore
  <2>1. writing = NoLine /\ ~up
    BY <1>0, <1>9 DEF Sound, Pending, OpenStore
  <2>2. /\ file' = file /\ writing' = writing /\ up' = TRUE /\ poison' = FALSE
        /\ jobs' = Replayed(file)
    BY <1>9 DEF OpenStore
  <2>3. Settled' = file /\ Settled = file
    BY <2>1, <2>2 DEF Settled
  <2>4. Contract!Open
    BY <2>1, <2>2, <2>3 DEF Contract!Open
  <2> QED BY <2>4 DEF Contract!Next
<1>10. CASE UNCHANGED vars
  <2>1. /\ up' = up /\ poison' = poison /\ jobs' = jobs
        /\ file' = file /\ writing' = writing
    BY <1>10 DEF vars
  <2>2. Settled' = Settled
    BY <2>1 DEF Settled
  <2> QED BY <2>1, <2>2, <1>1
<1> QED BY <1>4, <1>5, <1>6, <1>7, <1>8, <1>9, <1>10 DEF Next

\* Until the host fails, the journal is the Store that TransferEngine
\* assumes: an append is remembered and durable, or shuts the Store, and what
\* is read after a restart is what was acknowledged, but for the appends that
\* failed (store.go:100-201).
THEOREM JournalKeepsContract == Spec => KeepsContract
<1>1. Init => Remembering
  BY InitSound, InitRemembers DEF Remembering
<1>2. Remembering /\ [Next]_vars => Remembering'
  BY NextSound, NextRemembers DEF Remembering
<1>3. Remembering /\ [Next]_vars => [Contract!Next \/ lost']_(Contract!contractVars)
  <2>1. PowerFails => lost'
    BY DEF PowerFails
  <2> QED BY <2>1, NextKeeps
<1> QED BY <1>1, <1>2, <1>3, InitKeeps, PTL DEF Spec, KeepsContract

-----------------------------------------------------------------------------
(* Keys: the lines of the file, any prefix of it included, never put two   *)
(* jobs under one key, and what was answered is in a line.                 *)

Differ(recs) ==
  \A j, k \in Jobs : recs[j] # NoJob /\ recs[k] # NoJob /\ recs[j].key = recs[k].key
                       => j = k

Agree(x, y) ==
  /\ x.job = y.job <=> x.rec.key = y.rec.key
  /\ x.job = y.job => x.rec.spec = y.rec.spec

Keyed(f) == \A i, k \in 1..Len(f) : Agree(f[i], f[k])

Shows(line, a) ==
  line.job = a.job /\ line.rec.key = a.key /\ line.rec.spec = a.spec

Backed == \A a \in answered : \E i \in 1..Len(file) : Shows(file[i], a)

Registered == Keyed(file) /\ Differ(jobs) /\ (~lost => Backed)

Registering == Remembering /\ Registered

\* What replay reads of a job is in one of its lines.
LEMMA ReplayedLine ==
  ASSUME NEW n \in Nat, NEW f \in Seq(LineTo(n)), NEW j \in Jobs
  PROVE  \/ Replayed(f)[j] = NoJob /\ \A i \in 1..Len(f) : f[i].job # j
         \/ \E i \in 1..Len(f) : f[i].job = j /\ Replayed(f)[j] = f[i].rec
<1> DEFINE Lines == {i \in 1..Len(f) : f[i].job = j}
           c == CHOOSE i \in Lines : \A k \in Lines : k <= i
<1>1. Replayed(f)[j] = IF Lines = {} THEN NoJob ELSE f[c].rec
  BY DEF Replayed
<1>2. CASE Lines = {}
  BY <1>1, <1>2
<1>3. CASE Lines # {}
  <2>1. Len(f) \in Nat /\ Lines \in SUBSET (1..Len(f))
    BY LenProperties
  <2>2. \E i \in Lines : \A k \in Lines : k <= i
    <3> HIDE DEF Lines
    <3> QED BY <1>3, <2>1, LastOf
  <2>3. c \in Lines
    BY <2>2
  <2> HIDE DEF c
  <2> QED BY <1>1, <1>3, <2>3
<1> QED BY <1>2, <1>3

\* A line holds a record, of a job.
LEMMA LineRecord ==
  ASSUME NEW n \in Nat, NEW f \in Seq(LineTo(n)), NEW i \in 1..Len(f)
  PROVE  /\ f[i].job \in Jobs /\ f[i].rec \in RecordTo(n)
         /\ f[i].rec # NoJob
<1>1. f[i] \in LineTo(n)
  BY ElementOfSeq
<1>2. f[i].job \in Jobs /\ f[i].rec \in RecordTo(n)
  BY <1>1 DEF LineTo
<1>3. f[i].rec.version \in 0..n /\ NoJob.version = -1
  BY <1>2 DEF RecordTo, NoJob
<1>4. f[i].rec.version # NoJob.version
  BY <1>3
<1> QED BY <1>2, <1>4

\* Lines that agree are replayed to jobs with keys of their own.
LEMMA KeyedDiffers ==
  ASSUME NEW n \in Nat, NEW f \in Seq(LineTo(n)), Keyed(f)
  PROVE  Differ(Replayed(f))
<1> SUFFICES ASSUME NEW j \in Jobs, NEW k \in Jobs,
                    Replayed(f)[j] # NoJob, Replayed(f)[k] # NoJob,
                    Replayed(f)[j].key = Replayed(f)[k].key
             PROVE  j = k
  BY DEF Differ
<1>1. PICK i \in 1..Len(f) : f[i].job = j /\ Replayed(f)[j] = f[i].rec
  BY ReplayedLine
<1>2. PICK m \in 1..Len(f) : f[m].job = k /\ Replayed(f)[k] = f[m].rec
  BY ReplayedLine
<1> QED BY <1>1, <1>2 DEF Keyed, Agree

\* Appending a line that agrees with the others.
LEMMA WriteRegisters ==
  ASSUME Registering, NEW j, NEW rec, Write(j, rec),
         \A i \in 1..Len(file) : Agree(file[i], [job |-> j, rec |-> rec])
  PROVE  Registered'
<1>0. /\ clock \in Nat /\ file \in Seq(LineTo(clock)) /\ Len(file) \in Nat
  BY LenProperties, JournalAssumption DEF Registering, Remembering, Sound, Typed
<1>1. /\ ~torn /\ UNCHANGED <<jobs, answered, lost>>
      /\ Differ(jobs) /\ Keyed(file) /\ (~lost => Backed)
  BY DEF Registering, Registered, Remembering, Sound, Whole, Write, Ready
<1>2. Differ(jobs)'
  BY <1>1 DEF Differ
<1>3. CASE Written(NewLine(j, rec))
  <2> DEFINE line == NewLine(j, rec)
  <2>1. file' = Append(file, line)
    BY <1>1, <1>3 DEF Written
  <2>2. line.job = j /\ line.rec = rec
    BY DEF NewLine
  <2> HIDE DEF line
  <2>3. /\ Len(file') = Len(file) + 1
        /\ \A i \in 1..Len(file) : file'[i] = file[i]
        /\ file'[Len(file) + 1] = line
    BY <1>0, <2>1
  <2>4. \A i \in 1..Len(file') : i \in 1..Len(file) \/ i = Len(file) + 1
    BY <1>0, <2>3
  <2>5. Keyed(file')
    <3> SUFFICES ASSUME NEW i \in 1..Len(file'), NEW k \in 1..Len(file')
                 PROVE  Agree(file'[i], file'[k])
      BY DEF Keyed
    <3>1. CASE i \in 1..Len(file) /\ k \in 1..Len(file)
      BY <1>1, <2>3, <3>1 DEF Keyed
    <3>2. CASE i \in 1..Len(file) /\ k = Len(file) + 1
      BY <2>2, <2>3, <3>2 DEF Agree
    <3>3. CASE i = Len(file) + 1 /\ k \in 1..Len(file)
      <4>1. Agree(file[k], [job |-> j, rec |-> rec])
        BY <3>3
      <4> QED BY <4>1, <2>2, <2>3, <3>3 DEF Agree
    <3>4. CASE i = Len(file) + 1 /\ k = Len(file) + 1
      BY <3>4 DEF Agree
    <3> QED BY <2>4, <3>1, <3>2, <3>3, <3>4
  <2>6. ~lost' => Backed'
    <3> SUFFICES ASSUME ~lost, NEW a \in answered
                 PROVE  \E i \in 1..Len(file') : Shows(file'[i], a)
      BY <1>1 DEF Backed
    <3>1. PICK i \in 1..Len(file) : Shows(file[i], a)
      BY <1>1 DEF Backed
    <3>2. i \in 1..Len(file')
      BY <1>0, <2>3
    <3> QED BY <2>3, <3>1, <3>2
  <2> QED BY <1>2, <2>5, <2>6 DEF Registered
<1>4. CASE WriteFails
  <2>1. file' = file
    BY <1>4 DEF WriteFails
  <2>2. Keyed(file') /\ (~lost' => Backed')
    BY <1>1, <2>1 DEF Keyed, Backed
  <2> QED BY <1>2, <2>2 DEF Registered
<1> QED BY <1>3, <1>4 DEF Write

\* A submission under a key that no job has, and a further line of a job.
LEMMA WritersRegister ==
  ASSUME Registering,
         \/ \E key \in Keys, spec \in Specs : Create(key, spec)
         \/ \E j \in Jobs : Update(j)
  PROVE  Registered'
<1>0. /\ clock \in Nat /\ file \in Seq(LineTo(clock)) /\ Keyed(file) /\ Remembers
      /\ jobs \in [Jobs -> RecordTo(clock) \cup {NoJob}]
  BY JournalAssumption DEF Registering, Registered, Remembering, Sound, Typed
<1>1. ASSUME Ready PROVE jobs = Replayed(file)
  BY <1>0, <1>1 DEF Ready, Remembers, Settled
<1>2. ASSUME NEW key \in Keys, NEW spec \in Specs, Create(key, spec)
      PROVE  Registered'
  <2> DEFINE rec == [key |-> key, spec |-> spec, version |-> 0]
  <2>1. PICK j \in Fresh : Write(j, rec)
    BY <1>2 DEF Create
  <2>2. jobs = Replayed(file)
    BY <1>1, <2>1 DEF Write
  <2>3. ASSUME NEW i \in 1..Len(file)
        PROVE  Agree(file[i], [job |-> j, rec |-> rec])
    <3>1. file[i].job # j
      BY DEF Fresh
    <3>2. file[i].job \in Jobs
      BY <1>0, LineRecord
    <3>3. PICK m \in 1..Len(file) : file[m].job = file[i].job /\ jobs[file[i].job] = file[m].rec
      BY <1>0, <2>2, <3>2, ReplayedLine
    <3>4. jobs[file[i].job] # NoJob
      BY <1>0, <3>3, LineRecord
    <3>5. jobs[file[i].job].key = file[i].rec.key
      BY <1>0, <3>3 DEF Keyed, Agree
    <3>6. file[i].rec.key # key
      BY <1>2, <3>2, <3>4, <3>5 DEF Create, Known
    <3> QED BY <3>1, <3>6 DEF Agree
  <2> QED BY <2>1, <2>3, WriteRegisters
<1>3. ASSUME NEW j \in Jobs, Update(j)
      PROVE  Registered'
  <2> DEFINE rec == [jobs[j] EXCEPT !.version = @ + 1]
  <2>1. jobs[j] # NoJob /\ Write(j, rec)
    BY <1>3 DEF Update
  <2>2. jobs = Replayed(file)
    BY <1>1, <2>1 DEF Write
  <2>3. PICK m \in 1..Len(file) : file[m].job = j /\ jobs[j] = file[m].rec
    BY <1>0, <2>1, <2>2, ReplayedLine
  <2>4. rec.key = file[m].rec.key /\ rec.spec = file[m].rec.spec
    <3>1. jobs[j] \in RecordTo(clock)
      BY <1>0, <2>1
    <3> QED BY <2>3, <3>1 DEF RecordTo
  <2>5. ASSUME NEW i \in 1..Len(file)
        PROVE  Agree(file[i], [job |-> j, rec |-> rec])
    <3>1. Agree(file[i], file[m])
      BY <1>0 DEF Keyed
    <3> HIDE DEF rec
    <3> QED BY <2>3, <2>4, <3>1 DEF Agree
  <2> HIDE DEF rec
  <2> QED BY <2>1, <2>5, WriteRegisters
<1> QED BY <1>2, <1>3

\* The fsync: the last line is remembered and answered from.
LEMMA SyncRegisters ==
  ASSUME Registering, Sync, Remembers'
  PROVE  Registered'
<1>1. /\ writing' = NoLine /\ UNCHANGED <<file, lost>>
      /\ up /\ ~poison /\ up' = up /\ file # <<>> /\ writing = file[Len(file)]
  BY DEF Registering, Remembering, Sound, Sync, Pending
<1>2. /\ clock \in Nat /\ file \in Seq(LineTo(clock)) /\ Len(file) \in 1..Len(file)
      /\ Keyed(file) /\ Differ(jobs) /\ (~lost => Backed)
  BY <1>1, LenProperties, EmptySeq, JournalAssumption
     DEF Registering, Registered, Remembering, Sound, Typed
<1>3. Keyed(file')
  BY <1>1, <1>2 DEF Keyed
<1>4. CASE SyncReturns
  <2>1. ~poison'
    BY <1>1, <1>4 DEF SyncReturns
  <2>2. jobs' = Replayed(file)
    BY <1>1, <2>1 DEF Remembers, Settled
  <2>3. Differ(jobs')
    BY <1>2, <2>2, KeyedDiffers
  <2>4. \A a \in answered' : a \in answered \/ a = Answer(writing.rec, writing.job)
    BY <1>4 DEF SyncReturns
  <2>5. Shows(file[Len(file)], Answer(writing.rec, writing.job))
    BY <1>1 DEF Shows, Answer
  <2>6. ~lost' => Backed'
    BY <1>1, <1>2, <2>4, <2>5 DEF Backed
  <2> QED BY <1>3, <2>3, <2>6 DEF Registered, Differ
<1>5. CASE SyncFails
  BY <1>1, <1>2, <1>3, <1>5 DEF SyncFails, Registered, Differ, Backed
<1> QED BY <1>4, <1>5 DEF Sync

\* A repeated submission is answered from a line.
LEMMA RepeatRegisters ==
  ASSUME Registering, NEW key \in Keys, NEW spec \in Specs, Repeat(key, spec)
  PROVE  Registered'
<1>1. PICK j \in Known(key) : answered' = answered \cup {Answer(jobs[j], j)}
  BY DEF Repeat
<1>2. /\ clock \in Nat /\ file \in Seq(LineTo(clock))
      /\ Keyed(file) /\ Differ(jobs) /\ (~lost => Backed)
  BY JournalAssumption DEF Registering, Registered, Remembering, Sound, Typed
<1>3. UNCHANGED <<file, jobs, lost>> /\ j \in Jobs /\ jobs[j] # NoJob
  BY DEF Repeat, Known
<1>4. jobs = Replayed(file)
  BY DEF Registering, Remembering, Repeat, Ready, Remembers, Settled
<1>5. PICK m \in 1..Len(file) : file[m].job = j /\ jobs[j] = file[m].rec
  BY <1>2, <1>3, <1>4, ReplayedLine
<1>6. Shows(file[m], Answer(jobs[j], j))
  BY <1>5 DEF Shows, Answer
<1>7. ~lost' => Backed'
  BY <1>1, <1>2, <1>3, <1>6 DEF Backed
<1> QED BY <1>2, <1>3, <1>7 DEF Registered, Keyed, Differ

\* What a loss of power leaves agrees as well.
LEMMA PowerFailsRegisters ==
  ASSUME Registering, PowerFails
  PROVE  Registered'
<1>1. PICK n \in synced..Len(file) : file' = SubSeq(file, 1, n)
  BY DEF PowerFails
<1>2. lost' = TRUE /\ jobs' = jobs
  BY DEF PowerFails, Down
<1>3. /\ clock \in Nat /\ file \in Seq(LineTo(clock)) /\ n \in 0..Len(file) /\ Verifies(file)
      /\ Keyed(file) /\ Differ(jobs)
  BY <1>1, LenProperties, JournalAssumption
     DEF Registering, Registered, Remembering, Sound, Typed, ChainIntact
<1>4. /\ Len(SubSeq(file, 1, n)) = n
      /\ \A i \in 1..n : SubSeq(file, 1, n)[i] = file[i]
  BY <1>3, ChainCut
<1>5. \A i \in 1..n : i \in 1..Len(file)
  BY <1>3, LenProperties
<1>6. Keyed(file')
  BY <1>1, <1>3, <1>4, <1>5 DEF Keyed
<1> QED BY <1>2, <1>3, <1>6 DEF Registered, Differ

\* Every step keeps the keys apart and the answers backed.
LEMMA NextRegisters == Registering /\ [Next]_vars => Registering'
<1> SUFFICES ASSUME Registering, [Next]_vars PROVE Registering'
  OBVIOUS
<1>0. Remembering /\ Remembering' /\ Registered
  BY NextSound, NextRemembers DEF Registering, Remembering
<1>1. CASE (\E key \in Keys, spec \in Specs : Create(key, spec)) \/ (\E j \in Jobs : Update(j))
  BY <1>0, <1>1, WritersRegister DEF Registering
<1>2. CASE \E key \in Keys, spec \in Specs : Repeat(key, spec)
  BY <1>0, <1>2, RepeatRegisters DEF Registering
<1>3. CASE Sync
  BY <1>0, <1>3, SyncRegisters DEF Registering, Remembering
<1>4. CASE Kill
  BY <1>0, <1>4 DEF Registering, Registered, Kill, Down, Keyed, Differ, Backed
<1>5. CASE PowerFails
  BY <1>0, <1>5, PowerFailsRegisters DEF Registering
<1>6. CASE OpenStore
  <2>1. jobs' = Replayed(file) /\ UNCHANGED <<file, answered, lost>>
    BY <1>6 DEF OpenStore
  <2>2. Differ(jobs')
    BY <1>0, <2>1, KeyedDiffers, JournalAssumption DEF Registered, Remembering, Sound, Typed
  <2> QED BY <1>0, <2>1, <2>2 DEF Registering, Registered, Keyed, Differ, Backed
<1>7. CASE UNCHANGED vars
  BY <1>0, <1>7 DEF vars, Registering, Registered, Keyed, Differ, Backed
<1> QED BY <1>1, <1>2, <1>3, <1>4, <1>5, <1>6, <1>7 DEF Next

\* Nothing is in the file yet.
LEMMA InitRegisters == Init => Registering
<1> SUFFICES ASSUME Init PROVE Registering
  OBVIOUS
<1>1. Len(file) = 0
  BY EmptySeq DEF Init
<1>2. Registered
  BY <1>1 DEF Init, Registered, Keyed, Differ, Backed
<1> QED BY <1>2, InitSound, InitRemembers DEF Registering, Remembering

\* A key never names two jobs, in the memory or for the next process, though
\* appends may have failed in doubt, and processes and hosts gone down
\* (store.go:206-236).
THEOREM KeysDistinct == Spec => []OneJobPerKey
<1>1. Registering => OneJobPerKey
  <2> SUFFICES ASSUME Registering PROVE OneJobPerKey
    OBVIOUS
  <2>1. Differ(jobs) /\ Differ(Replayed(file))
    BY KeyedDiffers, JournalAssumption DEF Registering, Registered, Remembering, Sound, Typed
  <2> QED BY <2>1 DEF OneJobPerKey, Differ
<1> QED BY <1>1, InitRegisters, NextRegisters, PTL DEF Spec

\* Until the host fails, whoever repeats a submission is answered with the job
\* that it made, whatever processes end in between (store.go:206-236).
THEOREM AnswersStand == Spec => []AnswersOutlive
<1>1. Registering => AnswersOutlive
  <2> SUFFICES ASSUME Registering, ~lost PROVE AnswersKept
    BY DEF AnswersOutlive
  <2>1. Keyed(file) /\ Backed /\ clock \in Nat /\ file \in Seq(LineTo(clock))
    BY JournalAssumption DEF Registering, Registered, Remembering, Sound, Typed
  <2>2. ASSUME NEW a \in answered, NEW b \in answered, a.key = b.key PROVE a.job = b.job
    <3>1. PICK i \in 1..Len(file) : Shows(file[i], a)
      BY <2>1 DEF Backed
    <3>2. PICK k \in 1..Len(file) : Shows(file[k], b)
      BY <2>1 DEF Backed
    <3> QED BY <2>1, <2>2, <3>1, <3>2 DEF Keyed, Agree, Shows
  <2>3. ASSUME NEW a \in answered
        PROVE  /\ Replayed(file)[a.job] # NoJob
               /\ Replayed(file)[a.job].key = a.key /\ Replayed(file)[a.job].spec = a.spec
    <3>1. PICK i \in 1..Len(file) : Shows(file[i], a)
      BY <2>1 DEF Backed
    <3>2. a.job \in Jobs
      BY <2>1, <3>1, LineRecord DEF Shows
    <3>3. PICK m \in 1..Len(file) : file[m].job = a.job /\ Replayed(file)[a.job] = file[m].rec
      BY <2>1, <3>1, <3>2, ReplayedLine DEF Shows
    <3>4. Agree(file[m], file[i])
      BY <2>1 DEF Keyed
    <3> QED BY <2>1, <3>1, <3>3, <3>4, LineRecord DEF Agree, Shows
  <2> QED BY <2>2, <2>3 DEF AnswersKept
<1> QED BY <1>1, InitRegisters, NextRegisters, PTL DEF Spec
=============================================================================
