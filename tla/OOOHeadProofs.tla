---------------------------- MODULE OOOHeadProofs ----------------------------
(***************************************************************************)
(* Compacting the out-of-order head neither loses a sample nor hides one   *)
(* from a query, for any number of series, samples, chunks, compactions    *)
(* and queries, as long as no series m-maps a chunk after its turn in      *)
(* NewOOOCompactionHead while others still wait for theirs.  With one      *)
(* series that cannot happen.                                              *)
(*                                                                         *)
(* The proof looks at the m-mapped chunks as a set, Live: m-mapping adds   *)
(* one chunk to it, with a new reference, and garbage collection takes     *)
(* away those up to a reference.  The order of the chunks of a series only *)
(* matters to see that the loop of truncateChunksBefore, which stops at    *)
(* the first chunk it keeps, does take away these and no others.           *)
(***************************************************************************)
EXTENDS OOOHead, TLAPS

\* A series m-maps a chunk after its turn, while NewOOOCompactionHead has not
\* yet seen all of them.
MmapRace ==
  /\ ch.pc = "mmap"
  /\ \E s \in Series \ ch.todo : oooMmappedChunks'[s] # oooMmappedChunks[s]

\* The behaviours without that.
RaceFreeSpec == Init /\ [][Next /\ ~MmapRace]_vars

Chunk == [ref : Nat, ts : SUBSET Times]
Meta == [s : Series, id : Nat, ref : Nat]
Reads == [pc : {"closed", "open"}, minRef : Nat, blocks : SUBSET Sample, todo : SUBSET Series,
          metas : SUBSET Meta, got : SUBSET Sample, asked : SUBSET Sample]
Compactions ==
  [pc : {"idle", "mmap", "write", "reload", "mark", "truncate", "gc"}, todo : SUBSET Series,
   postings : SUBSET Series, lastMmapRef : Nat, times : SUBSET Times, written : SUBSET Sample]

\* The chunks are in the order of their references.
Sorted(q) == \A i, j \in 1..Len(q) : i < j => q[i].ref < q[j].ref

HeadTypeOK ==
  /\ oooHeadChunk \in [Series -> SUBSET Times]
  /\ oooMmappedChunks \in [Series -> Seq(Chunk)]
  /\ firstOOOChunkID \in [Series -> Nat]
  /\ nextRef \in Nat
  /\ \A s \in Series : Sorted(oooMmappedChunks[s])

DBTypeOK ==
  /\ inserted \subseteq Sample /\ blocks \subseteq Sample
  /\ lastGarbageCollectedMmapRef \in Nat /\ minOOOMmapRef \in Nat
  /\ ch \in Compactions
  /\ reads \in [Readers -> Reads]

\* The m-mapped chunks, with the series and the HeadChunkID of each.
LiveChunk == [s : Series, id : Nat, ref : Nat, ts : SUBSET Times]
Live ==
  {c \in LiveChunk : \E i \in 1..Len(oooMmappedChunks[c.s]) :
     /\ c.id = firstOOOChunkID[c.s] + i - 1
     /\ c.ref = oooMmappedChunks[c.s][i].ref
     /\ c.ts = oooMmappedChunks[c.s][i].ts}

\* References only grow.
RefInv ==
  /\ \A c \in Live : c.ref < nextRef
  /\ ch.lastMmapRef < nextRef /\ lastGarbageCollectedMmapRef < nextRef
  /\ \A r \in Readers : reads[r].minRef < nextRef

\* What a compaction knows of the chunks it is going to collect: they are in
\* its postings and its range, then in the blocks it wrote, then in db.blocks.
CompactInv ==
  /\ ch.pc = "mmap" =>
       /\ ch.todo # {} \/ Series = {}
       /\ \A c \in Live : c.s \in ch.todo \/ (c.s \in ch.postings /\ c.ts \subseteq ch.times)
  /\ ch.pc = "write" =>
       \A c \in Live : c.ref <= ch.lastMmapRef => c.s \in ch.postings /\ c.ts \subseteq ch.times
  /\ ch.pc = "reload" =>
       \A c \in Live : c.ref <= ch.lastMmapRef => {c.s} \X c.ts \subseteq ch.written
  /\ ch.pc \in {"mark", "truncate", "gc"} =>
       \A c \in Live : c.ref <= ch.lastMmapRef => {c.s} \X c.ts \subseteq blocks

\* Chunks that new queries do not use are in blocks, and the chunks that are
\* being collected are used by no query.
CollectInv ==
  /\ \A c \in Live : c.ref <= lastGarbageCollectedMmapRef => {c.s} \X c.ts \subseteq blocks
  /\ ch.pc \in {"truncate", "gc"} /\ ch.lastMmapRef # 0 =>
       lastGarbageCollectedMmapRef = ch.lastMmapRef
  /\ ch.pc = "gc" =>
       /\ ch.lastMmapRef # 0 /\ minOOOMmapRef = ch.lastMmapRef
       /\ \A r \in Readers : reads[r].pc = "open" => minOOOMmapRef <= reads[r].minRef

\* The query has the sample, will find it in the chunks of the series, or has
\* the ID of a chunk with it.
Found(read, s, t) ==
  \/ <<s, t>> \in read.got \/ <<s, t>> \in read.blocks
  \/ /\ s \in read.todo
     /\ \/ t \in oooHeadChunk[s]
        \/ \E c \in Live : c.s = s /\ t \in c.ts /\ c.ref > read.minRef
  \/ \E c \in Live : c.s = s /\ t \in c.ts /\ [s |-> s, id |-> c.id, ref |-> c.ref] \in read.metas

ReadInv ==
  \A r \in Readers :
    /\ reads[r].pc = "closed" =>
         reads[r].todo = {} /\ reads[r].metas = {} /\ reads[r].asked = {}
    /\ \A m \in reads[r].metas : m.ref > reads[r].minRef
    /\ \A s \in Series, t \in Times : <<s, t>> \in reads[r].asked => Found(reads[r], s, t)

OInv ==
  /\ HeadTypeOK /\ DBTypeOK
  /\ RefInv /\ CompactInv /\ CollectInv /\ ReadInv /\ InsertedStored
-----------------------------------------------------------------------------
\* Every set of natural numbers that is not empty has a least element: LEMMA
\* NaturalsWellOrdered, at the end of the module.
WellOrdered == \A S \in SUBSET Nat : S # {} => \E x \in S : \A y \in S : x <= y

LEMMA MinNat ==
  ASSUME WellOrdered, NEW S \in SUBSET Nat, S # {}
  PROVE  Min(S) \in S /\ \A y \in S : Min(S) <= y
<1>1. \E x \in S : \A y \in S : x <= y
  BY Zenon DEF WellOrdered
<1> QED
  BY <1>1, Zenon DEF Min

\* And a greatest one, when it is bounded.
LEMMA MaxNat ==
  ASSUME WellOrdered, NEW S \in SUBSET Nat, S # {}, NEW b \in Nat, \A x \in S : x <= b
  PROVE  Max(S) \in S /\ \A y \in S : y <= Max(S)
<1> DEFINE D == {k \in Nat : b - k \in S}
<1>1. PICK x \in S : TRUE
  BY Zenon
<1>2. b - x \in D /\ D \in SUBSET Nat
  <2>1. b - (b - x) = x /\ b - x \in Nat
    BY <1>1
  <2> QED
    BY <2>1, Zenon
<1>3. PICK k \in D : \A j \in D : k <= j
  BY <1>2, MinNat, Zenon
<1>4. b - k \in S /\ k \in Nat
  BY <1>3, Zenon
<1>5. ASSUME NEW y \in S PROVE y <= b - k
  <2>1. b - (b - y) = y /\ b - y \in Nat
    OBVIOUS
  <2>2. b - y \in D
    BY <2>1, Zenon
  <2>3. k <= b - y
    BY <1>3, <2>2, Zenon
  <2> QED
    BY <1>4, <2>3
<1> HIDE DEF D
<1>6. \E m \in S : \A y \in S : m >= y
  BY <1>4, <1>5, Zenon
<1> QED
  BY <1>6, Zenon DEF Max

\* The range of block of length b that has x.
LEMMA BlockRange ==
  ASSUME NEW b \in Nat, b > 0, NEW x \in Nat
  PROVE  b * (x \div b) <= x /\ x < b * (x \div b + 1) /\ x \div b \in Nat
<1>1. x = ((x \div b) * b) + (x % b) /\ x % b \in 0..(b - 1) /\ x \div b \in Int
  OBVIOUS
<1>2. x \div b >= 0
  OBVIOUS
<1> QED
  BY <1>1, <1>2

\* Ranges are in the order of their times.
LEMMA BlockRangeOrder ==
  ASSUME NEW b \in Nat, b > 0, NEW x \in Nat, NEW y \in Nat, x <= y
  PROVE  b * (x \div b) <= y /\ x < b * (y \div b + 1)
BY BlockRange

\* The ranges compactOOO writes have all times it has seen.
LEMMA TimesCovered ==
  ASSUME WellOrdered, DBTypeOK, NEW t \in ch.times
  PROVE  Covered(t)
<1>1. ch.times \in SUBSET Nat /\ ch.times # {} /\ \A u \in ch.times : u <= Max(Times)
  BY OOOHeadAssumption DEF DBTypeOK, Compactions
<1>2. Min(ch.times) \in ch.times /\ Min(ch.times) <= t
  BY <1>1, MinNat, Zenon
<1>3. Max(ch.times) \in ch.times /\ t <= Max(ch.times)
  BY <1>1, MaxNat, OOOHeadAssumption, Zenon
<1>4. Min(ch.times) \in Nat /\ Max(ch.times) \in Nat /\ t \in Nat /\ blockSize \in Nat /\ blockSize > 0
  BY <1>1, <1>2, <1>3, OOOHeadAssumption
<1>5. blockSize * (Min(ch.times) \div blockSize) <= t /\ t < blockSize * (Max(ch.times) \div blockSize + 1)
  BY <1>2, <1>3, <1>4, BlockRangeOrder, Zenon
<1>6. blockSize * (Min(ch.times) \div blockSize) \in Int
  BY <1>4
<1> QED
  BY <1>1, <1>4, <1>5, <1>6, Zenon DEF Covered
-----------------------------------------------------------------------------
\* The chunks of a series and their fields.
LEMMA ChunkTypes ==
  ASSUME HeadTypeOK, NEW s \in Series
  PROVE  /\ oooMmappedChunks[s] \in Seq(Chunk) /\ Len(oooMmappedChunks[s]) \in Nat
         /\ DOMAIN oooMmappedChunks[s] = 1..Len(oooMmappedChunks[s])
         /\ oooHeadChunk[s] \in SUBSET Times /\ firstOOOChunkID[s] \in Nat
         /\ \A i \in 1..Len(oooMmappedChunks[s]) :
              /\ oooMmappedChunks[s][i] \in Chunk
              /\ oooMmappedChunks[s][i].ref \in Nat /\ oooMmappedChunks[s][i].ts \in SUBSET Times
<1>1. oooMmappedChunks[s] \in Seq(Chunk)
  BY Zenon DEF HeadTypeOK
<1>2. /\ Len(oooMmappedChunks[s]) \in Nat /\ DOMAIN oooMmappedChunks[s] = 1..Len(oooMmappedChunks[s])
      /\ \A i \in 1..Len(oooMmappedChunks[s]) : oooMmappedChunks[s][i] \in Chunk
  BY <1>1
<1>3. \A c \in Chunk : c.ref \in Nat /\ c.ts \in SUBSET Times
  BY Zenon DEF Chunk
<1>4. oooHeadChunk[s] \in SUBSET Times /\ firstOOOChunkID[s] \in Nat
  BY Zenon DEF HeadTypeOK
<1> QED
  BY <1>1, <1>2, <1>3, <1>4, Zenon

\* Chunk i of a series is live.
LEMMA ChunkIsLive ==
  ASSUME HeadTypeOK, NEW s \in Series, NEW i \in 1..Len(oooMmappedChunks[s])
  PROVE  [s |-> s, id |-> firstOOOChunkID[s] + i - 1, ref |-> oooMmappedChunks[s][i].ref,
          ts |-> oooMmappedChunks[s][i].ts] \in Live
<1>1. firstOOOChunkID[s] + i - 1 \in Nat
  BY ChunkTypes
<1> QED
  BY <1>1, ChunkTypes, Zenon DEF Live, LiveChunk

\* A live chunk is chunk i of its series.
LEMMA LiveIsChunk ==
  ASSUME HeadTypeOK, NEW c \in Live
  PROVE  /\ c.s \in Series /\ c.id \in Nat /\ c.ref \in Nat /\ c.ts \in SUBSET Times
         /\ c = [s |-> c.s, id |-> c.id, ref |-> c.ref, ts |-> c.ts]
         /\ \E i \in 1..Len(oooMmappedChunks[c.s]) :
              /\ c.id = firstOOOChunkID[c.s] + i - 1
              /\ c.ref = oooMmappedChunks[c.s][i].ref
              /\ c.ts = oooMmappedChunks[c.s][i].ts
BY Zenon DEF Live, LiveChunk

LEMMA LiveSame ==
  ASSUME oooMmappedChunks' = oooMmappedChunks, firstOOOChunkID' = firstOOOChunkID
  PROVE  Live' = Live
BY Zenon DEF Live

\* The chunk that is m-mapped for series s.
NewChunk(s) ==
  [s |-> s, id |-> firstOOOChunkID[s] + Len(oooMmappedChunks[s]), ref |-> nextRef,
   ts |-> oooHeadChunk[s]]

LEMMA AppendChunk ==
  ASSUME NEW q \in Seq(Chunk), NEW x \in Chunk
  PROVE  /\ Append(q, x) \in Seq(Chunk) /\ Len(Append(q, x)) = Len(q) + 1
         /\ \A i \in 1..Len(q) : Append(q, x)[i] = q[i]
         /\ Append(q, x)[Len(q) + 1] = x
OBVIOUS

\* mmapCurrentOOOHeadChunk adds one chunk.
LEMMA MmapStep ==
  ASSUME HeadTypeOK, NEW s \in Series,
         oooMmappedChunks' = [oooMmappedChunks EXCEPT ![s] = Mmapped(s)],
         firstOOOChunkID' = firstOOOChunkID
  PROVE  Live' = Live \union {NewChunk(s)}
<1> DEFINE n == Len(oooMmappedChunks[s])
<1>1. /\ \A q \in Series : q # s => oooMmappedChunks'[q] = oooMmappedChunks[q]
      /\ oooMmappedChunks'[s] = Append(oooMmappedChunks[s], [ref |-> nextRef, ts |-> oooHeadChunk[s]])
  BY Zenon DEF HeadTypeOK, Mmapped
<1>2. [ref |-> nextRef, ts |-> oooHeadChunk[s]] \in Chunk
  BY Zenon DEF HeadTypeOK, Chunk
<1>3. /\ Len(oooMmappedChunks'[s]) = n + 1 /\ n \in Nat
      /\ \A i \in 1..n : oooMmappedChunks'[s][i] = oooMmappedChunks[s][i]
      /\ oooMmappedChunks'[s][n + 1] = [ref |-> nextRef, ts |-> oooHeadChunk[s]]
  BY <1>1, <1>2, ChunkTypes
<1> HIDE DEF n
<1>4. ASSUME NEW c \in Live PROVE c \in Live'
  <2>1. PICK i \in 1..Len(oooMmappedChunks[c.s]) :
          /\ c.id = firstOOOChunkID[c.s] + i - 1
          /\ c.ref = oooMmappedChunks[c.s][i].ref
          /\ c.ts = oooMmappedChunks[c.s][i].ts
    BY LiveIsChunk, Zenon
  <2>2. i \in 1..Len(oooMmappedChunks'[c.s]) /\ oooMmappedChunks'[c.s][i] = oooMmappedChunks[c.s][i]
    <3>1. CASE c.s = s
      BY <1>3, <2>1, <3>1 DEF n
    <3>2. CASE c.s # s
      BY <1>1, <2>1, <3>2, LiveIsChunk, Zenon
    <3> QED
      BY <3>1, <3>2, Zenon
  <2>3. c \in LiveChunk
    BY Zenon DEF Live
  <2> QED
    BY <2>1, <2>2, <2>3, Zenon DEF Live
<1>5. NewChunk(s) \in Live'
  <2>1. NewChunk(s) \in LiveChunk
    BY ChunkTypes DEF NewChunk, LiveChunk, HeadTypeOK
  <2>2. n + 1 \in 1..Len(oooMmappedChunks'[s]) /\ firstOOOChunkID[s] + n = firstOOOChunkID'[s] + (n + 1) - 1
    BY <1>3, ChunkTypes, SMTT(30)
  <2>3. /\ NewChunk(s).s = s /\ NewChunk(s).id = firstOOOChunkID[s] + n
        /\ NewChunk(s).ref = nextRef /\ NewChunk(s).ts = oooHeadChunk[s]
    BY Zenon DEF NewChunk, n
  <2> QED
    BY <1>3, <2>1, <2>2, <2>3 DEF Live
<1>6. ASSUME NEW c \in Live' PROVE c \in Live \union {NewChunk(s)}
  <2>1. /\ c \in LiveChunk /\ c.s \in Series
        /\ c = [s |-> c.s, id |-> c.id, ref |-> c.ref, ts |-> c.ts]
    BY Zenon DEF Live, LiveChunk
  <2>2. PICK i \in 1..Len(oooMmappedChunks'[c.s]) :
          /\ c.id = firstOOOChunkID[c.s] + i - 1
          /\ c.ref = oooMmappedChunks'[c.s][i].ref
          /\ c.ts = oooMmappedChunks'[c.s][i].ts
    BY Zenon DEF Live
  <2>3. CASE c.s # s
    BY <1>1, <2>1, <2>2, <2>3 DEF Live
  <2>4. CASE c.s = s /\ i <= n
    <3>1. i \in 1..Len(oooMmappedChunks[s]) /\ oooMmappedChunks'[s][i] = oooMmappedChunks[s][i]
      BY <1>3, <2>2, <2>4 DEF n
    <3> QED
      BY <2>1, <2>2, <2>4, <3>1 DEF Live
  <2>5. CASE c.s = s /\ i = n + 1
    <3>1. c.id = firstOOOChunkID[s] + n
      BY <1>3, <2>2, <2>5, ChunkTypes
    <3>2. c.ref = nextRef /\ c.ts = oooHeadChunk[s]
      BY <1>3, <2>2, <2>5
    <3>3. c = NewChunk(s)
      BY <2>1, <2>5, <3>1, <3>2, Zenon DEF NewChunk, n
    <3> QED
      BY <3>3, Zenon
  <2> QED
    BY <1>3, <2>2, <2>3, <2>4, <2>5
<1> QED
  BY <1>4, <1>5, <1>6, Zenon

LEMMA AppendSorted ==
  ASSUME NEW q \in Seq(Chunk), Sorted(q), NEW x \in Chunk, \A i \in 1..Len(q) : q[i].ref < x.ref
  PROVE  Sorted(Append(q, x))
<1>1. PICK p : p = Append(q, x)
  BY Zenon
<1>2. PICK n \in Nat : n = Len(q)
  OBVIOUS
<1>3. Len(p) = n + 1 /\ (\A i \in 1..n : p[i] = q[i]) /\ p[n + 1] = x
  BY <1>1, <1>2, AppendChunk, Zenon
<1>4. ASSUME NEW i \in 1..(n + 1), NEW j \in 1..(n + 1), i < j
      PROVE  p[i].ref < p[j].ref
  <2>1. i \in 1..n /\ p[i] = q[i]
    BY <1>3, <1>4
  <2>2. CASE j = n + 1
    BY <1>2, <1>3, <2>1, <2>2, Zenon
  <2>3. CASE j \in 1..n
    BY <1>2, <1>3, <1>4, <2>1, <2>3, Zenon DEF Sorted
  <2> QED
    BY <2>2, <2>3
<1> QED
  BY <1>1, <1>3, <1>4, Zenon DEF Sorted

\* A new reference is the largest one.
LEMMA MmapTypes ==
  ASSUME HeadTypeOK, \A c \in Live : c.ref < nextRef, NEW s \in Series,
         oooMmappedChunks' = [oooMmappedChunks EXCEPT ![s] = Mmapped(s)],
         firstOOOChunkID' = firstOOOChunkID, nextRef' = nextRef + 1,
         oooHeadChunk' \in [Series -> SUBSET Times]
  PROVE  HeadTypeOK'
<1>0. [ref |-> nextRef, ts |-> oooHeadChunk[s]] \in Chunk
  BY Zenon DEF HeadTypeOK, Chunk
<1>1. PICK x \in Chunk : x = [ref |-> nextRef, ts |-> oooHeadChunk[s]]
  BY <1>0, Zenon
<1>2. PICK q \in Seq(Chunk) : q = oooMmappedChunks[s]
  BY ChunkTypes, Zenon
<1>3. Mmapped(s) = Append(q, x)
  BY <1>1, <1>2, Zenon DEF Mmapped
<1>4. ASSUME NEW i \in 1..Len(q) PROVE q[i].ref < x.ref
  <2>1. i \in 1..Len(oooMmappedChunks[s]) /\ x.ref = nextRef
    BY <1>1, <1>2, Zenon
  <2>2. oooMmappedChunks[s][i].ref < nextRef
    <3>1. PICK c \in Live : c.ref = oooMmappedChunks[s][i].ref
      BY <2>1, ChunkIsLive, Zenon
    <3> QED
      BY <3>1, Zenon
  <2> QED
    BY <1>2, <2>1, <2>2, Zenon
<1>5. Sorted(q)
  BY <1>2, Zenon DEF HeadTypeOK
<1>6. Sorted(Append(q, x)) /\ Append(q, x) \in Seq(Chunk)
  BY <1>4, <1>5, AppendSorted, AppendChunk, Zenon
<1>7. Mmapped(s) \in Seq(Chunk) /\ Sorted(Mmapped(s))
  BY <1>3, <1>6, Zenon
<1>8. oooMmappedChunks' \in [Series -> Seq(Chunk)]
  BY <1>7, Zenon DEF HeadTypeOK
<1>9. \A p \in Series : Sorted(oooMmappedChunks'[p])
  BY <1>7, Zenon DEF HeadTypeOK
<1>10. firstOOOChunkID' \in [Series -> Nat] /\ nextRef' \in Nat
  BY DEF HeadTypeOK
<1> QED
  BY <1>8, <1>9, <1>10, Zenon DEF HeadTypeOK

\* The loop of truncateChunksBefore passes the chunks up to minOOOMmapRef.
LEMMA RemovedIs ==
  ASSUME WellOrdered, HeadTypeOK, minOOOMmapRef \in Nat, NEW s \in Series
  PROVE  LET n == removedOOO(oooMmappedChunks[s])
         IN  /\ n \in 0..Len(oooMmappedChunks[s])
             /\ \A i \in 1..Len(oooMmappedChunks[s]) :
                  oooMmappedChunks[s][i].ref > minOOOMmapRef <=> i > n
<1>1. PICK mm \in Seq(Chunk) : mm = oooMmappedChunks[s]
  BY ChunkTypes, Zenon
<1>2. /\ Len(mm) \in Nat /\ \A i \in 1..Len(mm) : mm[i].ref \in Nat
      /\ \A i, j \in 1..Len(mm) : i < j => mm[i].ref < mm[j].ref
  BY <1>1, ChunkTypes, Zenon DEF HeadTypeOK, Sorted
<1> DEFINE S == {n \in 0..Len(mm) : n = Len(mm) \/ mm[n + 1].ref > minOOOMmapRef}
<1>3. S \in SUBSET Nat /\ Len(mm) \in S
  BY <1>2
<1>4. PICK n \in S : n = removedOOO(mm) /\ \A k \in S : n <= k
  BY <1>3, MinNat, Zenon DEF removedOOO
<1>5. n \in 0..Len(mm) /\ (n = Len(mm) \/ mm[n + 1].ref > minOOOMmapRef)
  BY <1>4, Zenon
<1>6. ASSUME NEW i \in 1..Len(mm), i <= n PROVE ~(mm[i].ref > minOOOMmapRef)
  <2>1. i - 1 \in 0..Len(mm) /\ (i - 1) + 1 = i /\ ~(n <= i - 1)
    BY <1>2, <1>5, <1>6
  <2>2. i - 1 \notin S
    BY <1>4, <2>1, Zenon
  <2> QED
    BY <2>1, <2>2, Zenon
<1>7. ASSUME NEW i \in 1..Len(mm), i > n PROVE mm[i].ref > minOOOMmapRef
  <2>1. n + 1 \in 1..Len(mm) /\ mm[n + 1].ref > minOOOMmapRef
    BY <1>2, <1>5, <1>7
  <2>2. i = n + 1 \/ mm[n + 1].ref < mm[i].ref
    BY <1>2, <1>5, <1>7, <2>1
  <2> QED
    BY <1>2, <2>1, <2>2
<1> HIDE DEF S
<1> QED
  BY <1>1, <1>2, <1>4, <1>5, <1>6, <1>7

\* Garbage collection takes away the chunks of the series up to minOOOMmapRef,
\* and the others keep their IDs.
LEMMA GcStep ==
  ASSUME WellOrdered, HeadTypeOK, minOOOMmapRef \in Nat, NEW s \in Series, gcSeries(s)
  PROVE  /\ HeadTypeOK'
         /\ Live' \subseteq Live
         /\ \A c \in Live : c.s # s \/ c.ref > minOOOMmapRef => c \in Live'
<1>1. PICK n : n = removedOOO(oooMmappedChunks[s])
  BY Zenon
<1>2. PICK len : len = Len(oooMmappedChunks[s])
  BY Zenon
<1>3. PICK keep : keep = SubSeq(oooMmappedChunks[s], n + 1, len)
  BY Zenon
<1>4. PICK first : first = IF n > 0 /\ keep = <<>> /\ oooHeadChunk[s] = {} THEN 0
                           ELSE firstOOOChunkID[s] + n
  BY Zenon
<1>5. /\ n \in 0..len /\ len \in Nat
      /\ \A i \in 1..len : oooMmappedChunks[s][i].ref > minOOOMmapRef <=> i > n
  BY <1>1, <1>2, RemovedIs, ChunkTypes, Zenon
<1>6. \A i \in (n + 1)..len : oooMmappedChunks[s][i] \in Chunk
  BY <1>2, <1>5, ChunkTypes
<1>7. /\ keep \in Seq(Chunk) /\ Len(keep) = len - n
      /\ \A i \in 1..(len - n) : keep[i] = oooMmappedChunks[s][n + i]
  <2>1. n + 1 \in Int /\ len \in Int
    BY <1>5
  <2>2. keep \in Seq(Chunk)
    BY <1>3, <1>6, <2>1
  <2>3. /\ Len(keep) = IF n + 1 <= len THEN len - (n + 1) + 1 ELSE 0
        /\ \A i \in 1..(len - (n + 1) + 1) : keep[i] = oooMmappedChunks[s][n + 1 + i - 1]
    BY <1>3, <1>6, <2>1
  <2> QED
    BY <1>5, <2>2, <2>3
<1>8. /\ oooMmappedChunks' = [oooMmappedChunks EXCEPT ![s] = keep]
      /\ firstOOOChunkID' = [firstOOOChunkID EXCEPT ![s] = first]
      /\ oooHeadChunk' = oooHeadChunk /\ nextRef' = nextRef
  BY <1>1, <1>2, <1>3, <1>4, Zenon DEF gcSeries
<1>9. first \in Nat /\ (n < len => first = firstOOOChunkID[s] + n)
  <2>1. n < len => keep # <<>>
    BY <1>5, <1>7
  <2> QED
    BY <1>4, <1>5, <2>1, ChunkTypes
<1>10. /\ \A q \in Series : q # s => /\ oooMmappedChunks'[q] = oooMmappedChunks[q]
                                     /\ firstOOOChunkID'[q] = firstOOOChunkID[q]
       /\ oooMmappedChunks'[s] = keep /\ firstOOOChunkID'[s] = first
  BY <1>8, Zenon DEF HeadTypeOK
<1>11. HeadTypeOK'
  <2>1. oooMmappedChunks' \in [Series -> Seq(Chunk)] /\ firstOOOChunkID' \in [Series -> Nat]
    BY <1>7, <1>8, <1>9, Zenon DEF HeadTypeOK
  <2>2. ASSUME NEW i \in 1..(len - n), NEW j \in 1..(len - n), i < j
        PROVE  keep[i].ref < keep[j].ref
    <3>1. n + i \in 1..len /\ n + j \in 1..len /\ n + i < n + j
      BY <1>5, <2>2
    <3>2. oooMmappedChunks[s][n + i].ref < oooMmappedChunks[s][n + j].ref
      BY <1>2, <3>1, Zenon DEF HeadTypeOK, Sorted
    <3> QED
      BY <1>7, <3>2, Zenon
  <2>3. Sorted(keep)
    BY <1>7, <2>2, Zenon DEF Sorted
  <2>4. \A q \in Series : Sorted(oooMmappedChunks'[q])
    BY <1>10, <2>3, Zenon DEF HeadTypeOK
  <2> QED
    BY <1>8, <2>1, <2>4, Zenon DEF HeadTypeOK
<1>12. ASSUME NEW c \in Live' PROVE c \in Live
  <2>1. c \in LiveChunk /\ c.s \in Series
    BY Zenon DEF Live, LiveChunk
  <2>2. PICK i \in 1..Len(oooMmappedChunks'[c.s]) :
          /\ c.id = firstOOOChunkID'[c.s] + i - 1
          /\ c.ref = oooMmappedChunks'[c.s][i].ref
          /\ c.ts = oooMmappedChunks'[c.s][i].ts
    BY Zenon DEF Live
  <2>3. CASE c.s # s
    BY <1>10, <2>1, <2>2, <2>3, Zenon DEF Live
  <2>4. CASE c.s = s
    <3>1. i \in 1..(len - n) /\ n + i \in 1..len /\ n < len
      BY <1>5, <1>7, <1>10, <2>2, <2>4
    <3>2. c.id = firstOOOChunkID[s] + (n + i) - 1
      BY <1>5, <1>9, <1>10, <2>2, <2>4, <3>1, ChunkTypes
    <3>3. c.ref = oooMmappedChunks[s][n + i].ref /\ c.ts = oooMmappedChunks[s][n + i].ts
      BY <1>7, <1>10, <2>2, <2>4, <3>1, Zenon
    <3> QED
      BY <1>2, <2>1, <2>4, <3>1, <3>2, <3>3, Zenon DEF Live
  <2> QED
    BY <2>3, <2>4, Zenon
<1>13. ASSUME NEW c \in Live, c.s # s \/ c.ref > minOOOMmapRef PROVE c \in Live'
  <2>1. c \in LiveChunk /\ c.s \in Series
    BY Zenon DEF Live, LiveChunk
  <2>2. PICK i \in 1..Len(oooMmappedChunks[c.s]) :
          /\ c.id = firstOOOChunkID[c.s] + i - 1
          /\ c.ref = oooMmappedChunks[c.s][i].ref
          /\ c.ts = oooMmappedChunks[c.s][i].ts
    BY LiveIsChunk, Zenon
  <2>3. CASE c.s # s
    BY <1>10, <2>1, <2>2, <2>3, Zenon DEF Live
  <2>4. CASE c.s = s
    <3>1. i \in 1..len /\ i > n
      BY <1>2, <1>5, <1>13, <2>2, <2>4, Zenon
    <3>2. i - n \in 1..(len - n) /\ n + (i - n) = i /\ n < len
      BY <1>5, <3>1
    <3>3. PICK k \in 1..Len(oooMmappedChunks'[s]) : k = i - n
      BY <1>7, <1>10, <3>2, Zenon
    <3>4. firstOOOChunkID[s] \in Nat /\ firstOOOChunkID'[s] = firstOOOChunkID[s] + n
      BY <1>9, <1>10, <3>2, ChunkTypes, Zenon
    <3>5. c.id = firstOOOChunkID[s] + i - 1
      BY <2>2, <2>4, Zenon
    <3>6. c.id = firstOOOChunkID'[s] + k - 1
      BY <1>5, <3>1, <3>3, <3>4, <3>5
    <3>7. oooMmappedChunks'[s][k] = oooMmappedChunks[s][i]
      BY <1>7, <1>10, <3>2, <3>3, Zenon
    <3> QED
      BY <2>1, <2>2, <2>4, <3>3, <3>6, <3>7, Zenon DEF Live
  <2> QED
    BY <2>3, <2>4, Zenon
<1> QED
  BY <1>11, <1>12, <1>13, Zenon
-----------------------------------------------------------------------------
\* What Stored has, in terms of the live chunks.
StoredParts ==
  \A s \in Series, t \in Times :
    <<s, t>> \in Stored <=> \/ <<s, t>> \in blocks \/ t \in oooHeadChunk[s]
                            \/ \E c \in Live : c.s = s /\ t \in c.ts

LEMMA StoredIs == HeadTypeOK => StoredParts
<1> SUFFICES ASSUME HeadTypeOK, NEW s \in Series, NEW t \in Times
             PROVE  <<s, t>> \in Stored <=> \/ <<s, t>> \in blocks \/ t \in oooHeadChunk[s]
                                            \/ \E c \in Live : c.s = s /\ t \in c.ts
  BY Zenon DEF StoredParts
<1>1. <<s, t>> \in Stored <=>
        \/ <<s, t>> \in blocks \/ t \in oooHeadChunk[s]
        \/ \E i \in DOMAIN oooMmappedChunks[s] : t \in oooMmappedChunks[s][i].ts
  BY Zenon DEF Stored, Sample
<1>2. ASSUME NEW i \in DOMAIN oooMmappedChunks[s], t \in oooMmappedChunks[s][i].ts
      PROVE  \E c \in Live : c.s = s /\ t \in c.ts
  BY <1>2, ChunkTypes, ChunkIsLive, Zenon
<1>3. ASSUME NEW c \in Live, c.s = s, t \in c.ts
      PROVE  \E i \in DOMAIN oooMmappedChunks[s] : t \in oooMmappedChunks[s][i].ts
  BY <1>3, ChunkTypes, LiveIsChunk
<1> QED
  BY <1>1, <1>2, <1>3, Zenon

\* What is in memory stays there, m-mapped perhaps, or is collected.
HeadKept ==
  \A s \in Series : \A t \in oooHeadChunk[s] :
    t \in oooHeadChunk'[s] \/ \E c \in Live' : c.s = s /\ t \in c.ts /\ c.ref = nextRef

\* A sample that was stored stays stored when only chunks that are in blocks
\* are collected.
LEMMA KeepStored ==
  ASSUME OInv, HeadTypeOK', HeadKept, blocks \subseteq blocks', inserted' \subseteq Sample,
         \A c \in Live : c \in Live' \/ {c.s} \X c.ts \subseteq blocks',
         \A s \in Series, t \in Times :
           <<s, t>> \in inserted' => <<s, t>> \in inserted \/ t \in oooHeadChunk'[s]
  PROVE  InsertedStored'
<1>1. ASSUME NEW s \in Series, NEW t \in Times, <<s, t>> \in inserted'
      PROVE  <<s, t>> \in Stored'
  <2>1. (<<s, t>> \in Stored)' <=> \/ <<s, t>> \in blocks' \/ t \in oooHeadChunk'[s]
                                   \/ \E c \in Live' : c.s = s /\ t \in c.ts
    <3>1. HeadTypeOK' => StoredParts'
      BY StoredIs, PTL
    <3> QED
      BY <3>1, Zenon DEF StoredParts
  <2>2. CASE <<s, t>> \in inserted
    <3>1. \/ <<s, t>> \in blocks \/ t \in oooHeadChunk[s]
          \/ \E c \in Live : c.s = s /\ t \in c.ts
      BY <2>2, StoredIs, Zenon DEF OInv, InsertedStored, StoredParts
    <3>2. CASE <<s, t>> \in blocks
      BY <2>1, <3>2, Zenon
    <3>3. CASE t \in oooHeadChunk[s]
      BY <2>1, <3>3, Zenon DEF HeadKept
    <3>4. ASSUME NEW c \in Live, c.s = s, t \in c.ts PROVE <<s, t>> \in Stored'
      BY <2>1, <3>4, Zenon
    <3> QED
      BY <3>1, <3>2, <3>3, <3>4, Zenon
  <2>3. CASE t \in oooHeadChunk'[s]
    BY <2>1, <2>3, Zenon
  <2> QED
    BY <1>1, <2>2, <2>3, Zenon
<1> QED
  BY <1>1 DEF InsertedStored, Sample

\* A query goes on finding its samples when only chunks that it does not use
\* are collected.
LEMMA KeepRead ==
  ASSUME OInv, HeadKept, reads' = reads,
         \A c \in Live : c \in Live' \/ \A r \in Readers : reads[r].pc = "open" => c.ref <= reads[r].minRef
  PROVE  ReadInv'
<1>1. SUFFICES ASSUME NEW r \in Readers
               PROVE  /\ reads[r].pc = "closed" =>
                           reads[r].todo = {} /\ reads[r].metas = {} /\ reads[r].asked = {}
                      /\ \A m \in reads[r].metas : m.ref > reads[r].minRef
                      /\ \A s \in Series, t \in Times : <<s, t>> \in reads[r].asked => Found(reads[r], s, t)'
  BY Zenon DEF ReadInv
<1>2. /\ reads[r].pc = "closed" =>
           reads[r].todo = {} /\ reads[r].metas = {} /\ reads[r].asked = {}
      /\ \A m \in reads[r].metas : m.ref > reads[r].minRef
      /\ \A s \in Series, t \in Times : <<s, t>> \in reads[r].asked => Found(reads[r], s, t)
  BY Zenon DEF OInv, ReadInv
<1>3. reads[r].pc \in {"closed", "open"} /\ reads[r].minRef \in Nat /\ reads[r].minRef < nextRef /\ nextRef \in Nat
  BY Zenon DEF OInv, DBTypeOK, HeadTypeOK, Reads, RefInv
<1>4. ASSUME NEW s \in Series, NEW t \in Times, <<s, t>> \in reads[r].asked PROVE Found(reads[r], s, t)'
  <2>1. reads[r].pc = "open" /\ Found(reads[r], s, t)
    BY <1>2, <1>3, <1>4, Zenon
  <2>2. \A c \in Live : c.ref > reads[r].minRef => c \in Live'
    <3>1. ASSUME NEW c \in Live PROVE c.ref \in Nat
      BY LiveIsChunk, Zenon DEF OInv
    <3> QED
      BY <1>3, <2>1, <3>1
  <2>3. CASE <<s, t>> \in reads[r].got \/ <<s, t>> \in reads[r].blocks
    BY <2>3, Zenon DEF Found
  <2>4. CASE s \in reads[r].todo /\ t \in oooHeadChunk[s]
    <3>1. t \in oooHeadChunk'[s] \/ \E c \in Live' : c.s = s /\ t \in c.ts /\ c.ref > reads[r].minRef
      BY <1>3, <2>4, Zenon DEF HeadKept
    <3> QED
      BY <2>4, <3>1, Zenon DEF Found
  <2>5. ASSUME s \in reads[r].todo, NEW c \in Live, c.s = s, t \in c.ts, c.ref > reads[r].minRef
        PROVE  Found(reads[r], s, t)'
    BY <2>2, <2>5, Zenon DEF Found
  <2>6. ASSUME NEW c \in Live, c.s = s, t \in c.ts,
               [s |-> s, id |-> c.id, ref |-> c.ref] \in reads[r].metas
        PROVE  Found(reads[r], s, t)'
    <3>1. c \in Live'
      BY <1>2, <2>2, <2>6, Zenon
    <3> QED
      BY <2>6, <3>1, Zenon DEF Found
  <2> QED
    BY <2>1, <2>3, <2>4, <2>5, <2>6, Zenon DEF Found
<1> QED
  BY <1>2, <1>4, Zenon
-----------------------------------------------------------------------------
\* The fields of the records.
LEMMA RecordTypes ==
  ASSUME DBTypeOK
  PROVE  /\ ch.pc \in {"idle", "mmap", "write", "reload", "mark", "truncate", "gc"}
         /\ ch.todo \in SUBSET Series /\ ch.postings \in SUBSET Series /\ ch.lastMmapRef \in Nat
         /\ ch.times \in SUBSET Times /\ ch.written \in SUBSET Sample
         /\ \A r \in Readers :
              /\ reads[r].pc \in {"closed", "open"} /\ reads[r].minRef \in Nat
              /\ reads[r].blocks \in SUBSET Sample /\ reads[r].todo \in SUBSET Series
              /\ reads[r].metas \in SUBSET Meta
              /\ reads[r].got \in SUBSET Sample /\ reads[r].asked \in SUBSET Sample
BY Zenon DEF DBTypeOK, Compactions, Reads

\* A chunk that is m-mapped has a reference above all that a compaction or a
\* query goes by.
LEMMA GrowStep ==
  ASSUME OInv, HeadTypeOK', HeadKept, ch' = ch, reads' = reads, UNCHANGED dbVars,
         nextRef <= nextRef', Live \subseteq Live',
         \A c \in Live' : c \in Live \/ (/\ c.ref = nextRef /\ nextRef < nextRef'
                                         /\ ch.pc = "mmap" => c.s \in ch.todo),
         inserted' \subseteq Sample,
         \A s \in Series, t \in Times :
           <<s, t>> \in inserted' => <<s, t>> \in inserted \/ t \in oooHeadChunk'[s]
  PROVE  OInv'
<1>1. nextRef \in Nat /\ nextRef' \in Nat /\ \A c \in Live : c.ref \in Nat /\ c.ref < nextRef
  <2>1. ASSUME NEW c \in Live PROVE c.ref \in Nat
    BY LiveIsChunk, Zenon DEF OInv
  <2> QED
    BY <2>1, Zenon DEF OInv, HeadTypeOK, RefInv
<1>2. /\ ch.lastMmapRef \in Nat /\ ch.lastMmapRef < nextRef
      /\ lastGarbageCollectedMmapRef \in Nat /\ lastGarbageCollectedMmapRef < nextRef
      /\ \A r \in Readers : reads[r].minRef \in Nat /\ reads[r].minRef < nextRef
  BY RecordTypes, Zenon DEF OInv, RefInv, DBTypeOK
<1>3. UNCHANGED <<blocks, lastGarbageCollectedMmapRef, minOOOMmapRef>>
  BY Zenon DEF dbVars
<1>4. ReadInv'
  BY KeepRead, Zenon
<1>5. InsertedStored'
  BY <1>3, KeepStored, Zenon
<1>6. RefInv'
  BY <1>1, <1>2, <1>3 DEF RefInv
<1>7. CompactInv'
  <2>1. \A c \in Live' : c \in Live \/ ~(c.ref <= ch.lastMmapRef)
    BY <1>1, <1>2
  <2> QED
    BY <1>3, <2>1, Zenon DEF OInv, CompactInv
<1>8. CollectInv'
  <2>1. \A c \in Live' : c \in Live \/ ~(c.ref <= lastGarbageCollectedMmapRef)
    BY <1>1, <1>2
  <2> QED
    BY <1>3, <2>1, Zenon DEF OInv, CollectInv
<1>9. DBTypeOK'
  BY <1>3, Zenon DEF OInv, DBTypeOK
<1> QED
  BY <1>4, <1>5, <1>6, <1>7, <1>8, <1>9, Zenon DEF OInv

LEMMA InsertStep ==
  ASSUME OInv, ~MmapRace, NEW s \in Series, NEW t \in Times, insert(s, t)
  PROVE  OInv'
<1>1. /\ firstOOOChunkID' = firstOOOChunkID /\ UNCHANGED dbVars /\ ch' = ch /\ reads' = reads
      /\ inserted' = inserted \union {<<s, t>>}
  BY Zenon DEF insert
<1>2. nextRef \in Nat /\ oooHeadChunk \in [Series -> SUBSET Times]
  BY Zenon DEF OInv, HeadTypeOK
<1>3. inserted' \subseteq Sample
  BY <1>1 DEF OInv, DBTypeOK, Sample
<1>4. ASSUME t \in oooHeadChunk'[s], NEW p \in Series, NEW u \in Times, <<p, u>> \in inserted'
      PROVE  <<p, u>> \in inserted \/ u \in oooHeadChunk'[p]
  BY <1>1, <1>4, Zenon
<1>5. CASE /\ oooHeadChunk' = [oooHeadChunk EXCEPT ![s] = @ \union {t}]
           /\ UNCHANGED <<oooMmappedChunks, nextRef>>
  <2>1. Live' = Live
    BY <1>1, <1>5, LiveSame, Zenon
  <2>2. oooHeadChunk' \in [Series -> SUBSET Times] /\ t \in oooHeadChunk'[s]
        /\ \A p \in Series : oooHeadChunk[p] \subseteq oooHeadChunk'[p]
    BY <1>2, <1>5, Zenon
  <2>3. HeadTypeOK'
    BY <1>1, <1>5, <2>2, Zenon DEF OInv, HeadTypeOK
  <2>4. HeadKept
    BY <2>2, Zenon DEF HeadKept
  <2>5. nextRef <= nextRef' /\ Live \subseteq Live' /\ \A c \in Live' : c \in Live
    BY <1>2, <1>5, <2>1
  <2> QED
    BY <1>1, <1>3, <1>4, <2>2, <2>3, <2>4, <2>5, GrowStep, Zenon
<1>6. CASE /\ oooMmappedChunks' = [oooMmappedChunks EXCEPT ![s] = Mmapped(s)]
           /\ nextRef' = nextRef + 1
           /\ oooHeadChunk' = [oooHeadChunk EXCEPT ![s] = {t}]
  <2>1. Live' = Live \union {NewChunk(s)}
    BY <1>1, <1>6, MmapStep, Zenon DEF OInv
  <2>2. oooHeadChunk' \in [Series -> SUBSET Times] /\ t \in oooHeadChunk'[s]
        /\ \A p \in Series : p # s => oooHeadChunk'[p] = oooHeadChunk[p]
    BY <1>2, <1>6, Zenon
  <2>3. HeadTypeOK'
    BY <1>1, <1>6, <2>2, MmapTypes, Zenon DEF OInv, RefInv
  <2>4. NewChunk(s).s = s /\ NewChunk(s).ref = nextRef /\ NewChunk(s).ts = oooHeadChunk[s]
    BY Zenon DEF NewChunk
  <2>5. HeadKept
    BY <2>1, <2>2, <2>4, Zenon DEF HeadKept
  <2>6. ch.pc = "mmap" => s \in ch.todo
    <3>1. oooMmappedChunks'[s] = Mmapped(s)
      BY <1>6, Zenon DEF OInv, HeadTypeOK
    <3>2. Mmapped(s) # oooMmappedChunks[s]
      <4>1. [ref |-> nextRef, ts |-> oooHeadChunk[s]] \in Chunk
        BY <1>2, Zenon DEF Chunk
      <4>2. Len(Mmapped(s)) = Len(oooMmappedChunks[s]) + 1 /\ Len(oooMmappedChunks[s]) \in Nat
        BY <4>1, ChunkTypes, AppendChunk, Zenon DEF Mmapped, OInv
      <4> QED
        BY <4>2
    <3> QED
      BY <3>1, <3>2, Zenon DEF MmapRace
  <2>7. /\ nextRef <= nextRef' /\ Live \subseteq Live'
        /\ \A c \in Live' : c \in Live \/ (/\ c.ref = nextRef /\ nextRef < nextRef'
                                           /\ ch.pc = "mmap" => c.s \in ch.todo)
    BY <1>2, <1>6, <2>1, <2>4, <2>6
  <2> QED
    BY <1>1, <1>3, <1>4, <2>2, <2>3, <2>5, <2>7, GrowStep, Zenon
<1> QED
  BY <1>5, <1>6, Zenon DEF insert

LEMMA MaxPair ==
  ASSUME NEW a \in Nat, NEW b \in Nat
  PROVE  Max({a, b}) \in {a, b}
<1>1. \E x \in {a, b} : \A y \in {a, b} : x >= y
  OBVIOUS
<1> QED
  BY <1>1, Zenon DEF Max

\* After its turn all chunks of a series are in the postings and the range of
\* the compaction.
LEMMA MmapSeriesStep ==
  ASSUME OInv, NEW s \in Series, mmapSeries(s)
  PROVE  OInv'
<1>1. PICK chks : chks = IF oooHeadChunk[s] # {} THEN Mmapped(s) ELSE oooMmappedChunks[s]
  BY Zenon
<1>2. PICK last : last = IF chks = <<>> THEN 0 ELSE chks[Len(chks)].ref
  BY Zenon
<1>3. /\ ch.pc = "mmap" /\ s \in ch.todo
      /\ oooMmappedChunks' = [oooMmappedChunks EXCEPT ![s] = chks]
      /\ oooHeadChunk' = [oooHeadChunk EXCEPT ![s] = {}]
      /\ nextRef' = IF oooHeadChunk[s] # {} THEN nextRef + 1 ELSE nextRef
      /\ ch' = [ch EXCEPT
           !.pc = IF ch.todo = {s} THEN "write" ELSE "mmap",
           !.todo = @ \ {s},
           !.postings = IF chks = <<>> THEN @ ELSE @ \union {s},
           !.lastMmapRef = Max({@, last}),
           !.times = @ \union UNION {chks[i].ts : i \in DOMAIN chks}]
      /\ firstOOOChunkID' = firstOOOChunkID /\ inserted' = inserted
      /\ UNCHANGED dbVars /\ reads' = reads
  BY <1>1, <1>2 DEF mmapSeries
<1>4. /\ UNCHANGED <<blocks, lastGarbageCollectedMmapRef, minOOOMmapRef>>
      /\ nextRef \in Nat /\ oooHeadChunk \in [Series -> SUBSET Times]
  BY <1>3, Zenon DEF dbVars, OInv, HeadTypeOK
<1>5. oooHeadChunk' \in [Series -> SUBSET Times]
      /\ \A p \in Series : p # s => oooHeadChunk'[p] = oooHeadChunk[p]
  BY <1>3, <1>4, Zenon
<1>6. /\ HeadTypeOK' /\ HeadKept /\ Live \subseteq Live' /\ nextRef <= nextRef'
      /\ \A c \in Live' : c \in Live \/ (c.ref = nextRef /\ nextRef < nextRef' /\ c.s = s)
  <2>1. CASE oooHeadChunk[s] # {}
    <3>1. oooMmappedChunks' = [oooMmappedChunks EXCEPT ![s] = Mmapped(s)] /\ nextRef' = nextRef + 1
      BY <1>1, <1>3, <2>1, Zenon
    <3>2. Live' = Live \union {NewChunk(s)}
      BY <1>3, <3>1, MmapStep, Zenon DEF OInv
    <3>3. HeadTypeOK'
      BY <1>3, <1>5, <3>1, MmapTypes, Zenon DEF OInv, RefInv
    <3>4. NewChunk(s).s = s /\ NewChunk(s).ref = nextRef /\ NewChunk(s).ts = oooHeadChunk[s]
      BY Zenon DEF NewChunk
    <3>5. HeadKept
      BY <1>5, <3>2, <3>4, Zenon DEF HeadKept
    <3> QED
      BY <1>4, <3>1, <3>2, <3>3, <3>4, <3>5
  <2>2. CASE oooHeadChunk[s] = {}
    <3>1. oooMmappedChunks' = oooMmappedChunks /\ nextRef' = nextRef
      BY <1>1, <1>3, <2>2, Zenon DEF OInv, HeadTypeOK
    <3>2. Live' = Live
      BY <1>3, <3>1, LiveSame, Zenon
    <3>3. HeadTypeOK'
      BY <1>3, <1>5, <3>1, Zenon DEF OInv, HeadTypeOK
    <3>4. HeadKept
      BY <1>5, <2>2, Zenon DEF HeadKept
    <3> QED
      BY <1>4, <3>1, <3>2, <3>3, <3>4
  <2> QED
    BY <2>1, <2>2, Zenon
<1>7. /\ chks = oooMmappedChunks'[s] /\ chks \in Seq(Chunk) /\ Len(chks) \in Nat
      /\ DOMAIN chks = 1..Len(chks)
      /\ \A i \in 1..Len(chks) : chks[i].ref \in Nat /\ chks[i].ts \in SUBSET Times
  <2>1. chks = oooMmappedChunks'[s] /\ oooMmappedChunks'[s] \in Seq(Chunk)
    BY <1>3, <1>6, Zenon DEF OInv, HeadTypeOK
  <2>2. Len(chks) \in Nat /\ DOMAIN chks = 1..Len(chks) /\ \A i \in 1..Len(chks) : chks[i] \in Chunk
    BY <2>1
  <2>3. \A c \in Chunk : c.ref \in Nat /\ c.ts \in SUBSET Times
    BY Zenon DEF Chunk
  <2> QED
    BY <2>1, <2>2, <2>3, Zenon
<1>8. nextRef' \in Nat /\ \A c \in Live' : c.ref < nextRef'
  <2>1. nextRef' \in Nat
    BY <1>6, Zenon DEF HeadTypeOK
  <2>2. ASSUME NEW c \in Live PROVE c.ref \in Nat /\ c.ref < nextRef
    BY LiveIsChunk, Zenon DEF OInv, RefInv
  <2> QED
    BY <1>4, <1>6, <2>1, <2>2
<1>9. ASSUME NEW i \in 1..Len(chks) PROVE \E c \in Live' : c.s = s /\ c.ref = chks[i].ref
  <2>1. [s |-> s, id |-> firstOOOChunkID'[s] + i - 1, ref |-> oooMmappedChunks'[s][i].ref,
         ts |-> oooMmappedChunks'[s][i].ts] \in LiveChunk
    <3>1. firstOOOChunkID'[s] \in Nat
      BY <1>6, Zenon DEF HeadTypeOK
    <3>2. firstOOOChunkID'[s] + i - 1 \in Nat
      BY <1>7, <3>1
    <3> QED
      BY <1>7, <3>2, Zenon DEF LiveChunk
  <2> QED
    BY <1>7, <2>1, SMTT(30) DEF Live
<1>10. last \in Nat /\ (last = 0 \/ last < nextRef')
  <2>1. CASE chks = <<>>
    BY <1>2, <2>1, Zenon
  <2>2. CASE chks # <<>>
    <3>1. Len(chks) \in 1..Len(chks)
      BY <1>7, <2>2
    <3>2. last = chks[Len(chks)].ref
      BY <1>2, <2>2, Zenon
    <3> QED
      BY <1>7, <1>8, <1>9, <3>1, <3>2, Zenon
  <2> QED
    BY <2>1, <2>2, Zenon
<1>11. /\ ch.lastMmapRef \in Nat /\ ch.lastMmapRef < nextRef
       /\ ch.todo \in SUBSET Series /\ ch.postings \in SUBSET Series
       /\ ch.times \in SUBSET Times /\ ch.written \in SUBSET Sample
  BY RecordTypes, Zenon DEF OInv, RefInv
<1>12. PICK max \in Nat : max = Max({ch.lastMmapRef, last}) /\ max < nextRef'
  <2>1. Max({ch.lastMmapRef, last}) \in {ch.lastMmapRef, last}
    BY <1>10, <1>11, MaxPair, Zenon
  <2> QED
    BY <1>4, <1>6, <1>8, <1>10, <1>11, <2>1
<1>13. PICK times \in SUBSET Times :
         times = ch.times \union UNION {chks[i].ts : i \in DOMAIN chks}
  <2>1. PICK all : all = ch.times \union UNION {chks[i].ts : i \in DOMAIN chks}
    BY Zenon
  <2>2. ASSUME NEW t \in all PROVE t \in Times
    BY <1>7, <1>11, <2>1, Zenon
  <2> QED
    BY <2>1, <2>2, Zenon
<1>14. /\ ch' \in Compactions
       /\ ch'.pc = (IF ch.todo = {s} THEN "write" ELSE "mmap") /\ ch'.todo = ch.todo \ {s}
       /\ ch'.postings = (IF chks = <<>> THEN ch.postings ELSE ch.postings \union {s})
       /\ ch'.lastMmapRef = max /\ ch'.times = times
  BY <1>3, <1>11, <1>12, <1>13, Zenon DEF OInv, DBTypeOK, Compactions
<1>15. ASSUME NEW c \in Live'
       PROVE  c.s \in ch'.todo \/ (c.s \in ch'.postings /\ c.ts \subseteq ch'.times)
  <2>1. CASE c.s = s
    <3>1. PICK i \in 1..Len(chks) : c.ts = chks[i].ts
      BY <1>7, <2>1, Zenon DEF Live
    <3>2. c.ts \subseteq times
      BY <1>7, <1>13, <3>1, Zenon
    <3>3. chks # <<>>
      BY <1>7, <3>1
    <3> QED
      BY <1>14, <2>1, <3>2, <3>3, Zenon
  <2>2. CASE c.s # s
    <3>1. c \in Live
      BY <1>6, <2>2, Zenon
    <3>2. c.s \in ch.todo \/ (c.s \in ch.postings /\ c.ts \subseteq ch.times)
      BY <1>3, <3>1, Zenon DEF OInv, CompactInv
    <3> QED
      BY <1>13, <1>14, <2>2, <3>2, Zenon
  <2> QED
    BY <2>1, <2>2, Zenon
<1>16. CompactInv'
  <2>1. CASE ch.todo = {s}
    <3>1. ch'.pc = "write" /\ ch'.todo = {}
      BY <1>14, <2>1, Zenon
    <3> QED
      BY <1>15, <3>1, Zenon DEF CompactInv
  <2>2. CASE ch.todo # {s}
    <3>1. ch'.pc = "mmap" /\ ch'.todo # {}
      BY <1>3, <1>14, <2>2, Zenon
    <3> QED
      BY <1>15, <3>1, Zenon DEF CompactInv
  <2> QED
    BY <2>1, <2>2, Zenon
<1>17. CollectInv'
  <2>1. ch'.pc \notin {"truncate", "gc"}
    BY <1>14, Zenon
  <2>2. \A c \in Live' : c \in Live \/ ~(c.ref <= lastGarbageCollectedMmapRef)
    BY <1>4, <1>6 DEF OInv, RefInv, DBTypeOK
  <2> QED
    BY <1>4, <2>1, <2>2, Zenon DEF OInv, CollectInv
<1>18. RefInv'
  BY <1>3, <1>4, <1>6, <1>8, <1>12, <1>14, RecordTypes DEF OInv, RefInv, DBTypeOK
<1>19. ReadInv'
  BY <1>3, <1>6, KeepRead, Zenon
<1>20. DBTypeOK'
  BY <1>3, <1>4, <1>14, Zenon DEF OInv, DBTypeOK
<1>21. InsertedStored'
  <2>1. inserted' \subseteq Sample
    BY <1>20, Zenon DEF DBTypeOK
  <2> QED
    BY <1>3, <1>4, <1>6, <2>1, KeepStored, Zenon
<1> QED
  BY <1>6, <1>16, <1>17, <1>18, <1>19, <1>20, <1>21, Zenon DEF OInv
-----------------------------------------------------------------------------
\* The steps of a compaction that touch neither the chunks nor the queries.
LEMMA QuietStep ==
  ASSUME OInv, UNCHANGED headVars, reads' = reads, blocks \subseteq blocks', DBTypeOK',
         ch'.lastMmapRef < nextRef, lastGarbageCollectedMmapRef' < nextRef,
         CompactInv', CollectInv'
  PROVE  OInv'
<1>1. UNCHANGED <<oooHeadChunk, oooMmappedChunks, firstOOOChunkID, nextRef, inserted>>
  BY Zenon DEF headVars
<1>2. Live' = Live
  BY <1>1, LiveSame, Zenon
<1>3. HeadTypeOK' /\ HeadKept
  BY <1>1, Zenon DEF OInv, HeadTypeOK, HeadKept
<1>4. ReadInv'
  BY <1>2, <1>3, KeepRead, Zenon
<1>5. RefInv'
  BY <1>1, <1>2, Zenon DEF OInv, RefInv
<1>6. InsertedStored'
  BY <1>1, <1>2, <1>3, KeepStored, Zenon DEF DBTypeOK
<1> QED
  BY <1>3, <1>4, <1>5, <1>6, Zenon DEF OInv

LEMMA IdleFields ==
  Idle \in Compactions /\ Idle.pc = "idle" /\ Idle.lastMmapRef = 0
BY Zenon DEF Idle, Compactions

\* compactOOOHead, and an error that ends it.
LEMMA BeginAndFailStep ==
  ASSUME OInv, compactOOOHead \/ fail
  PROVE  OInv'
<1>1. /\ UNCHANGED headVars /\ UNCHANGED dbVars /\ reads' = reads
      /\ ch' = Idle \/ ch' = [Idle EXCEPT !.pc = "mmap", !.todo = Series]
  BY Zenon DEF compactOOOHead, fail
<1>2. UNCHANGED <<blocks, lastGarbageCollectedMmapRef, minOOOMmapRef, inserted>> /\ Live' = Live
  BY <1>1, LiveSame, Zenon DEF headVars, dbVars
<1>3. /\ ch' \in Compactions /\ ch'.lastMmapRef = 0
      /\ ch'.pc = "idle" \/ (ch'.pc = "mmap" /\ ch'.todo = Series)
  <2>1. PICK begun : begun = [Idle EXCEPT !.pc = "mmap", !.todo = Series]
    BY Zenon
  <2>2. begun \in Compactions /\ begun.lastMmapRef = 0 /\ begun.pc = "mmap" /\ begun.todo = Series
    BY <2>1, Zenon DEF Idle, Compactions
  <2> QED
    BY <1>1, <2>1, <2>2, IdleFields, Zenon
<1>4. DBTypeOK'
  BY <1>1, <1>2, <1>3, Zenon DEF OInv, DBTypeOK
<1>5. 0 < nextRef /\ lastGarbageCollectedMmapRef < nextRef
  BY RecordTypes DEF OInv, RefInv, HeadTypeOK
<1>6. CompactInv'
  <2>1. ASSUME NEW c \in Live PROVE c.s \in Series
    BY LiveIsChunk, Zenon DEF OInv
  <2> QED
    BY <1>2, <1>3, <2>1, Zenon DEF CompactInv
<1>7. CollectInv'
  BY <1>2, <1>3, Zenon DEF OInv, CollectInv
<1> QED
  BY <1>1, <1>2, <1>3, <1>4, <1>5, <1>6, <1>7, QuietStep, Zenon

\* What is handed to the compactor has every chunk up to lastMmapRef.
LEMMA WriteStep ==
  ASSUME WellOrdered, OInv, write
  PROVE  OInv'
<1>1. /\ UNCHANGED headVars /\ UNCHANGED dbVars /\ reads' = reads
      /\ ch.pc = "write" /\ ch' = [ch EXCEPT !.pc = "reload", !.written = Compacted]
  BY Zenon DEF write
<1>2. UNCHANGED <<blocks, lastGarbageCollectedMmapRef, minOOOMmapRef, inserted>> /\ Live' = Live
  BY <1>1, LiveSame, Zenon DEF headVars, dbVars
<1>3. Compacted \subseteq Sample
  <2>1. ch.postings \subseteq Series
    BY RecordTypes, Zenon DEF OInv
  <2> QED
    BY <2>1, Zenon DEF Compacted, Sample
<1>4. ch' \in Compactions /\ ch'.pc = "reload" /\ ch'.lastMmapRef = ch.lastMmapRef /\ ch'.written = Compacted
  BY <1>1, <1>3, Zenon DEF OInv, DBTypeOK, Compactions
<1>5. DBTypeOK'
  BY <1>1, <1>2, <1>4, Zenon DEF OInv, DBTypeOK
<1>6. ASSUME NEW c \in Live, c.ref <= ch.lastMmapRef, NEW t \in c.ts
      PROVE  <<c.s, t>> \in Compacted
  <2>1. c.s \in ch.postings /\ t \in ch.times /\ c.s \in Series /\ t \in Times
    BY <1>1, <1>6, LiveIsChunk, Zenon DEF OInv, CompactInv
  <2>2. Covered(t)
    BY <2>1, TimesCovered, Zenon DEF OInv
  <2>3. \E i \in DOMAIN oooMmappedChunks[c.s] :
          oooMmappedChunks[c.s][i].ref <= ch.lastMmapRef /\ t \in oooMmappedChunks[c.s][i].ts
    BY <1>6, <2>1, LiveIsChunk, ChunkTypes, Zenon DEF OInv
  <2> QED
    BY <2>1, <2>2, <2>3, Zenon DEF Compacted
<1>7. CompactInv'
  BY <1>2, <1>4, <1>6 DEF CompactInv
<1>8. CollectInv'
  BY <1>2, <1>4, Zenon DEF OInv, CollectInv
<1>9. ch.lastMmapRef < nextRef /\ lastGarbageCollectedMmapRef < nextRef
  BY Zenon DEF OInv, RefInv
<1> QED
  BY <1>1, <1>2, <1>4, <1>5, <1>7, <1>8, <1>9, QuietStep, Zenon

LEMMA ReloadStep ==
  ASSUME OInv, reloadBlocks
  PROVE  OInv'
<1>1. /\ UNCHANGED headVars /\ UNCHANGED <<lastGarbageCollectedMmapRef, minOOOMmapRef>> /\ reads' = reads
      /\ blocks' = blocks \union ch.written
      /\ ch.pc = "reload" /\ ch' = [ch EXCEPT !.pc = "mark"]
  BY Zenon DEF reloadBlocks
<1>2. inserted' = inserted /\ Live' = Live
  BY <1>1, LiveSame, Zenon DEF headVars
<1>3. ch' \in Compactions /\ ch'.pc = "mark" /\ ch'.lastMmapRef = ch.lastMmapRef
  BY <1>1, Zenon DEF OInv, DBTypeOK, Compactions
<1>4. DBTypeOK'
  <2>1. ch.written \subseteq Sample
    BY RecordTypes, Zenon DEF OInv
  <2> QED
    BY <1>1, <1>2, <1>3, <2>1, Zenon DEF OInv, DBTypeOK
<1>5. CompactInv'
  BY <1>1, <1>2, <1>3, Zenon DEF OInv, CompactInv
<1>6. CollectInv'
  BY <1>1, <1>2, <1>3, Zenon DEF OInv, CollectInv
<1>7. ch.lastMmapRef < nextRef /\ lastGarbageCollectedMmapRef < nextRef
  BY Zenon DEF OInv, RefInv
<1> QED
  BY <1>1, <1>3, <1>4, <1>5, <1>6, <1>7, QuietStep, Zenon

LEMMA MarkStep ==
  ASSUME OInv, mark
  PROVE  OInv'
<1>1. /\ UNCHANGED headVars /\ UNCHANGED <<blocks, minOOOMmapRef>> /\ reads' = reads
      /\ lastGarbageCollectedMmapRef' =
           IF ch.lastMmapRef # 0 THEN ch.lastMmapRef ELSE lastGarbageCollectedMmapRef
      /\ ch.pc = "mark" /\ ch' = [ch EXCEPT !.pc = "truncate"]
  BY Zenon DEF mark
<1>2. inserted' = inserted /\ Live' = Live
  BY <1>1, LiveSame, Zenon DEF headVars
<1>3. ch' \in Compactions /\ ch'.pc = "truncate" /\ ch'.lastMmapRef = ch.lastMmapRef
  BY <1>1, Zenon DEF OInv, DBTypeOK, Compactions
<1>4. DBTypeOK'
  BY <1>1, <1>2, <1>3, RecordTypes, Zenon DEF OInv, DBTypeOK
<1>5. CompactInv'
  BY <1>1, <1>2, <1>3, Zenon DEF OInv, CompactInv
<1>6. CollectInv'
  BY <1>1, <1>2, <1>3, Zenon DEF OInv, CollectInv, CompactInv
<1>7. ch.lastMmapRef < nextRef /\ lastGarbageCollectedMmapRef < nextRef
  BY Zenon DEF OInv, RefInv
<1> QED
  BY <1>1, <1>3, <1>4, <1>5, <1>6, <1>7, QuietStep, Zenon

\* Garbage collection begins when no query uses what it is going to collect.
LEMMA TruncateStep ==
  ASSUME OInv, truncateOOO
  PROVE  OInv'
<1>1. /\ UNCHANGED headVars /\ UNCHANGED <<blocks, lastGarbageCollectedMmapRef>> /\ reads' = reads
      /\ ch.pc = "truncate"
  BY Zenon DEF truncateOOO
<1>2. inserted' = inserted /\ Live' = Live
  BY <1>1, LiveSame, Zenon DEF headVars
<1>3. /\ ch.lastMmapRef \in Nat /\ ch.lastMmapRef < nextRef /\ lastGarbageCollectedMmapRef < nextRef
      /\ minOOOMmapRef \in Nat
  BY RecordTypes, Zenon DEF OInv, RefInv, DBTypeOK
<1>4. CASE /\ ch.lastMmapRef > minOOOMmapRef
           /\ ~HasOpenReadsAtOrBefore(ch.lastMmapRef)
           /\ minOOOMmapRef' = ch.lastMmapRef
           /\ ch' = [ch EXCEPT !.pc = "gc", !.todo = Series]
  <2>1. ch' \in Compactions /\ ch'.pc = "gc" /\ ch'.lastMmapRef = ch.lastMmapRef
    BY <1>4, Zenon DEF OInv, DBTypeOK, Compactions
  <2>2. DBTypeOK'
    BY <1>1, <1>2, <1>3, <1>4, <2>1, Zenon DEF OInv, DBTypeOK
  <2>3. CompactInv'
    BY <1>1, <1>2, <2>1, Zenon DEF OInv, CompactInv
  <2>4. ASSUME NEW r \in Readers, reads[r].pc = "open" PROVE ch.lastMmapRef <= reads[r].minRef
    BY <1>3, <1>4, <2>4, RecordTypes DEF HasOpenReadsAtOrBefore, OInv
  <2>5. ch.lastMmapRef # 0
    BY <1>3, <1>4
  <2>6. CollectInv'
    BY <1>1, <1>2, <1>4, <2>1, <2>4, <2>5, Zenon DEF OInv, CollectInv
  <2> QED
    BY <1>1, <1>3, <2>1, <2>2, <2>3, <2>6, QuietStep, Zenon
<1>5. CASE ch' = Idle /\ UNCHANGED minOOOMmapRef
  <2>1. ch' \in Compactions /\ ch'.pc = "idle" /\ ch'.lastMmapRef = 0
    BY <1>5, IdleFields, Zenon
  <2>2. DBTypeOK'
    BY <1>1, <1>2, <1>5, <2>1, Zenon DEF OInv, DBTypeOK
  <2>3. CompactInv' /\ CollectInv'
    BY <1>1, <1>2, <2>1, Zenon DEF OInv, CompactInv, CollectInv
  <2>4. 0 < nextRef
    BY <1>3 DEF OInv, HeadTypeOK
  <2> QED
    BY <1>1, <1>3, <2>1, <2>2, <2>3, <2>4, QuietStep, Zenon
<1> QED
  BY <1>4, <1>5, Zenon DEF truncateOOO

\* Only chunks that are in blocks, and that no query uses, are collected.
LEMMA GcSeriesStep ==
  ASSUME WellOrdered, OInv, NEW s \in Series, gcSeries(s)
  PROVE  OInv'
<1>1. /\ ch.pc = "gc" /\ oooHeadChunk' = oooHeadChunk /\ nextRef' = nextRef /\ inserted' = inserted
      /\ UNCHANGED <<blocks, lastGarbageCollectedMmapRef, minOOOMmapRef>> /\ reads' = reads
      /\ ch' = IF ch.todo = {s} THEN Idle ELSE [ch EXCEPT !.todo = @ \ {s}]
  BY Zenon DEF gcSeries, dbVars
<1>2. /\ HeadTypeOK' /\ Live' \subseteq Live
      /\ \A c \in Live : c.s # s \/ c.ref > minOOOMmapRef => c \in Live'
  BY GcStep, Zenon DEF OInv, DBTypeOK
<1>3. /\ minOOOMmapRef = ch.lastMmapRef /\ minOOOMmapRef \in Nat
      /\ \A c \in Live : c.ref <= ch.lastMmapRef => {c.s} \X c.ts \subseteq blocks
      /\ \A r \in Readers : reads[r].pc = "open" => minOOOMmapRef <= reads[r].minRef
  BY <1>1, Zenon DEF OInv, CompactInv, CollectInv, DBTypeOK
<1>4. ASSUME NEW c \in Live, c \notin Live' PROVE c.ref \in Nat /\ c.ref <= minOOOMmapRef
  <2>1. c.ref \in Nat
    BY LiveIsChunk, Zenon DEF OInv
  <2> QED
    BY <1>2, <1>3, <1>4, <2>1
<1>5. /\ ch' \in Compactions
      /\ ch' = Idle \/ (ch'.pc = "gc" /\ ch'.lastMmapRef = ch.lastMmapRef)
  <2>1. PICK rest : rest = [ch EXCEPT !.todo = @ \ {s}]
    BY Zenon
  <2>2. rest \in Compactions /\ rest.pc = "gc" /\ rest.lastMmapRef = ch.lastMmapRef
    BY <1>1, <2>1, Zenon DEF OInv, DBTypeOK, Compactions
  <2> QED
    BY <1>1, <2>1, <2>2, IdleFields, Zenon
<1>6. DBTypeOK'
  BY <1>1, <1>5, Zenon DEF OInv, DBTypeOK
<1>7. HeadKept
  BY <1>1, Zenon DEF HeadKept
<1>8. ReadInv'
  <2>1. ASSUME NEW c \in Live, NEW r \in Readers, c \notin Live', reads[r].pc = "open"
        PROVE  c.ref <= reads[r].minRef
    BY <1>3, <1>4, <2>1, RecordTypes DEF OInv
  <2> QED
    BY <1>1, <1>7, <2>1, KeepRead, Zenon
<1>9. InsertedStored'
  <2>1. inserted' \subseteq Sample
    BY <1>6, Zenon DEF DBTypeOK
  <2>2. \A c \in Live : c \in Live' \/ {c.s} \X c.ts \subseteq blocks'
    BY <1>1, <1>3, <1>4, Zenon
  <2> QED
    BY <1>1, <1>2, <1>7, <2>1, <2>2, KeepStored, Zenon
<1>10. RefInv'
  <2>1. 0 < nextRef
    BY RecordTypes DEF OInv, RefInv, HeadTypeOK
  <2>2. ch'.lastMmapRef < nextRef
    BY <1>5, <2>1, IdleFields, Zenon DEF OInv, RefInv
  <2> QED
    BY <1>1, <1>2, <2>2, Zenon DEF OInv, RefInv
<1>11. CompactInv'
  BY <1>1, <1>2, <1>3, <1>5, IdleFields, Zenon DEF CompactInv
<1>12. CollectInv'
  BY <1>1, <1>2, <1>5, IdleFields, Zenon DEF OInv, CollectInv
<1> QED
  BY <1>2, <1>6, <1>8, <1>9, <1>10, <1>11, <1>12, Zenon DEF OInv
-----------------------------------------------------------------------------
LEMMA ReadFacts ==
  ASSUME OInv, NEW r \in Readers
  PROVE  /\ reads[r].pc = "closed" =>
              reads[r].todo = {} /\ reads[r].metas = {} /\ reads[r].asked = {}
         /\ \A m \in reads[r].metas : m.ref > reads[r].minRef
         /\ \A s \in Series, t \in Times : <<s, t>> \in reads[r].asked => Found(reads[r], s, t)
BY Zenon DEF OInv, ReadInv

\* The steps of a query change nothing else.
LEMMA QueryFrame ==
  ASSUME OInv, UNCHANGED <<headVars, dbVars, ch>>, NEW r \in Readers, NEW new \in Reads,
         reads' = [reads EXCEPT ![r] = new], new.minRef < nextRef,
         ch.pc = "gc" /\ new.pc = "open" => minOOOMmapRef <= new.minRef,
         new.pc = "closed" => new.todo = {} /\ new.metas = {} /\ new.asked = {},
         \A m \in new.metas : m.ref > new.minRef,
         \A s \in Series, t \in Times : <<s, t>> \in new.asked => Found(new, s, t)
  PROVE  OInv'
<1>1. /\ UNCHANGED <<oooHeadChunk, oooMmappedChunks, firstOOOChunkID, nextRef, inserted>>
      /\ UNCHANGED <<blocks, lastGarbageCollectedMmapRef, minOOOMmapRef>> /\ ch' = ch
  BY Zenon DEF headVars, dbVars
<1>2. Live' = Live
  BY <1>1, LiveSame, Zenon
<1>3. reads' \in [Readers -> Reads] /\ reads'[r] = new /\ \A q \in Readers : q # r => reads'[q] = reads[q]
  BY Zenon DEF OInv, DBTypeOK
<1>4. HeadTypeOK' /\ DBTypeOK'
  BY <1>1, <1>3, Zenon DEF OInv, HeadTypeOK, DBTypeOK
<1>5. RefInv'
  BY <1>1, <1>2, <1>3, Zenon DEF OInv, RefInv
<1>6. CompactInv'
  BY <1>1, <1>2, Zenon DEF OInv, CompactInv
<1>7. CollectInv'
  <2>1. ASSUME ch.pc = "gc", NEW q \in Readers, reads'[q].pc = "open"
        PROVE  minOOOMmapRef <= reads'[q].minRef
    BY <1>3, <2>1, Zenon DEF OInv, CollectInv
  <2> QED
    BY <1>1, <1>2, <2>1, Zenon DEF OInv, CollectInv
<1>8. ReadInv'
  <2>1. ASSUME NEW q \in Readers
        PROVE  /\ reads'[q].pc = "closed" =>
                    reads'[q].todo = {} /\ reads'[q].metas = {} /\ reads'[q].asked = {}
               /\ \A m \in reads'[q].metas : m.ref > reads'[q].minRef
               /\ \A s \in Series, t \in Times : <<s, t>> \in reads'[q].asked => Found(reads[q], s, t)'
    <3>1. CASE q = r
      BY <1>1, <1>2, <1>3, <3>1 DEF Found
    <3>2. CASE q # r
      <4>1. /\ reads[q].pc = "closed" =>
                 reads[q].todo = {} /\ reads[q].metas = {} /\ reads[q].asked = {}
            /\ \A m \in reads[q].metas : m.ref > reads[q].minRef
            /\ \A s \in Series, t \in Times : <<s, t>> \in reads[q].asked => Found(reads[q], s, t)
        BY ReadFacts, Zenon
      <4>2. \A s \in Series, t \in Times : Found(reads[q], s, t) => Found(reads[q], s, t)'
        BY <1>1, <1>2, <1>3, <3>2, Zenon DEF Found
      <4> QED
        BY <1>3, <3>2, <4>1, <4>2, Zenon
    <3> QED
      BY <3>1, <3>2, Zenon
  <2> QED
    BY <2>1, Zenon DEF ReadInv
<1>9. InsertedStored'
  BY <1>1, Zenon DEF OInv, InsertedStored, Stored
<1> QED
  BY <1>4, <1>5, <1>6, <1>7, <1>8, <1>9, Zenon DEF OInv

\* A new query finds what is stored: chunks it is not going to use are in the
\* blocks it has.
LEMMA QuerierStep ==
  ASSUME OInv, NEW r \in Readers, Querier(r)
  PROVE  OInv'
<1>1. PICK new : new = [Closed EXCEPT !.pc = "open", !.minRef = lastGarbageCollectedMmapRef,
                          !.blocks = blocks, !.todo = Series, !.asked = Stored]
  BY Zenon
<1>2. UNCHANGED <<headVars, dbVars, ch>> /\ reads' = [reads EXCEPT ![r] = new]
  BY <1>1, Zenon DEF Querier
<1>3. /\ new = [pc |-> "open", minRef |-> lastGarbageCollectedMmapRef, blocks |-> blocks,
                todo |-> Series, metas |-> {}, got |-> {}, asked |-> Stored]
  BY <1>1, Zenon DEF Closed
<1>4. Stored \subseteq Sample
  BY Zenon DEF OInv, DBTypeOK, Stored
<1>5. /\ new \in Reads /\ new.pc = "open" /\ new.minRef = lastGarbageCollectedMmapRef
      /\ new.blocks = blocks /\ new.todo = Series /\ new.metas = {} /\ new.asked = Stored
  BY <1>3, <1>4, Zenon DEF OInv, DBTypeOK, Reads
<1>6. new.minRef < nextRef /\ (ch.pc = "gc" => minOOOMmapRef <= new.minRef)
  BY <1>5 DEF OInv, RefInv, CollectInv, DBTypeOK
<1>7. ASSUME NEW s \in Series, NEW t \in Times, <<s, t>> \in new.asked
      PROVE  Found(new, s, t)
  <2>1. \/ <<s, t>> \in blocks \/ t \in oooHeadChunk[s]
        \/ \E c \in Live : c.s = s /\ t \in c.ts
    BY <1>5, <1>7, StoredIs, Zenon DEF OInv, StoredParts
  <2>2. ASSUME NEW c \in Live, c.s = s, t \in c.ts
        PROVE  <<s, t>> \in blocks \/ c.ref > lastGarbageCollectedMmapRef
    <3>1. c.ref \in Nat /\ lastGarbageCollectedMmapRef \in Nat
      BY LiveIsChunk, Zenon DEF OInv, DBTypeOK
    <3>2. c.ref <= lastGarbageCollectedMmapRef => {c.s} \X c.ts \subseteq blocks
      BY Zenon DEF OInv, CollectInv
    <3> QED
      BY <2>2, <3>1, <3>2
  <2> QED
    BY <1>5, <2>1, <2>2, Zenon DEF Found
<1> QED
  BY <1>2, <1>5, <1>6, <1>7, QueryFrame, Zenon

LEMMA CloseStep ==
  ASSUME OInv, NEW r \in Readers, CloseQuerier(r)
  PROVE  OInv'
<1>1. UNCHANGED <<headVars, dbVars, ch>> /\ reads' = [reads EXCEPT ![r] = Closed]
  BY Zenon DEF CloseQuerier
<1>2. /\ Closed \in Reads /\ Closed.pc = "closed" /\ Closed.minRef = 0
      /\ Closed.todo = {} /\ Closed.metas = {} /\ Closed.asked = {}
  BY Zenon DEF Closed, Reads
<1>3. 0 < nextRef
  BY RecordTypes DEF OInv, RefInv, HeadTypeOK
<1> QED
  BY <1>1, <1>2, <1>3, QueryFrame, Zenon

\* Of a series the query takes the chunk in memory, and the IDs of the m-mapped
\* ones.
LEMMA SeriesStep ==
  ASSUME OInv, NEW r \in Readers, NEW s \in Series, getOOOSeriesChunks(r, s)
  PROVE  OInv'
<1>1. PICK ms : ms = {[s |-> s, id |-> firstOOOChunkID[s] + i - 1, ref |-> oooMmappedChunks[s][i].ref] :
                       i \in {j \in DOMAIN oooMmappedChunks[s] :
                                oooMmappedChunks[s][j].ref > reads[r].minRef}}
  BY Zenon
<1>2. PICK new : new = [reads[r] EXCEPT !.todo = @ \ {s}, !.got = @ \union ({s} \X oooHeadChunk[s]),
                                        !.metas = @ \union ms]
  BY Zenon
<1>3. UNCHANGED <<headVars, dbVars, ch>> /\ reads' = [reads EXCEPT ![r] = new] /\ s \in reads[r].todo
  BY <1>1, <1>2, Zenon DEF getOOOSeriesChunks, OInv, DBTypeOK, Reads
<1>4. ms \subseteq Meta /\ \A m \in ms : m.ref > reads[r].minRef
  <2>1. ASSUME NEW i \in DOMAIN oooMmappedChunks[s]
        PROVE  firstOOOChunkID[s] + i - 1 \in Nat /\ oooMmappedChunks[s][i].ref \in Nat
    <3>1. HeadTypeOK
      BY Zenon DEF OInv
    <3> QED
      BY <3>1, ChunkTypes
  <2> QED
    BY <1>1, <2>1 DEF Meta
<1>5. {s} \X oooHeadChunk[s] \subseteq Sample
  BY ChunkTypes, Zenon DEF OInv, Sample
<1>6. /\ new \in Reads /\ new.pc = reads[r].pc /\ new.minRef = reads[r].minRef
      /\ new.blocks = reads[r].blocks /\ new.todo = reads[r].todo \ {s}
      /\ new.metas = reads[r].metas \union ms /\ new.asked = reads[r].asked
      /\ new.got = reads[r].got \union ({s} \X oooHeadChunk[s])
  BY <1>2, <1>4, <1>5, ZenonT(30) DEF OInv, DBTypeOK, Reads
<1>7. /\ reads[r].minRef < nextRef
      /\ ch.pc = "gc" /\ reads[r].pc = "open" => minOOOMmapRef <= reads[r].minRef
  BY Zenon DEF OInv, RefInv, CollectInv
<1>8. /\ reads[r].pc # "closed" /\ \A m \in reads[r].metas : m.ref > reads[r].minRef
      /\ \A p \in Series, t \in Times : <<p, t>> \in reads[r].asked => Found(reads[r], p, t)
  BY <1>3, Zenon DEF OInv, ReadInv
<1>9. ASSUME NEW c \in Live, c.s = s, c.ref > reads[r].minRef
      PROVE  [s |-> s, id |-> c.id, ref |-> c.ref] \in ms
  <2>1. PICK i \in 1..Len(oooMmappedChunks[s]) :
          c.id = firstOOOChunkID[s] + i - 1 /\ c.ref = oooMmappedChunks[s][i].ref
    BY <1>9, LiveIsChunk, Zenon DEF OInv
  <2>2. i \in DOMAIN oooMmappedChunks[s]
    BY ChunkTypes, Zenon DEF OInv
  <2> QED
    BY <1>1, <1>9, <2>1, <2>2, Zenon
<1>10. ASSUME NEW p \in Series, NEW t \in Times, <<p, t>> \in new.asked
       PROVE  Found(new, p, t)
  <2>1. Found(reads[r], p, t)
    BY <1>6, <1>8, <1>10, Zenon
  <2>2. CASE p # s
    BY <1>6, <2>1, <2>2, Zenon DEF Found
  <2>3. CASE p = s
    BY <1>6, <1>9, <2>1, <2>3, Zenon DEF Found
  <2> QED
    BY <2>2, <2>3, Zenon
<1> QED
  BY <1>3, <1>4, <1>6, <1>7, <1>8, <1>10, QueryFrame, Zenon

\* The ID of a chunk still stands for that chunk when it is read.
LEMMA ChunkStep ==
  ASSUME OInv, NEW r \in Readers, NEW m \in reads[r].metas, chunkOrIterable(r, m)
  PROVE  OInv'
<1>1. PICK more : more = UNION {{m.s} \X c.ts : c \in oooChunk(m)}
  BY Zenon
<1>2. PICK new : new = [reads[r] EXCEPT !.metas = @ \ {m}, !.got = @ \union more]
  BY Zenon
<1>3. UNCHANGED <<headVars, dbVars, ch>> /\ reads' = [reads EXCEPT ![r] = new]
  BY <1>1, <1>2, Zenon DEF chunkOrIterable, OInv, DBTypeOK, Reads
<1>4. m.s \in Series /\ m.id \in Nat
  BY RecordTypes, Zenon DEF OInv, Meta
<1>5. more \subseteq Sample
  <2>1. ASSUME NEW c \in oooChunk(m) PROVE c.ts \subseteq Times
    <3>1. \E i \in 1..Len(oooMmappedChunks[m.s]) : c = oooMmappedChunks[m.s][i]
      <4> DEFINE ix == m.id - firstOOOChunkID[m.s]
                 n  == Len(oooMmappedChunks[m.s])
      <4>1. ix >= 0 /\ ix < n /\ c = oooMmappedChunks[m.s][ix + 1]
        BY Zenon DEF oooChunk
      <4>2. ix \in Int /\ n \in Nat
        BY <1>4, ChunkTypes DEF OInv
      <4> HIDE DEF ix, n
      <4>3. ix + 1 \in 1..n
        BY <4>1, <4>2
      <4> QED
        BY <4>1, <4>3, Zenon DEF n
    <3> QED
      BY <1>4, <3>1, ChunkTypes, Zenon DEF OInv
  <2> QED
    BY <1>1, <1>4, <2>1 DEF Sample
<1>6. /\ new \in Reads /\ new.pc = reads[r].pc /\ new.minRef = reads[r].minRef
      /\ new.blocks = reads[r].blocks /\ new.todo = reads[r].todo
      /\ new.metas = reads[r].metas \ {m} /\ new.asked = reads[r].asked
      /\ new.got = reads[r].got \union more
  BY <1>2, <1>5, Zenon DEF OInv, DBTypeOK, Reads
<1>7. /\ reads[r].minRef < nextRef
      /\ ch.pc = "gc" /\ reads[r].pc = "open" => minOOOMmapRef <= reads[r].minRef
  BY Zenon DEF OInv, RefInv, CollectInv
<1>8. /\ reads[r].pc # "closed" /\ \A k \in reads[r].metas : k.ref > reads[r].minRef
      /\ \A s \in Series, t \in Times : <<s, t>> \in reads[r].asked => Found(reads[r], s, t)
  BY Zenon DEF OInv, ReadInv
<1>9. ASSUME NEW c \in Live, NEW t \in c.ts, m = [s |-> c.s, id |-> c.id, ref |-> c.ref]
      PROVE  <<c.s, t>> \in more
  <2>1. m.s = c.s /\ m.id = c.id
    BY <1>9, Zenon
  <2>2. PICK i \in 1..Len(oooMmappedChunks[m.s]) :
          c.id = firstOOOChunkID[m.s] + i - 1 /\ c.ts = oooMmappedChunks[m.s][i].ts
    BY <2>1, LiveIsChunk DEF OInv
  <2>3. m.id - firstOOOChunkID[m.s] = i - 1 /\ (m.id - firstOOOChunkID[m.s]) + 1 = i
    BY <1>4, <2>1, <2>2, ChunkTypes DEF OInv
  <2>4. oooMmappedChunks[m.s][i] \in oooChunk(m)
    BY <1>4, <2>2, <2>3, ChunkTypes DEF oooChunk, OInv
  <2> QED
    BY <1>1, <2>1, <2>2, <2>4
<1>10. ASSUME NEW s \in Series, NEW t \in Times, <<s, t>> \in new.asked
       PROVE  Found(new, s, t)
  <2>1. Found(reads[r], s, t)
    BY <1>6, <1>8, <1>10, Zenon
  <2> QED
    BY <1>6, <1>9, <2>1 DEF Found
<1> QED
  BY <1>3, <1>6, <1>7, <1>8, <1>10, QueryFrame, Zenon
-----------------------------------------------------------------------------
LEMMA OInit == Init => OInv
<1> SUFFICES ASSUME Init PROVE OInv
  BY Zenon
<1>1. /\ oooHeadChunk = [s \in Series |-> {}] /\ oooMmappedChunks = [s \in Series |-> <<>>]
      /\ firstOOOChunkID = [s \in Series |-> 0] /\ nextRef = 1 /\ inserted = {} /\ blocks = {}
      /\ lastGarbageCollectedMmapRef = 0 /\ minOOOMmapRef = 0 /\ ch = Idle
      /\ reads = [r \in Readers |-> Closed]
  BY Zenon DEF Init
<1>2. \A s \in Series : oooMmappedChunks[s] \in Seq(Chunk) /\ Len(oooMmappedChunks[s]) = 0
  BY <1>1
<1>3. HeadTypeOK
  BY <1>1, <1>2 DEF HeadTypeOK, Sorted
<1>4. Live = {}
  BY <1>2 DEF Live, LiveChunk
<1>5. /\ Closed \in Reads /\ Closed.pc = "closed" /\ Closed.minRef = 0
      /\ Closed.todo = {} /\ Closed.metas = {} /\ Closed.asked = {}
  BY Zenon DEF Closed, Reads
<1>6. DBTypeOK
  BY <1>1, <1>5, IdleFields, Zenon DEF DBTypeOK
<1>7. RefInv
  BY <1>1, <1>4, <1>5, IdleFields DEF RefInv
<1>8. CompactInv /\ CollectInv
  BY <1>1, <1>4, IdleFields, Zenon DEF CompactInv, CollectInv
<1>9. ReadInv
  BY <1>1, <1>5, Zenon DEF ReadInv
<1>10. InsertedStored
  BY <1>1, Zenon DEF InsertedStored
<1> QED
  BY <1>3, <1>6, <1>7, <1>8, <1>9, <1>10, Zenon DEF OInv

LEMMA OStutter == OInv /\ UNCHANGED vars => OInv'
<1> SUFFICES ASSUME OInv, UNCHANGED vars PROVE OInv'
  BY Zenon
<1>1. UNCHANGED headVars /\ UNCHANGED dbVars /\ ch' = ch /\ reads' = reads
  BY Zenon DEF vars
<1>2. UNCHANGED <<blocks, lastGarbageCollectedMmapRef, minOOOMmapRef>> /\ inserted' = inserted /\ Live' = Live
  BY <1>1, LiveSame, Zenon DEF headVars, dbVars
<1>3. DBTypeOK'
  BY <1>1, <1>2, Zenon DEF OInv, DBTypeOK
<1>4. CompactInv' /\ CollectInv'
  BY <1>1, <1>2, Zenon DEF OInv, CompactInv, CollectInv
<1>5. ch.lastMmapRef < nextRef /\ lastGarbageCollectedMmapRef < nextRef
  BY Zenon DEF OInv, RefInv
<1> QED
  BY <1>1, <1>2, <1>3, <1>4, <1>5, QuietStep, Zenon

LEMMA OStep ==
  ASSUME WellOrdered
  PROVE  OInv /\ Next /\ ~MmapRace => OInv'
<1> SUFFICES ASSUME OInv, Next, ~MmapRace PROVE OInv'
  BY Zenon
<1>1. CASE \E s \in Series, t \in Times : insert(s, t)
  BY <1>1, InsertStep, Zenon
<1>2. CASE compactOOOHead \/ fail
  BY <1>2, BeginAndFailStep, Zenon
<1>3. CASE \E s \in Series : mmapSeries(s)
  BY <1>3, MmapSeriesStep, Zenon
<1>4. CASE \E s \in Series : gcSeries(s)
  BY <1>4, GcSeriesStep, Zenon
<1>5. CASE write
  BY <1>5, WriteStep, Zenon
<1>6. CASE reloadBlocks
  BY <1>6, ReloadStep, Zenon
<1>7. CASE mark
  BY <1>7, MarkStep, Zenon
<1>8. CASE truncateOOO
  BY <1>8, TruncateStep, Zenon
<1>9. CASE \E r \in Readers : Querier(r)
  BY <1>9, QuerierStep, Zenon
<1>10. CASE \E r \in Readers : CloseQuerier(r)
  BY <1>10, CloseStep, Zenon
<1>11. CASE \E r \in Readers, s \in Series : getOOOSeriesChunks(r, s)
  BY <1>11, SeriesStep, Zenon
<1>12. CASE \E r \in Readers : \E m \in reads[r].metas : chunkOrIterable(r, m)
  BY <1>12, ChunkStep, Zenon
<1> QED
  BY <1>1, <1>2, <1>3, <1>4, <1>5, <1>6, <1>7, <1>8, <1>9, <1>10, <1>11, <1>12, Zenon
     DEF Next, CompactionStep, ReadStep

-----------------------------------------------------------------------------
INSTANCE WellFoundedInduction

\* The naturals are well-ordered by <.
LEMMA NaturalsWellOrdered == WellOrdered
<1> SUFFICES ASSUME NEW S \in SUBSET Nat, S # {}
             PROVE  \E x \in S : \A y \in S : x <= y
  BY Zenon DEF WellOrdered
<1> DEFINE Less == {ss \in Nat \X Nat : ss[1] < ss[2]}
<1>1. IsWellFoundedOn(Less, Nat)
  BY NatLessThanWellFounded, Zenon DEF OpToRel
<1> HIDE DEF Less
<1>2. \E x \in S : \A y \in S : ~(<<y, x>> \in Less)
  BY <1>1, WFMin, Zenon
<1>3. \A x, y \in Nat : ~(<<y, x>> \in Less) => x <= y
  BY DEF Less
<1> QED
  BY <1>2, <1>3, Zenon

LEMMA RaceFreeInvariance == RaceFreeSpec => []OInv
<1>1. OInv /\ [Next /\ ~MmapRace]_vars => OInv'
  BY NaturalsWellOrdered, OStep, OStutter, Zenon
<1> QED
  BY <1>1, OInit, PTL DEF RaceFreeSpec

LEMMA OInvQueryComplete == OInv => QueryComplete
<1> SUFFICES ASSUME OInv, NEW r \in Readers, reads[r].todo = {}, reads[r].metas = {},
                    NEW x \in reads[r].asked
             PROVE  x \in reads[r].got \union reads[r].blocks
  BY Zenon DEF QueryComplete
<1>1. PICK s \in Series, t \in Times : x = <<s, t>>
  BY RecordTypes DEF OInv, Sample
<1>2. Found(reads[r], s, t)
  BY <1>1, Zenon DEF OInv, ReadInv
<1> QED
  BY <1>1, <1>2, Zenon DEF Found

\* With a single series the race cannot happen.
LEMMA OneSeriesNoRace ==
  ASSUME NEW s, Series = {s}
  PROVE  OInv => ~MmapRace
<1> SUFFICES ASSUME OInv, MmapRace PROVE FALSE
  BY Zenon
<1>1. ch.pc = "mmap" /\ Series \ ch.todo # {}
  BY Zenon DEF MmapRace
<1>2. ch.todo \subseteq Series /\ ch.todo # {}
  BY <1>1, RecordTypes, Zenon DEF OInv, CompactInv
<1> QED
  BY <1>1, <1>2, Zenon

LEMMA OneSeriesInvariance ==
  ASSUME NEW s, Series = {s}
  PROVE  Spec => []OInv
<1>1. OInv /\ [Next]_vars => OInv'
  BY NaturalsWellOrdered, OStep, OStutter, OneSeriesNoRace, Zenon
<1> QED
  BY <1>1, OInit, PTL DEF Spec

\* An inserted out-of-order sample stays in memory until a block with it has
\* been loaded, through inserts, failing compactions and garbage collection
\* (memSeries.insert, DB.compactOOOHead, Head.truncateOOO), unless a series
\* m-maps a chunk after its turn in NewOOOCompactionHead while others wait.
THEOREM InsertedStaysStored == RaceFreeSpec => []InsertedStored
<1>1. OInv => InsertedStored
  BY Zenon DEF OInv
<1> QED
  BY <1>1, RaceFreeInvariance, PTL

\* A query that has read all its series and chunks has every out-of-order
\* sample that was stored when it began, whichever steps of compactions and
\* inserts it overlapped with (HeadAndOOOQuerier, oooIsolation), in the same
\* behaviours.
THEOREM OOOQueriesComplete == RaceFreeSpec => []QueryComplete
BY RaceFreeInvariance, OInvQueryComplete, PTL

\* For a head with one series both hold of all behaviours of the code.
THEOREM OneSeriesSafe ==
  ASSUME NEW s, Series = {s}
  PROVE  Spec => [](InsertedStored /\ QueryComplete)
<1>1. OInv => InsertedStored /\ QueryComplete
  BY OInvQueryComplete, Zenon DEF OInv
<1> QED
  BY <1>1, OneSeriesInvariance, PTL
=============================================================================
