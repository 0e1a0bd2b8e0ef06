------------------------------ MODULE OOOChunk ------------------------------
(***************************************************************************)
(* The out-of-order samples of one series that are still uncompressed      *)
(* (tsdb/ooo_head.go).  A query, and m-mapping, encode them with the       *)
(* BitPacking scheme, and a CLIterator reads them back                     *)
(* (tsdb/chunkenc/qsimple8b.go, simplebits.go).                            *)
(*                                                                         *)
(* BitPacking packs any 64-bit delta: what an encoded chunk holds is the   *)
(* sequence of its samples.                                                *)
(***************************************************************************)
EXTENDS Integers, Sequences, SequencesExt, FiniteSetsExt

CONSTANTS OOOTimes,      \* the timestamps of the samples
          OOOValues,  \* their values
          oooCapMax,  \* OutOfOrderCapMax: how many samples a chunk may have
          MaxMapped   \* bound on the m-mapped chunks

ASSUME OOOChunkAssumption ==
  /\ OOOTimes \subseteq Nat
  /\ oooCapMax \in Nat \ {0}
  /\ MaxMapped \in Nat

VARIABLES
  samples,   \* OOOChunk.samples, in the order of the slice
  mapped,    \* oooMmappedChunks: what was handed to the ChunkDiskMapper
  accepted,  \* the samples insert reported as inserted
  read       \* what the latest query returned, or NotRead

oooVars == <<samples, mapped, accepted, read>>

OOOSample == [t : OOOTimes, v : OOOValues]

NotRead == [asked |-> {}, got |-> {}]

OOOInit ==
  /\ samples = <<>> /\ mapped = <<>> /\ accepted = {} /\ read = NotRead
-----------------------------------------------------------------------------
\* Mutant: the first sample that is strictly later.
SearchLater(s, t) ==
  IF \E i \in DOMAIN s : s[i].t > t THEN SelectInSeq(s, LAMBDA x : x.t > t) ELSE Len(s) + 1

\* sort.Search: the first position whose timestamp is not before t.
Search(s, t) ==
  IF \E i \in DOMAIN s : s[i].t >= t THEN SelectInSeq(s, LAMBDA x : x.t >= t) ELSE Len(s) + 1

\* OOOChunk.Insert: behind the last sample, or by shifting the later ones.
Insert(s, smp) == InsertAt(s, Search(s, smp.t), smp)

Duplicate(s, t) == Search(s, t) <= Len(s) /\ s[Search(s, t)].t = t

\* ToEncodedChunks: float samples are all of one encoding, so one chunk.
ToEncodedChunk(s, mint, maxt) == SelectSeq(s, LAMBDA x : x.t >= mint /\ x.t <= maxt)

\* memSeries.insert.  A full chunk is m-mapped first; only the new one is
\* searched for a sample with the same timestamp.
insert(smp) ==
  LET full == Len(samples) = oooCapMax
      into == IF full THEN <<>> ELSE samples
  IN  /\ full => Len(mapped) < MaxMapped
      /\ mapped' = IF full THEN Append(mapped, ToEncodedChunk(samples, Min(OOOTimes), Max(OOOTimes)))
                           ELSE mapped
      /\ samples' = IF Duplicate(into, smp.t) THEN into ELSE Insert(into, smp)
      /\ accepted' = IF Duplicate(into, smp.t) THEN accepted ELSE accepted \union {smp}
      /\ UNCHANGED read

\* BitPackingDecoder.Next: is there another value to read?
BitPackingNext(numRead, numTotal) == numRead < numTotal

\* CLIterator.Next: does it give a sample?  In the BitPacking case it ends
\* when the decoder's Next returns true.
CLIteratorNext(numRead, numTotal) ==
  numRead # numTotal /\ ~BitPackingNext(numRead, numTotal)

\* The samples a query gets from a chunk.
Iterated(chunk) ==
  {chunk[i] : i \in {n \in DOMAIN chunk : \A k \in 1..n : CLIteratorNext(k - 1, Len(chunk))}}

\* A query of all OOO chunks (getOOOSeriesChunks, then the iterators).
Query ==
  LET chunks == Append(mapped, ToEncodedChunk(samples, Min(OOOTimes), Max(OOOTimes)))
  IN  /\ read' = [asked |-> accepted, got |-> UNION {Iterated(c) : c \in ToSet(chunks)}]
      /\ UNCHANGED <<samples, mapped, accepted>>

OOONext == (\E smp \in OOOSample : insert(smp)) \/ Query

OOOSpec == OOOInit /\ [][OOONext]_oooVars
-----------------------------------------------------------------------------
OOOChunks == ToSet(mapped) \union {samples}

\* Every sample that insert accepted is in a chunk, and nothing else is: no
\* order of arrival makes the shifting of the slice, or the change to a new
\* chunk, drop or overwrite one.  A chunk is in strictly increasing time
\* order, in which timestamps are encoded and iterators are merged.
AcceptedStored ==
  /\ accepted = UNION {ToSet(c) : c \in OOOChunks}
  /\ \A c \in OOOChunks : \A i, j \in DOMAIN c : i < j => c[i].t < c[j].t

\* Out-of-order samples can be read: a query returns a sample for each
\* timestamp that was accepted.
AcceptedReadable == {x.t : x \in read.got} = {x.t : x \in read.asked}
=============================================================================
