------------------------------ MODULE CLChunk -------------------------------
(***************************************************************************)
(* The two-phase lossy compression of the float samples of one series      *)
(* (tsdb/chunkenc/qsimple8b.go): a sample is quantized when it is appended *)
(* and encoded when its chunk is compacted, quickly (Simple8b) in the head *)
(* and again, in larger chunks (Huffman), when blocks are compacted        *)
(* (storage/series.go, storage/merge.go).                                  *)
(*                                                                         *)
(* Values and the error bound are whole millionths, the unit in which the  *)
(* 28 bits of a chunk's metadata keep the error bound (writeCLMeta cuts    *)
(* off what is less), and int64 is Bits wide.  The bytes of a chunk are    *)
(* the number of samples in its header, and the timestamps and the deltas  *)
(* that decoders take from it; the timestamp of a sample is its position   *)
(* in given.                                                               *)
(***************************************************************************)
EXTENDS Integers, Sequences, SequencesExt, FiniteSetsExt

CONSTANTS Values,      \* the values of the samples: integers, or NaN
          NaN,         \* math.NaN(), which the stale marker is
          NaNToInt,    \* int64(NaN) on the platform
          errbound,    \* DefaultErrbound, as readCLMeta returns it too
          Bits,        \* the width of int64, scaled down
          Splits,      \* seriesToChunkEncoderSplit of the compactions
          MaxChunkSamples   \* bound on the samples of the series

ASSUME CLChunkAssumption ==
  /\ errbound \in Nat \ {0} /\ errbound < 2 ^ 28
  /\ Bits \in Nat \ 0..4
  /\ Splits \subseteq Nat \ {0}
  /\ MaxChunkSamples \in Nat

VARIABLES
  given,    \* the values of the samples appended to the series
  v,        \* CLAppender.v of the open head chunk: its newest quantized value
  unpacked,  \* the deltas its Simple8b encoder has not packed
  packed,   \* the deltas its Simple8b encoder has packed
  stream,   \* the bytes of the open head chunk
  closed,   \* the other chunks of the head, oldest first
  blocks,   \* the chunks of the series in each block, oldest first
  got,      \* what the latest query returned: timestamps with values
  asked,    \* how many samples there were at that time
  fits,     \* did every delta of a head chunk so far fit a Simple8b word?
  panicked  \* the process died

appVars == <<v, unpacked, packed, stream>>
chunkVars == <<given, appVars, closed, blocks, got, asked, fits, panicked>>

\* NewCLChunk: twelve zero bytes, in which no decoder finds its way.
NoStream == [written |-> FALSE, num |-> 0, ts |-> <<>>, deltas |-> <<>>]
Stream(ts, deltas) == [written |-> TRUE, num |-> Len(deltas), ts |-> ts, deltas |-> deltas]

\* The largest value of a 64-bit Simple8b word has 60 bits.
MaxValue == 2 ^ (Bits - 4) - 1

UInt64(n) == n % 2 ^ Bits
Int64(n) == UInt64(n + 2 ^ (Bits - 1)) - 2 ^ (Bits - 1)
-----------------------------------------------------------------------------
\* int64(v/(2*errbound) + 0.5), or - 0.5 below zero: the nearest quantum.
quantize(x) ==
  IF x = NaN THEN NaNToInt
  ELSE IF x >= 0 THEN (x + errbound) \div (2 * errbound)
                 ELSE -((errbound - x) \div (2 * errbound))

zigzag(d) == UInt64(IF Int64(d) >= 0 THEN 2 * Int64(d) ELSE -2 * Int64(d) - 1)

\* What CLIterator.Next adds to its quantizer.
unzigzag(u) == IF u % 2 = 0 THEN u \div 2 ELSE -((u + 1) \div 2)

\* Mutant: a chunk goes on from the last value of the chunk before it.
DeltasCarried(qs, from, to) ==
  [i \in 1..(to - from + 1) |->
     zigzag(qs[from + i - 1] - IF from + i = 2 THEN 0 ELSE qs[from + i - 2])]

\* The deltas AppendQuantizer makes of a run of quantized values.
Deltas(qs, from, to) ==
  [i \in 1..(to - from + 1) |-> zigzag(qs[from + i - 1] - IF i = 1 THEN 0 ELSE qs[from + i - 2])]

\* The timestamps and quantized values a CLIterator goes through.
Quantized(chunk) ==
  FoldLeftDomain(LAMBDA acc, i : Append(acc,
      <<chunk.ts[i], unzigzag(chunk.deltas[i]) + IF acc = <<>> THEN 0 ELSE Last(acc)[2]>>),
    <<>>, chunk.deltas)

\* When the header counts more samples than were encoded, CLIterator.Next goes
\* on to read the timestamp of one more.  It takes what is unused of the last
\* byte for one (and then finds no delta), and fails if the byte is full: two
\* varints are followed by a bit for each timestamp at the same distance.
Fails(chunk) ==
  /\ chunk.num > Len(chunk.deltas)
  /\ Len(chunk.ts) <= 2 \/ (Len(chunk.ts) - 2) % 8 = 0

\* CLIterator.At scales the sum of the deltas by the error bound.
Samples(chunk) == {<<q[1], 2 * errbound * q[2]>> : q \in ToSet(Quantized(chunk))}
-----------------------------------------------------------------------------
\* The first delta that no Simple8b word can hold, or 0.
Wide(deltas) == SelectInSeq(deltas, LAMBDA d : d > MaxValue)

\* The encoder packs what is before it and is stuck there.
Packed(deltas) == IF Wide(deltas) = 0 THEN deltas ELSE SubSeq(deltas, 1, Wide(deltas) - 1)
Stuck(deltas) == IF Wide(deltas) = 0 THEN <<>> ELSE SubSeq(deltas, Wide(deltas), Len(deltas))

\* The timestamps of the samples of the open chunk.
OpenTs == LET n == Len(packed) + Len(unpacked) IN [i \in 1..n |-> Len(given) - n + i]

\* Mutant: what is buffered is left for later.
CompactedBuffered == stream

\* The bytes after CLAppender.Compact of the open chunk.  When the encoder
\* fails they stay as they were, but for the number of samples, which Append
\* counts in the header; no caller looks at the error.
Compacted == IF Stuck(unpacked) = <<>> THEN Stream(OpenTs, packed \o unpacked) ELSE stream

\* HuffmanEncodeWithoutTimesMap writes the distinct deltas in ascending order,
\* each as its distance from the one before, with Simple8b.  It returns nil,
\* which Compact dereferences, when a distance does not fit.
HuffmanEncodable(deltas) ==
  \A d \in ToSet(deltas) \ {0} :
    d - Max({k \in ToSet(deltas) \union {0} : k < d}) <= MaxValue

CLInit ==
  /\ given = <<>> /\ v = 0 /\ unpacked = <<>> /\ packed = <<>> /\ stream = NoStream
  /\ closed = <<>> /\ blocks = <<>>
  /\ got = {} /\ asked = 0 /\ fits = TRUE /\ panicked = FALSE
-----------------------------------------------------------------------------
\* CLAppender.Append to the open chunk.
AppendOpen(x) ==
  LET delta == zigzag(quantize(x) - v)
  IN  /\ Len(given) < MaxChunkSamples
      /\ given' = Append(given, x)
      /\ v' = quantize(x)
      /\ unpacked' = Append(unpacked, delta)
      /\ stream' = [stream EXCEPT !.num = @ + 1]
      /\ fits' = (fits /\ delta <= MaxValue)
      /\ UNCHANGED <<packed, closed, blocks, got, asked, panicked>>

\* cutNewHeadChunk compacts the appender of the full chunk; then the sample
\* is appended to the new one.
AppendCut(x) ==
  LET delta == zigzag(quantize(x))
  IN  /\ given # <<>>
      /\ Len(given) < MaxChunkSamples
      /\ given' = Append(given, x)
      /\ closed' = Append(closed, Compacted)
      /\ v' = quantize(x)
      /\ unpacked' = <<delta>>
      /\ packed' = <<>>
      /\ stream' = [NoStream EXCEPT !.num = 1]
      /\ fits' = (fits /\ delta <= MaxValue)
      /\ UNCHANGED <<blocks, got, asked, panicked>>

\* A query compacts the open chunk and iterates over all chunks.  It fails
\* when one of them was never written, as CLIterator.Reset panics, and when
\* the iterator of one does.
QuerySeries ==
  LET chunks == FlattenSeq(blocks) \o closed \o <<Compacted>>
  IN  /\ given # <<>>
      /\ stream' = Compacted
      /\ packed' = packed \o Packed(unpacked)
      /\ unpacked' = Stuck(unpacked)
      /\ asked' = Len(given)
      /\ got' = IF \E c \in ToSet(chunks) : ~c.written \/ Fails(c) THEN {}
                ELSE UNION {Samples(c) : c \in ToSet(chunks)}
      /\ UNCHANGED <<given, v, closed, blocks, fits, panicked>>

\* The closed chunks go into a block as they are.
CompactHead ==
  /\ closed # <<>>
  /\ blocks' = Append(blocks, closed)
  /\ closed' = <<>>
  /\ UNCHANGED <<given, appVars, got, asked, fits, panicked>>

\* seriesToChunkEncoder: at most split samples to a chunk.
Encoded(qs, split) ==
  LET ts   == [i \in DOMAIN qs |-> qs[i][1]]
      vals == [i \in DOMAIN qs |-> qs[i][2]]
  IN  [k \in 1..((Len(qs) + split - 1) \div split) |->
         LET from == (k - 1) * split + 1
             to   == Min({k * split, Len(qs)})
         IN  Stream(SubSeq(ts, from, to), Deltas(vals, from, to))]

\* Two adjacent blocks are merged: their chunks are decoded to quantized
\* values and encoded again.  A panic here takes the process down; when an
\* iterator fails before that, so does the compaction, and the blocks stay.
CompactBlocks(i, split) ==
  LET old == blocks[i] \o blocks[i + 1]
      new == Encoded(FlattenSeq([c \in DOMAIN old |-> Quantized(old[c])]), split)
      ok  == (\A c \in ToSet(old) : c.written) /\ \A c \in ToSet(new) : HuffmanEncodable(c.deltas)
  IN  /\ ok => \A c \in ToSet(old) : ~Fails(c)
      /\ blocks' = IF ok THEN SubSeq(blocks, 1, i - 1) \o <<new>> \o SubSeq(blocks, i + 2, Len(blocks))
                         ELSE blocks
      /\ panicked' = ~ok
      /\ UNCHANGED <<given, appVars, closed, got, asked, fits>>

CLNext ==
  /\ ~panicked
  /\ \/ \E x \in Values : AppendOpen(x) \/ AppendCut(x)
     \/ QuerySeries
     \/ CompactHead
     \/ \E i \in 1..(Len(blocks) - 1), split \in Splits : CompactBlocks(i, split)

CLSpec == CLInit /\ [][CLNext]_chunkVars
-----------------------------------------------------------------------------
Kept(cs, bs) == UNION {Samples(c) : c \in ToSet(cs) \union ToSet(FlattenSeq(bs))}

\* A query gets every sample appended before it, however often the chunk was
\* compacted while it grew, as long as the deltas fit a Simple8b word; and
\* each within the error bound of what was appended, also from blocks that
\* were compacted again and again.
ReadFaithful ==
  /\ fits => {s[1] : s \in got} = 1..asked
  /\ \A s \in got : given[s[1]] # NaN =>
       /\ s[2] - given[s[1]] <= errbound
       /\ given[s[1]] - s[2] <= errbound

\* Compaction is lossless for quantized values: what can be read from a
\* closed chunk or a block keeps its value in all blocks written from it.
\* It panics only when a value, or the step from one value to the next, is
\* beyond 60 bits in quanta.
RecompactionExact ==
  [][/\ Kept(closed, blocks) \subseteq Kept(closed', blocks')
     /\ panicked' => ~fits \/ \E i \in DOMAIN given : zigzag(quantize(given[i])) > MaxValue]_chunkVars

\* Staleness markers do not disturb the other samples: a query returns every
\* number that was appended before it, those after a marker included.
StaleMarkersHarmless ==
  \A i \in 1..asked : given[i] # NaN => \E s \in got : s[1] = i
=============================================================================
