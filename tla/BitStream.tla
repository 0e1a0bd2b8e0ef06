------------------------------ MODULE BitStream ------------------------------
(***************************************************************************)
(* The bit writer and the bit reader that the compressors under             *)
(* algorithm/Machete share (inc/BitStream): a buffer of two words in front  *)
(* of an array of words.  A word has Word bits, 32 in the code, and the     *)
(* buffer is the sequence of its bits, the highest first.                   *)
(***************************************************************************)
EXTENDS Integers, Sequences, SequencesExt

CONSTANTS Word,     \* bits of a word of the stream
          MaxBits   \* bound: bits that are written

ASSUME BitStreamAssumption == Word \in Nat \ {0} /\ MaxBits \in Nat

VARIABLES
  output,  \* BitWriter.output, up to the cursor
  wbuffer, wbitcnt,
  given,   \* the numbers written, as bits
  rcursor, rbuffer, rbitcnt,
  taken    \* the numbers read, as bits

bitVars == <<output, wbuffer, wbitcnt, given, rcursor, rbuffer, rbitcnt, taken>>

Zeros(n) == [i \in 1..n |-> 0]
BitStrings(n) == [1..n -> {0, 1}]

\* buffer << n and buffer >> n of the 2 * Word bits of the buffer.
Left(b, n) == SubSeq(b, n + 1, 2 * Word) \o Zeros(n)
Right(b, n) == Zeros(n) \o SubSeq(b, 1, 2 * Word - n)
Or(a, b) == [i \in 1..(2 * Word) |-> IF a[i] = 1 \/ b[i] = 1 THEN 1 ELSE 0]

BitInit ==
  /\ output = <<>> /\ wbuffer = Zeros(2 * Word) /\ wbitcnt = 0 /\ given = <<>>
  /\ rcursor = 0 /\ rbuffer = Zeros(2 * Word) /\ rbitcnt = 0 /\ taken = <<>>

\* write of the Len(data) <= Word low bits of a number, on a writer's state.
write(w, data) ==
  LET buffer == Or(w.buffer, Right(data \o Zeros(2 * Word - Len(data)), w.bitcnt))
      bitcnt == w.bitcnt + Len(data) IN
  IF bitcnt >= Word
  THEN [output |-> Append(w.output, SubSeq(buffer, 1, Word)),
        buffer |-> Left(buffer, Word), bitcnt |-> bitcnt - Word]
  ELSE [output |-> w.output, buffer |-> buffer, bitcnt |-> bitcnt]

\* Mutant: the low part goes first.
writeLongLowFirst(w, data) ==
  IF Len(data) > Word
  THEN write(write(w, SubSeq(data, Len(data) - Word + 1, Len(data))),
             SubSeq(data, 1, Len(data) - Word))
  ELSE write(w, data)

\* writeLong: a number longer than a word is written in two parts.
writeLong(w, data) ==
  IF Len(data) > Word
  THEN write(write(w, SubSeq(data, 1, Word)), SubSeq(data, Word + 1, Len(data)))
  ELSE write(w, data)

Flushed == rcursor > 0

Write(data) ==
  /\ ~Flushed
  /\ Len(FlattenSeq(given)) + Len(data) <= MaxBits
  /\ LET w == writeLong([output |-> output, buffer |-> wbuffer, bitcnt |-> wbitcnt],
                        data) IN
     output' = w.output /\ wbuffer' = w.buffer /\ wbitcnt' = w.bitcnt
  /\ given' = Append(given, data)
  /\ UNCHANGED <<rcursor, rbuffer, rbitcnt, taken>>

\* flush, and initBitReader on what was written.
flush ==
  /\ ~Flushed /\ given # <<>>
  /\ output' = IF wbitcnt > 0 THEN Append(output, SubSeq(wbuffer, 1, Word)) ELSE output
  /\ wbuffer' = IF wbitcnt > 0 THEN Zeros(2 * Word) ELSE wbuffer
  /\ wbitcnt' = 0
  /\ rbuffer' = output'[1] \o Zeros(Word) /\ rcursor' = 1 /\ rbitcnt' = Word
  /\ UNCHANGED <<given, taken>>

\* peek and forward of len <= Word bits, on a reader's state.
peekBits(r, len) == SubSeq(r.buffer, 1, len)

forward(r, len) ==
  LET bitcnt == r.bitcnt - len
      buffer == Left(r.buffer, len) IN
  IF bitcnt >= Word THEN [r EXCEPT !.buffer = buffer, !.bitcnt = bitcnt]
  ELSE IF r.cursor < Len(output)
  THEN [buffer |-> Or(buffer, Right(output[r.cursor + 1] \o Zeros(Word), bitcnt)),
        bitcnt |-> bitcnt + Word, cursor |-> r.cursor + 1]
  ELSE [r EXCEPT !.buffer = buffer, !.bitcnt = 2 * Word]

\* readLong of the next number, whose length the reader knows.
readLong ==
  /\ Flushed /\ Len(taken) < Len(given)
  /\ LET len == Len(given[Len(taken) + 1])
         r == [buffer |-> rbuffer, bitcnt |-> rbitcnt, cursor |-> rcursor]
         high == IF len > Word THEN Word ELSE 0
         r1 == IF high > 0 THEN forward(r, Word) ELSE r
         r2 == forward(r1, len - high) IN
     /\ taken' = Append(taken, (IF high > 0 THEN peekBits(r, Word) ELSE <<>>)
                                 \o peekBits(r1, len - high))
     /\ rbuffer' = r2.buffer /\ rbitcnt' = r2.bitcnt /\ rcursor' = r2.cursor
  /\ UNCHANGED <<output, wbuffer, wbitcnt, given>>

BitNext ==
  \/ \E n \in 1..(2 * Word) : \E data \in BitStrings(n) : Write(data)
  \/ flush
  \/ readLong

BitSpec == BitInit /\ [][BitNext]_bitVars

-----------------------------------------------------------------------------
(* Properties *)

\* The reader returns what was written, for any lengths up to two words, across
\* word boundaries and up to the last, partly filled word.
ReadBack == \A i \in DOMAIN taken : taken[i] = given[i]
=============================================================================
