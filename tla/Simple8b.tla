------------------------------ MODULE Simple8b ------------------------------
(***************************************************************************)
(* The Simple8b encoder (tsdb/chunkenc/simple8b.go): integers are buffered *)
(* and packed greedily, as many as fit, into 64-bit words whose first four *)
(* bits select how many values of how many bits the word holds.            *)
(*                                                                         *)
(* A value is its bit length: 0 for 0, 1 for 1.  It is all that packing    *)
(* looks at, since 1 is the only value of length 1.                        *)
(***************************************************************************)
EXTENDS Integers, Sequences, SequencesExt

CONSTANTS Widths,    \* the bit lengths of the values written
          Starts,    \* what was written to the encoders a behaviour starts with
          MaxWrites  \* bound on the values written after that

ASSUME Simple8bAssumption ==
  /\ Widths \subseteq 0..64
  /\ MaxWrites \in Nat
  /\ Starts \subseteq Seq(0..64)

VARIABLES
  buf,      \* e.buf[e.h:e.t]: written integers that have not been flushed
  h,        \* where they start in e.buf
  bytes,    \* e.bytes[:e.bp]: the packed words
  pc,       \* "bytes" while the loop of Bytes runs
  written   \* all values given to Write (what a decoder should return)

encVars == <<buf, h, bytes, pc, written>>

BufLen == 240

\* The table selector: how many values, of how many bits.
selector ==
  <<<<240, 0>>, <<120, 0>>, <<60, 1>>, <<30, 2>>, <<20, 3>>, <<15, 4>>,
    <<12, 5>>, <<10, 6>>, <<8, 7>>, <<7, 8>>, <<6, 10>>, <<5, 12>>,
    <<4, 15>>, <<3, 20>>, <<2, 30>>, <<1, 60>>>>

\* Mutant: only the first value is measured.
canPackFirst(src, n, bits) == Len(src) >= n /\ src[1] <= bits /\ bits > 0

\* Zero bits stand for a run of ones; then all of src is looked at.
canPack(src, n, bits) ==
  /\ Len(src) >= n
  /\ IF bits = 0 THEN \A i \in 1..Len(src) : src[i] = 1
                 ELSE \A i \in 1..n : src[i] <= bits

\* The selectors Encode may use; it takes the first one.
Fitting(src) == {k \in 1..16 : canPack(src, selector[k][1], selector[k][2])}

First(S) == CHOOSE k \in S : \A j \in S : k <= j

\* pack1 to pack240: the low bits of the first values.
Encode(src) ==
  LET k == First(Fitting(src))
  IN  [sel |-> k, vals |-> [i \in 1..selector[k][1] |->
         IF src[i] <= selector[k][2] THEN src[i] ELSE selector[k][2]]]

\* unpack1 to unpack240.
Decode(word) ==
  IF selector[word.sel][2] = 0 THEN [i \in 1..selector[word.sel][1] |-> 1] ELSE word.vals

Decoded == FlattenSeq([i \in 1..Len(bytes) |-> Decode(bytes[i])])
-----------------------------------------------------------------------------
\* A new encoder, after writes that did not fill its buffer.
NewSimple8bEncoder ==
  /\ written \in Starts
  /\ buf = written /\ h = 0 /\ bytes = <<>> /\ pc = "idle"

\* flush: one word more.
flush == bytes' = Append(bytes, Encode(buf))

\* What flush leaves in the buffer.
Rest == SubSeq(buf, selector[First(Fitting(buf))][1] + 1, Len(buf))

MayWrite == \E s \in Starts : IsPrefix(s, written) /\ Len(written) - Len(s) < MaxWrites

\* A full buffer is flushed once and the values left are moved to its front.
\* When they do not fit a word, v is not stored and the error is returned.
Write(v) ==
  /\ pc = "idle"
  /\ MayWrite
  /\ written' = Append(written, v)
  /\ \/ /\ h + Len(buf) < BufLen
        /\ buf' = Append(buf, v)
        /\ UNCHANGED <<h, bytes>>
     \/ /\ h + Len(buf) >= BufLen
        /\ Fitting(buf) # {}
        /\ flush
        /\ buf' = Append(Rest, v)
        /\ h' = 0
     \/ /\ h + Len(buf) >= BufLen
        /\ Fitting(buf) = {}
        /\ UNCHANGED <<buf, h, bytes>>
  /\ UNCHANGED pc

Bytes ==
  /\ pc = "idle"
  /\ pc' = "bytes"
  /\ UNCHANGED <<buf, h, bytes, written>>

\* One turn of the loop of Bytes.
bytesFlush ==
  /\ pc = "bytes"
  /\ buf # <<>>
  /\ Fitting(buf) # {}
  /\ flush
  /\ buf' = Rest
  /\ h' = IF Rest = <<>> THEN 0 ELSE h + Len(buf) - Len(Rest)
  /\ UNCHANGED <<pc, written>>

\* Bytes returns when all is flushed, or flush fails.
bytesReturn ==
  /\ pc = "bytes"
  /\ buf = <<>> \/ Fitting(buf) = {}
  /\ pc' = "idle"
  /\ UNCHANGED <<buf, h, bytes, written>>

EncNext == (\E v \in Widths : Write(v)) \/ Bytes \/ bytesFlush \/ bytesReturn

EncSpec == NewSimple8bEncoder /\ [][EncNext]_encVars
-----------------------------------------------------------------------------
\* What a decoder reads from the words, followed by what is still buffered,
\* is what was written, as long as every value is at most 60 bits long.  A
\* longer one blocks the encoder where it stands: all that was written
\* before it can be decoded once Bytes has returned.
RoundTrip ==
  /\ (\A i \in 1..Len(written) : written[i] <= 60) => Decoded \o buf = written
  /\ pc = "idle" /\ buf # <<>> /\ Fitting(buf) = {} =>
       buf[1] > 60 /\ Decoded = SubSeq(written, 1, Len(Decoded))
=============================================================================
