------------------------------- MODULE Machete -------------------------------
(***************************************************************************)
(* The Machete compressor that a chunk of type Machete is compacted with:   *)
(* the first-order Lorenzo predictor (predict.cpp), the Huffman, OVLQ and   *)
(* hybrid encoders (huffman.cpp, ovlq.cpp, hybrid.cpp) and the frame around *)
(* them (machete.cpp).  The product calls it with the Huffman encoder.      *)
(*                                                                         *)
(* A double is an integer or NaN; a bit stream is a sequence of bits, which *)
(* BitStream.tla shows the writer and the reader to implement; an int32_t   *)
(* has IntWidth bits.  The order in which an unordered_map is walked and a  *)
(* priority_queue breaks ties is left open: Merge takes any two lightest    *)
(* nodes.  A Huffman tree is the sequence of its leaves from left to right, *)
(* each with its depth.                                                     *)
(***************************************************************************)
EXTENDS Integers, Sequences, FiniteSets, SequencesExt

CONSTANTS MacheteValues, \* the values of the samples: integers, or MNaN
          MNaN,          \* a double that is not a number
          Half,          \* error * 0.999, half a quantization step
          IntWidth,      \* 32 in the code
          ShortLength,   \* 10 in the code: shorter inputs are stored raw
          SizeMax,       \* UINT16_MAX in the code
          MaxInput       \* bound: the longest input

ASSUME MacheteAssumption ==
  /\ Half \in Nat \ {0} /\ IntWidth \in Nat \ {0, 1}
  /\ ShortLength \in Nat \ {0, 1} /\ SizeMax \in Nat /\ MaxInput \in Nat

VARIABLES
  minput,   \* the doubles given to machete_compress
  mstage,   \* how far the call of machete_compress and _decompress has come
  encoder,  \* the encoder that the template is instantiated with
  deltas,   \* delta: what the predictor leaves to the encoder
  outliers, \* LorenzoConfig.outiers
  symbols,  \* what is Huffman coded: the deltas, the rare ones replaced
  rare,     \* the rare symbols, in order, and the one that stands for them
  forest,   \* the nodes in the priority queue of huffman_build_tree
  frame,    \* the encoder's output
  moutput   \* the doubles that machete_decompress returns

macheteVars == <<minput, mstage, encoder, deltas, outliers, symbols, rare,
                 forest, frame, moutput>>

IntMin == -(2^(IntWidth - 1))
IntMax == 2^(IntWidth - 1) - 1
Step == 2 * Half

-----------------------------------------------------------------------------
(* Bits *)

\* The n low bits of x in two's complement, the highest first.
Bits(x, n) == [i \in 1..n |-> (x \div 2^(n - i)) % 2]

Number(bits) == FoldLeft(LAMBDA acc, b : 2 * acc + b, 0, bits)

Signed(bits) ==
  Number(bits) - IF bits[1] = 1 THEN 2^Len(bits) ELSE 0

\* peek(len) at position p of the stream, which is followed by zeros.
peek(stream, p, len) ==
  [i \in 1..len |-> IF p + i <= Len(stream) THEN stream[p + i] ELSE 0]

Words(n) == (n + 31) \div 32

-----------------------------------------------------------------------------
(* predict.cpp *)

\* The quantized difference, IntMin if it does not fit.  A comparison with NaN
\* is false and the conversion of NaN to int32_t yields IntMin (cvttsd2si).
diff(data, predicted) ==
  IF data = MNaN \/ predicted = MNaN THEN IntMin
  ELSE LET d == data - predicted IN
       IF d > Step * IntMax \/ -d > Step * IntMax THEN IntMin
       ELSE IF d >= 0 THEN (d + Half) \div Step ELSE -((Half - d) \div Step)

\* Mutant: the next value is predicted from the input, not from what is decoded.
lorenzo1_diff_open(input) ==
  FoldLeft(LAMBDA acc, x :
             LET d == diff(x, acc.predicted) IN
             [predicted |-> x, deltas |-> Append(acc.deltas, d),
              outliers |-> IF d = IntMin THEN Append(acc.outliers, x) ELSE acc.outliers],
           [predicted |-> input[1], deltas |-> <<>>, outliers |-> <<>>],
           Tail(input))

\* The predictor follows the decoder: it predicts from what will be decoded.
lorenzo1_diff(input) ==
  FoldLeft(LAMBDA acc, x :
             LET d == diff(x, acc.predicted) IN
             IF d = IntMin
             THEN [predicted |-> x, deltas |-> Append(acc.deltas, d),
                   outliers |-> Append(acc.outliers, x)]
             ELSE [acc EXCEPT !.predicted = @ + d * Step,
                              !.deltas = Append(@, d)],
           [predicted |-> input[1], deltas |-> <<>>, outliers |-> <<>>],
           Tail(input))

lorenzo1_correct(ds, first, outs) ==
  FoldLeft(LAMBDA acc, d :
             IF d = IntMin /\ outs # <<>>
             THEN [out |-> Append(acc.out, Head(acc.rest)),
                   rest |-> Tail(acc.rest)]
             ELSE [acc EXCEPT !.out = Append(@, Last(@) + d * Step)],
           [out |-> <<first>>, rest |-> outs], ds).out

-----------------------------------------------------------------------------
(* huffman.cpp *)

Count(s, v) == Cardinality({i \in DOMAIN s : s[i] = v})

\* The leaves that huffman_build_tree starts with.
Leaves(s) ==
  {[cnt |-> Count(s, v), leaves |-> <<[val |-> v, lvl |-> 0]>>] : v \in Range(s)}

Lightest(nodes) == {n \in nodes : \A o \in nodes : n.cnt <= o.cnt}

Deeper(leaves) == [i \in DOMAIN leaves |-> [leaves[i] EXCEPT !.lvl = @ + 1]]

Joined(n1, n2) ==
  [cnt |-> n1.cnt + n2.cnt, leaves |-> Deeper(n1.leaves) \o Deeper(n2.leaves)]

\* huffman_build_encode_codebook: the code counts up along the leaves and is
\* cut or extended to the length of each.
Shifted(code, from, to) ==
  IF from > to THEN code \div 2^(from - to) ELSE code * 2^(to - from)

Codebook(leaves) ==
  FoldLeft(LAMBDA acc, n :
             LET code == Shifted(acc.next, acc.len, n.lvl) IN
             [next |-> code + 1, len |-> n.lvl,
              book |-> [v \in DOMAIN acc.book \cup {n.val} |->
                          IF v = n.val THEN [code |-> code, len |-> n.lvl]
                          ELSE acc.book[v]]],
           [next |-> 0, len |-> 0, book |-> <<>>], leaves).book

\* The order in which the canonical codebook takes the leaves: by depth.
ByLevel(leaves) ==
  {s \in [DOMAIN leaves -> Range(leaves)] :
     /\ Range(s) = Range(leaves)
     /\ \A i \in 1..(Len(s) - 1) : s[i].lvl <= s[i + 1].lvl}

TotalBitlen(leaves, s) ==
  FoldLeft(LAMBDA acc, n : acc + n.lvl * Count(s, n.val), 0, leaves)

huffman_store_code(book, s) ==
  IF Cardinality(DOMAIN book) > 1
  THEN FlattenSeq([i \in DOMAIN s |-> Bits(book[s[i]].code, book[s[i]].len)])
  ELSE <<>>

\* huffman_build_decode_codebook: each leaf fills the indices that begin with
\* its code.
DecodeCodebook(leaves, maxlen) ==
  FlattenSeq([i \in DOMAIN leaves |->
                [j \in 1..(2^(maxlen - leaves[i].lvl)) |-> leaves[i]]])

huffman_decode_data(stream, leaves, len) ==
  LET maxlen == FoldLeft(LAMBDA m, n : IF n.lvl > m THEN n.lvl ELSE m, 0, leaves)
      table == DecodeCodebook(leaves, maxlen)
      at(p) == table[Number(peek(stream, p, maxlen)) + 1] IN
  FoldLeft(LAMBDA acc, i : [out |-> Append(acc.out, at(acc.p).val),
                            p |-> acc.p + at(acc.p).lvl],
           [out |-> <<>>, p |-> 0], [i \in 1..len |-> i]).out

-----------------------------------------------------------------------------
(* ovlq.cpp: a number takes one of a few lengths, told by a unary flag *)

data_bitlen(x) ==
  LET d == IF x < 0 THEN -x - 1 ELSE x IN
  IF d = 0 THEN 1
  ELSE 1 + CHOOSE n \in 1..(IntWidth - 1) : 2^(n - 1) <= d /\ d < 2^n

\* C, A and M of ovlq_search_optimal_mapping: for the i-th length in use as the
\* longest, the bits it takes, the numbers of the last level, and the lengths.
search_optimal_mapping(lens) ==
  LET range == SetToSortSeq(Range(lens), <)
      len == Len(lens)
      sum(j) == Cardinality({i \in DOMAIN lens : lens[i] <= range[j]})
      best[i \in DOMAIN range] ==
        FoldLeft(LAMBDA b, j :
                   LET c == best[j].c + best[j].a
                              + (range[i] - range[j]) * (len - sum(j)) IN
                   IF c < b.c
                   THEN [c |-> c, a |-> len - sum(j),
                         m |-> best[j].m \cup {range[i]}]
                   ELSE b,
                 [c |-> len * range[i], a |-> len, m |-> {range[i]}],
                 [j \in 1..(i - 1) |-> j])
  IN best[Len(range)]

\* The level of a number of minimal length t.
Level(mapping, t) == Cardinality({d \in mapping : d < t})

\* The flag and the length of a level: 0, 10, 110, ..., the last without its 0.
Flag(mapping, level) ==
  [i \in 1..level |-> 1]
    \o IF level + 1 = Cardinality(mapping) THEN <<>> ELSE <<0>>

Length(mapping, level) == SetToSortSeq(mapping, <)[level + 1]

ovlq_encode(s) ==
  LET lens == [i \in DOMAIN s |-> data_bitlen(s[i])]
      best == search_optimal_mapping(lens)
      bits(i) == LET level == Level(best.m, lens[i]) IN
                 Flag(best.m, level) \o Bits(s[i], Length(best.m, level)) IN
  [len |-> Len(s), mapping |-> best.m, room |-> best.c,
   bits |-> FlattenSeq([i \in DOMAIN s |-> bits(i)])]

\* The level that an index of the decode table stands for: its leading ones.
Ones(index) ==
  CHOOSE k \in 0..Len(index) : /\ \A i \in 1..k : index[i] = 1
                               /\ k < Len(index) => index[k + 1] = 0

\* ovlq_build_decode_table_with_mapping takes away the shorter lengths with a
\* mask of 32 bits and looks for the last one with __builtin_ctz, also of 32
\* bits: what it finds is not defined when the longest of several lengths is 32.
LastLengthLost(f) == IntWidth \in f.mapping /\ Cardinality(f.mapping) > 1

ovlq_decode(f) ==
  FoldLeft(LAMBDA acc, i :
             LET level == Ones(peek(f.bits, acc.p, Cardinality(f.mapping) - 1))
                 p == acc.p + Len(Flag(f.mapping, level))
                 dlen == Length(f.mapping, level) IN
             [out |-> Append(acc.out, Signed(peek(f.bits, p, dlen))),
              p |-> p + dlen],
           [out |-> <<>>, p |-> 0], [i \in 1..f.len |-> i]).out

-----------------------------------------------------------------------------
(* hybrid.cpp: the symbols that occur once become one symbol *)

Rare(s) == {v \in Range(s) : Count(s, v) = 1}

NoRare == [sym |-> {}, vals |-> <<>>]

\* What hybrid_data_partition leaves to the Huffman encoder.
Partitioned(s, sym) ==
  [i \in DOMAIN s |-> IF sym # {} /\ s[i] \in Rare(s)
                      THEN CHOOSE v \in sym : TRUE ELSE s[i]]

Restored(out, r) ==
  FoldLeft(LAMBDA acc, v :
             IF v \in r.sym
             THEN [out |-> Append(acc.out, Head(acc.rest)), rest |-> Tail(acc.rest)]
             ELSE [acc EXCEPT !.out = Append(@, v)],
           [out |-> <<>>, rest |-> r.vals], out).out

\* huffman_tree_st: how many leaves there are of each depth from the first to
\* the last, from which the decoder gives the values their depths again.
Depths(leaves) ==
  [i \in 1..(Last(leaves).lvl - leaves[1].lvl + 1) |->
     LET bl == leaves[1].lvl + i - 1 IN
     [lvl |-> bl, n |-> Cardinality({j \in DOMAIN leaves : leaves[j].lvl = bl})]]

Levelled(vals, depths) ==
  LET lvls == FlattenSeq([i \in DOMAIN depths |->
                            [j \in 1..depths[i].n |-> depths[i].lvl]]) IN
  [i \in DOMAIN lvls |-> [val |-> vals[i], lvl |-> lvls[i]]]

-----------------------------------------------------------------------------
(* The encoders and the frame *)

MacheteInit ==
  /\ minput = <<>> /\ mstage = "input" /\ encoder = "huffman"
  /\ deltas = <<>> /\ outliers = <<>> /\ symbols = <<>> /\ rare = NoRare
  /\ forest = {} /\ frame = <<>> /\ moutput = <<>>

\* CLAppender.Append of a chunk of type Machete.
AppendFloat(v) ==
  /\ mstage = "input" /\ Len(minput) < MaxInput
  /\ minput' = Append(minput, v)
  /\ UNCHANGED <<mstage, encoder, deltas, outliers, symbols, rare, forest,
                 frame, moutput>>

\* machete_compress of a short input.
StoreRaw ==
  /\ mstage = "input" /\ minput # <<>> /\ Len(minput) < ShortLength
  /\ mstage' = "done" /\ moutput' = minput
  /\ UNCHANGED <<minput, encoder, deltas, outliers, symbols, rare, forest, frame>>

\* The prediction phase of machete_compress, and what the encoder does with the
\* deltas before a Huffman tree is built, if one is.
Predict(e) ==
  /\ mstage = "input" /\ Len(minput) >= ShortLength
  /\ encoder' = e
  /\ LET p == lorenzo1_diff(minput) IN
     /\ deltas' = p.deltas /\ outliers' = p.outliers
     /\ IF e = "hybrid" /\ Cardinality(Rare(p.deltas)) > 1
        THEN \E sym \in Rare(p.deltas) :
               /\ symbols' = Partitioned(p.deltas, {sym})
               /\ rare' = [sym |-> {sym},
                           vals |-> SelectSeq(p.deltas,
                                              LAMBDA v : v \in Rare(p.deltas))]
        ELSE symbols' = p.deltas /\ rare' = NoRare
     /\ forest' = IF e = "ovlq" THEN {} ELSE Leaves(symbols')
  /\ mstage' = "tree"
  /\ UNCHANGED <<minput, frame, moutput>>

\* A round of the loop of huffman_build_tree.
Merge ==
  /\ mstage = "tree" /\ Cardinality(forest) > 1
  /\ \E n1 \in Lightest(forest) : \E n2 \in Lightest(forest \ {n1}) :
       forest' = (forest \ {n1, n2}) \cup {Joined(n1, n2)}
  /\ UNCHANGED <<minput, mstage, encoder, deltas, outliers, symbols, rare,
                 frame, moutput>>

Tree == CHOOSE n \in forest : TRUE

HuffmanFrame ==
  [leaves |-> Tree.leaves, room |-> TotalBitlen(Tree.leaves, symbols),
   bits |-> huffman_store_code(Codebook(Tree.leaves), symbols),
   size |-> 12 + 6 * Len(Tree.leaves)
              + 4 * Words(TotalBitlen(Tree.leaves, symbols))]

OvlqFrame ==
  LET f == ovlq_encode(deltas) IN
  [ovlq |-> f, room |-> f.room, bits |-> f.bits, size |-> 8 + 4 * Words(f.room)]

HybridFrame(leaves) ==
  LET low == [i \in DOMAIN leaves |-> leaves[i].val] \o rare.vals
      f == ovlq_encode(low)
      depths == Depths(leaves) IN
  [ovlq |-> f, depths |-> depths, room |-> TotalBitlen(leaves, symbols),
   bits |-> huffman_store_code(Codebook(leaves), symbols),
   size |-> 24 + 2 * (Len(depths) + 2) + 8 + 4 * Words(f.room)
              + 4 * Words(TotalBitlen(leaves, symbols))]

\* The end of the encoding phase and the frame, unless a size does not fit into
\* its 16 bits: then machete_compress returns SIZE_ERROR.
Encode ==
  /\ mstage = "tree" /\ Cardinality(forest) <= 1
  /\ \/ encoder = "huffman" /\ frame' = HuffmanFrame
     \/ encoder = "ovlq" /\ frame' = OvlqFrame
     \/ encoder = "hybrid" /\ \E s \in ByLevel(Tree.leaves) : frame' = HybridFrame(s)
  /\ mstage' = IF frame'.size > SizeMax \/ 16 + 8 * Len(outliers) > SizeMax
               THEN "error" ELSE "compressed"
  /\ UNCHANGED <<minput, encoder, deltas, outliers, symbols, rare, forest, moutput>>

\* decode_phase.
Decoded ==
  CASE encoder = "huffman" ->
         huffman_decode_data(frame.bits, frame.leaves, Len(deltas))
    [] encoder = "ovlq" -> ovlq_decode(frame.ovlq)
    [] encoder = "hybrid" ->
         LET low == ovlq_decode(frame.ovlq)
             leaves == Levelled(low, frame.depths)
             vals == SubSeq(low, Len(leaves) + 1, Len(low)) IN
         Restored(huffman_decode_data(frame.bits, leaves, Len(deltas)),
                  [sym |-> rare.sym, vals |-> vals])

\* Does the decoding of the frame build a table that is not defined?
TableLost == encoder # "huffman" /\ LastLengthLost(frame.ovlq)

machete_decompress ==
  /\ mstage = "compressed"
  /\ moutput' = IF TableLost THEN <<>> ELSE lorenzo1_correct(Decoded, minput[1], outliers)
  /\ mstage' = IF TableLost THEN "undefined" ELSE "done"
  /\ UNCHANGED <<minput, encoder, deltas, outliers, symbols, rare, forest, frame>>

MacheteNext ==
  \/ \E v \in MacheteValues : AppendFloat(v)
  \/ StoreRaw
  \/ \E e \in {"huffman", "ovlq", "hybrid"} : Predict(e)
  \/ Merge
  \/ Encode
  \/ machete_decompress

MacheteSpec == MacheteInit /\ [][MacheteNext]_macheteVars

-----------------------------------------------------------------------------
(* Properties *)

\* The Huffman encoder, the one that chunks use, decodes to the input within the
\* error bound, whichever tree the queue's ties lead to, over jumps too large
\* for a delta and over NaN: a sample is at most Half away from the one given,
\* and NaN stays NaN.  So do the OVLQ and the hybrid encoder unless a number
\* that takes all bits of an int32_t, as an outlier's IntMin does, is coded
\* beside shorter ones (LastLengthLost).  And the output, allocated before a
\* bit is written for as many bits as the tree or the mapping says, has room
\* for all of them ("writer->cursor < writer->len" of BitWriter.h).
MacheteFaithful ==
  /\ /\ mstage \in {"done", "undefined"}
     /\ encoder \in {"ovlq", "hybrid"} =>
          IntWidth \notin frame.ovlq.mapping \/ Cardinality(frame.ovlq.mapping) = 1
     => /\ Len(moutput) = Len(minput)
        /\ \A i \in DOMAIN minput :
             IF minput[i] = MNaN THEN moutput[i] = MNaN
             ELSE moutput[i] # MNaN /\ moutput[i] - minput[i] \in (-Half)..Half
  /\ frame # <<>> => Len(frame.bits) <= frame.room
=============================================================================
