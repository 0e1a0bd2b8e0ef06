--------------------------------- MODULE SZ3 ---------------------------------
(***************************************************************************)
(* The SZ3 compressor that a chunk of type SZ3 is compacted with, as far as *)
(* one-dimensional doubles take it: the choice of the predictor, the        *)
(* interpolation and Lorenzo decompositions, the linear quantizer, the      *)
(* Huffman encoder with its tree in the stream, and the sizes of the        *)
(* buffers on both sides of zstd.                                           *)
(*                                                                         *)
(* A double is an integer or a NaN, and an interpolated value is rounded    *)
(* down to an integer: what matters is that both sides round alike.  Which  *)
(* predictor wins on the sample is left open.  zstd is external: it returns *)
(* the bytes it was given if they fit into the buffer.                      *)
(***************************************************************************)
EXTENDS Integers, Sequences, FiniteSets, SequencesExt

CONSTANTS SZValues,     \* the values of the samples: integers, or ZNaN
          ZNaN,         \* a double that is not a number
          ErrorBound,   \* absErrorBound, an even integer
          Radius,       \* quantbinCnt / 2
          BlockSize,    \* interpBlockSize, even
          MinChunkSize, \* SZ3_MinChunkSize: shorter chunks are extended
          ByteBits,     \* the bits of a byte
          SmallNodes,   \* 256: the node counts whose indices take a byte
          FrameBytes, NodeBytes, ValueBytes,  \* sizes of the parts of the frame
          MaxSamples,   \* bound: the longest chunk
          MaxOrder      \* bound: the longest chunk whose order of visits is looked at

ASSUME SZAssumption ==
  /\ ErrorBound \in Nat \ {0} /\ ErrorBound % 2 = 0 /\ Radius \in Nat \ {0}
  /\ BlockSize \in Nat \ {0} /\ BlockSize % 2 = 0
  /\ MinChunkSize \in Nat \ {0} /\ ByteBits \in Nat \ {0} /\ SmallNodes \in Nat
  /\ FrameBytes \in Nat /\ NodeBytes \in Nat /\ ValueBytes \in Nat
  /\ MaxSamples \in Nat /\ MaxOrder \in Nat

VARIABLES
  buffer,  \* CLAppender.Float_buffer
  zstage,  \* how far SZ_compress and SZ_decompress have come
  algo,    \* conf.cmprAlgo and conf.interpAlgo
  num,     \* conf.num, the length that the chunk is compressed with
  inds,    \* quant_inds
  unpred,  \* the quantizer's unpredictable values
  queue,   \* qq: the nodes that are not merged yet
  stream,  \* what reaches zstd: the saved tree, the bits and their bytes
  result   \* decData

szVars == <<buffer, zstage, algo, num, inds, unpred, queue, stream, result>>

-----------------------------------------------------------------------------
(* LinearQuantizer *)

\* The value that NaN is overwritten with: (int64_t) NaN is the smallest
\* int64_t, which passes the comparison with the radius.
Far == -1000000

Plus(x, y) == IF x = ZNaN \/ y = ZNaN THEN ZNaN ELSE x + y

\* Mutant: the value is not overwritten by what the decoder will have.
quantizeOnly(x, pred, eb) ==
  IF x = ZNaN \/ pred = ZNaN
  THEN [ind |-> Radius, val |-> Plus(pred, Far)]
  ELSE LET d == IF x < pred THEN pred - x ELSE x - pred
           half == (d \div eb + 1) \div 2 IN
       [ind |-> IF d \div eb + 1 >= 2 * Radius THEN 0
                ELSE IF x < pred THEN Radius - half ELSE Radius + half, val |-> x]

\* quantize_and_overwrite: the index (0: unpredictable) and the value that the
\* following predictions are made from.  A comparison with NaN is false.
quantize(x, pred, eb) ==
  IF x = ZNaN \/ pred = ZNaN
  THEN [ind |-> Radius, val |-> Plus(pred, Far)]
  ELSE LET d == IF x < pred THEN pred - x ELSE x - pred
           half == (d \div eb + 1) \div 2
           dec == IF x < pred THEN pred - 2 * half * eb ELSE pred + 2 * half * eb IN
       IF d \div eb + 1 < 2 * Radius /\ dec - x \in (-eb)..eb
       THEN [ind |-> IF x < pred THEN Radius - half ELSE Radius + half, val |-> dec]
       ELSE [ind |-> 0, val |-> x]

recover_pred(pred, ind, eb) == Plus(pred, 2 * (ind - Radius) * eb)

-----------------------------------------------------------------------------
(* The decompositions: the order in which the elements are predicted, and     *)
(* from which others.  A visit is an element, its error bound, the elements   *)
(* that it is predicted from, their weights and the divisor.                  *)

Visit(at, eb, from, weights, div) ==
  [at |-> at, eb |-> eb, from |-> from, weights |-> weights, div |-> div]

Copy(at, eb, a) == Visit(at, eb, <<a>>, <<1>>, 1)

Odd(lo, hi) == SelectSeq([i \in 1..hi |-> i], LAMBDA i : i % 2 = 1 /\ i >= lo)

\* block_interpolation_1d of the elements begin, begin + s, ... of a block.
LinearBlock(begin, n, s, eb) ==
  LET d(i) == begin + i * s
      inner == Odd(1, n - 2) IN
  [k \in DOMAIN inner |->
     Visit(d(inner[k]), eb, <<d(inner[k] - 1), d(inner[k] + 1)>>, <<1, 1>>, 2)]
  \o (IF n % 2 = 1 THEN <<>>
      ELSE IF n < 4 THEN <<Copy(d(n - 1), eb, d(n - 2))>>
      ELSE <<Visit(d(n - 1), eb, <<d(n - 4), d(n - 2)>>, <<-1, 3>>, 2)>>)

CubicBlock(begin, n, s, eb) ==
  LET d(i) == begin + i * s
      inner == Odd(3, n - 4)
      i == IF inner = <<>> THEN 3 ELSE Last(inner) + 2 IN
  [k \in DOMAIN inner |->
     Visit(d(inner[k]), eb, <<d(inner[k] - 3), d(inner[k] - 1), d(inner[k] + 1),
                              d(inner[k] + 3)>>, <<-1, 9, 9, -1>>, 16)]
  \o <<Visit(d(1), eb, <<d(0), d(2), d(4)>>, <<3, 6, -1>>, 8),
       Visit(d(i), eb, <<d(i - 3), d(i - 1), d(i + 1)>>, <<-1, 6, 3>>, 8)>>
  \o (IF n % 2 = 1 THEN <<>>
      ELSE <<Visit(d(n - 1), eb, <<d(n - 6), d(n - 4), d(n - 2)>>, <<3, -10, 15>>, 8)>>)

Block(a, begin, n, s, eb) ==
  IF n <= 1 THEN <<>>
  ELSE IF a = "linear" \/ n < 5 THEN LinearBlock(begin, n, s, eb)
  ELSE CubicBlock(begin, n, s, eb)

\* interpolation_level: ceil(log2(n)).
Levels(n) == CHOOSE l \in 0..n : 2^l >= n /\ \A k \in 0..(l - 1) : 2^k < n

\* compress and decompress of InterpolationDecomposition: from the coarsest
\* level to the finest, the blocks of each level in turn.
InterpolationVisits(a, n) ==
  LET level(l) ==
        LET s == 2^(l - 1)
            eb == IF l >= 3 THEN ErrorBound \div 2 ELSE ErrorBound
            begins == [k \in 1..((n - 1) \div (BlockSize * s) + 1) |->
                         (k - 1) * BlockSize * s]
            end(b) == IF b + BlockSize * s > n - 1 THEN n - 1 ELSE b + BlockSize * s IN
        FlattenSeq([k \in DOMAIN begins |->
          Block(a, begins[k], (end(begins[k]) - begins[k]) \div s + 1, s, eb)])
  IN <<Visit(0, ErrorBound, <<>>, <<>>, 1)>>
       \o FlattenSeq([k \in 1..Levels(n) |-> level(Levels(n) - k + 1)])

\* compress_1d and decompress_1d of LorenzoRegressionDecomposition.
LorenzoVisits(n) ==
  [i \in 1..n |-> IF i = 1 THEN Visit(0, ErrorBound, <<>>, <<>>, 1)
                  ELSE Copy(i - 1, ErrorBound, i - 2)]

Visits(a, n) == IF a = "lorenzo" THEN LorenzoVisits(n) ELSE InterpolationVisits(a, n)

\* The prediction of a visit from the elements as they are now.
Predicted(v, data) ==
  LET sum == FoldLeft(LAMBDA acc, k :
                        IF acc = ZNaN \/ data[v.from[k]] = ZNaN THEN ZNaN
                        ELSE acc + v.weights[k] * data[v.from[k]],
                      0, [k \in DOMAIN v.from |-> k]) IN
  IF sum = ZNaN THEN ZNaN ELSE sum \div v.div

compress(data, visits) ==
  FoldLeft(LAMBDA acc, v :
             LET q == quantize(acc.data[v.at], Predicted(v, acc.data), v.eb) IN
             [data |-> [acc.data EXCEPT ![v.at] = q.val],
              inds |-> Append(acc.inds, q.ind),
              unpred |-> IF q.ind = 0 THEN Append(acc.unpred, acc.data[v.at])
                         ELSE acc.unpred],
           [data |-> data, inds |-> <<>>, unpred |-> <<>>], visits)

decompress(codes, unpreds, visits, n) ==
  FoldLeft(LAMBDA acc, k :
             LET v == visits[k] IN
             IF codes[k] = 0
             THEN [data |-> [acc.data EXCEPT ![v.at] = Head(acc.unpred)],
                   unpred |-> Tail(acc.unpred)]
             ELSE [acc EXCEPT !.data[v.at] =
                     recover_pred(Predicted(v, acc.data), codes[k], v.eb)],
           [data |-> [i \in 0..(n - 1) |-> 0], unpred |-> unpreds],
           [k \in DOMAIN visits |-> k]).data

-----------------------------------------------------------------------------
(* HuffmanEncoder.  A tree is the set of its leaves, each with the path from  *)
(* the root: 0 is left and 1 is right.                                        *)

Leaf(v) == [val |-> v, path |-> <<>>]

\* init: one node per distinct index.  The order of a hash map and of equal
\* frequencies in the heap is left open.
NewNodes(s) == {[freq |-> Cardinality({k \in DOMAIN s : s[k] = v}), tree |-> {Leaf(v)}] :
                v \in Range(s)}

\* qremove: a node of the least frequency.
Least(q) == {n \in q : \A x \in q : n.freq <= x.freq}

\* new_node(0, 0, a, b) joins two nodes.
new_node(a, b) ==
  [freq |-> a.freq + b.freq,
   tree |-> {[f EXCEPT !.path = <<0>> \o f.path] : f \in a.tree}
            \cup {[f EXCEPT !.path = <<1>> \o f.path] : f \in b.tree}]

\* build_code: the path is the code.
code(tree, v) == (CHOOSE f \in tree : f.val = v).path

Nodes(tree) == UNION {{SubSeq(f.path, 1, k) : k \in 0..Len(f.path)} : f \in tree}

\* The width of a child's index in the stream: a byte, if the nodes allow it.
IndexRange(nodes) == IF Cardinality(nodes) <= SmallNodes THEN SmallNodes
                     ELSE SmallNodes * SmallNodes

\* The place of a node in pad_tree's preorder.
PadIndex(nodes, p) ==
  Cardinality({q \in nodes : q # p /\
     (IsPrefix(q, p) \/ \E k \in DOMAIN p \cap DOMAIN q :
        SubSeq(q, 1, k - 1) = SubSeq(p, 1, k - 1) /\ q[k] < p[k])})

\* pad_tree and convert_HuffTree_to_bytes_anyStates: the arrays L, R, C and t.
pad_tree(tree) ==
  LET nodes == Nodes(tree)
      leaves == {f.path : f \in tree}
      child(p, b) == IF p \in leaves THEN 0
                     ELSE PadIndex(nodes, p \o <<b>>) % IndexRange(nodes)
      row(p) == [l |-> child(p, 0), r |-> child(p, 1), t |-> p \in leaves,
                 c |-> IF p \in leaves THEN (CHOOSE f \in tree : f.path = p).val ELSE 0] IN
  [i \in 0..(Cardinality(nodes) - 1) |-> row(CHOOSE p \in nodes : PadIndex(nodes, p) = i)]

Bytes(n) == (n + ByteBits - 1) \div ByteBits

Padded(bits) == bits \o [k \in 1..(ByteBits * Bytes(Len(bits)) - Len(bits)) |-> 0]

\* One code of encode: into whole bytes, or first into the bits that the last
\* byte lacks.  p is the byte to go on with, size is outSize.
Emit(acc, c) ==
  LET whole == SubSeq(acc.bits, 1, acc.p * ByteBits)
      begun == SubSeq(acc.bits, 1, (acc.p + 1) * ByteBits - acc.lack)
      rest == SubSeq(c, acc.lack + 1, Len(c)) IN
  IF acc.lack = 0
  THEN [bits |-> whole \o Padded(c), p |-> acc.p + Len(c) \div ByteBits,
        size |-> acc.size + Bytes(Len(c)), lack |-> Len(Padded(c)) - Len(c)]
  ELSE IF acc.lack < Len(c)
  THEN [bits |-> begun \o SubSeq(c, 1, acc.lack) \o Padded(rest),
        p |-> acc.p + 1 + Len(rest) \div ByteBits,
        size |-> acc.size + Bytes(Len(rest)), lack |-> Len(Padded(rest)) - Len(rest)]
  ELSE [bits |-> Padded(begun \o c), p |-> IF acc.lack = Len(c) THEN acc.p + 1 ELSE acc.p,
        size |-> acc.size, lack |-> acc.lack - Len(c)]

encode(tree, s) ==
  LET e == FoldLeft(LAMBDA acc, v : Emit(acc, code(tree, v)),
                    [bits |-> <<>>, p |-> 0, size |-> 0, lack |-> 0], s) IN
  [size |-> e.size, bits |-> SubSeq(e.bits, 1, e.size * ByteBits)]

\* unpad_tree and decode: n values, walking the arrays from node 0.
decode(rows, bits, n) ==
  IF rows[0].t THEN [k \in 1..n |-> rows[0].c]
  ELSE FoldLeft(LAMBDA acc, b :
                  LET to == IF b = 0 THEN rows[acc.at].l ELSE rows[acc.at].r IN
                  IF Len(acc.out) = n THEN acc
                  ELSE IF rows[to].t THEN [at |-> 0, out |-> Append(acc.out, rows[to].c)]
                  ELSE [acc EXCEPT !.at = to],
                [at |-> 0, out |-> <<>>], bits).out

-----------------------------------------------------------------------------

SZInit == /\ buffer = <<>> /\ zstage = "append" /\ algo = "none" /\ num = 0
          /\ inds = <<>> /\ unpred = <<>> /\ queue = {} /\ stream = <<>> /\ result = <<>>

\* CLAppender.Append keeps the value as it is.
AppendValue(v) ==
  /\ zstage = "append" /\ Len(buffer) < MaxSamples
  /\ buffer' = Append(buffer, v)
  /\ UNCHANGED <<zstage, algo, num, inds, unpred, queue, stream, result>>

\* Compact calls SZ_Compress: a short chunk is compressed as MinChunkSize
\* values, of which those past the end of Float_buffer are whatever memory holds
\* there.  SZ_compress_Interp_lorenzo chooses the predictor, which quantizes.
SZ_Compress(a, beyond) ==
  LET n == IF Len(buffer) < MinChunkSize THEN MinChunkSize ELSE Len(buffer)
      data == [i \in 0..(n - 1) |-> IF i < Len(buffer) THEN buffer[i + 1] ELSE beyond[i]]
      done == compress(data, Visits(a, n)) IN
  /\ zstage = "append" /\ buffer # <<>>
  /\ algo' = a /\ num' = n
  /\ inds' = done.inds /\ unpred' = done.unpred
  /\ queue' = NewNodes(done.inds)
  /\ zstage' = "tree"
  /\ UNCHANGED <<buffer, stream, result>>

\* SZ_compress_dispatcher with absErrorBound = 0: zstd alone.
SZ_CompressExactly(beyond) ==
  LET n == IF Len(buffer) < MinChunkSize THEN MinChunkSize ELSE Len(buffer) IN
  /\ zstage = "append" /\ buffer # <<>>
  /\ algo' = "zstd" /\ num' = n
  /\ stream' = [data |-> [i \in 0..(n - 1) |-> IF i < Len(buffer) THEN buffer[i + 1] ELSE beyond[i]],
                raw |-> ValueBytes * n]
  /\ zstage' = "saved"
  /\ UNCHANGED <<buffer, inds, unpred, queue, result>>

\* The loop of init: two nodes of least frequency become one.
MergeNodes ==
  /\ zstage = "tree"
  /\ \E a \in Least(queue) : \E b \in Least(queue \ {a}) :
       queue' = (queue \ {a, b}) \cup {new_node(a, b)}
  /\ UNCHANGED <<buffer, zstage, algo, num, inds, unpred, stream, result>>

\* save and encode, and the number of bytes that zstd is given.
Save ==
  /\ zstage = "tree" /\ Cardinality(queue) = 1
  /\ LET tree == (CHOOSE n \in queue : TRUE).tree
         e == encode(tree, inds)
         nodes == Cardinality(Nodes(tree)) IN
     stream' = [rows |-> pad_tree(tree), bits |-> e.bits,
                raw |-> FrameBytes + ValueBytes * Len(unpred) + e.size
                        + nodes * (NodeBytes + IF nodes <= SmallNodes THEN 0 ELSE 2)]
  /\ zstage' = "saved"
  /\ UNCHANGED <<buffer, algo, num, inds, unpred, queue, result>>

\* bufferCap of SZGenericCompressor, and zstdDstCap: zstd's output has the size
\* of the decompressed values.
Fits == stream.raw <= ValueBytes * num

\* SZ_decompress_dispatcher.  zstd's error is not looked at: when its output
\* does not fit, what is decoded is not defined.
SZ_Decompress ==
  /\ zstage = "saved"
  /\ zstage' = IF Fits THEN "done" ELSE "undefined"
  /\ result' = IF ~Fits THEN <<>>
               ELSE IF algo = "zstd" THEN stream.data
               ELSE decompress(decode(stream.rows, stream.bits, num), unpred, Visits(algo, num), num)
  /\ UNCHANGED <<buffer, algo, num, inds, unpred, queue, stream>>

SZNext ==
  \/ \E v \in SZValues : AppendValue(v)
  \/ \E a \in {"linear", "cubic", "lorenzo"} :
       \E beyond \in [Len(buffer)..(MinChunkSize - 1) -> SZValues] : SZ_Compress(a, beyond)
  \/ \E beyond \in [Len(buffer)..(MinChunkSize - 1) -> SZValues] : SZ_CompressExactly(beyond)
  \/ MergeNodes \/ Save \/ SZ_Decompress

SZSpec == SZInit /\ [][SZNext]_szVars

-----------------------------------------------------------------------------

\* Each element is predicted once, from elements that were predicted before.
InOrder(v, n) ==
  /\ Len(v) = n /\ {v[k].at : k \in DOMAIN v} = 0..(n - 1)
  /\ \A k \in DOMAIN v : Range(v[k].from) \subseteq {v[j].at : j \in 1..(k - 1)}

\* The decompositions visit the elements of a chunk of any length in an order
\* that the decoder can follow.  And every number of a chunk whose stream, with
\* its tree and its unpredictable values, takes no more bytes than the values
\* themselves comes back within the error bound, whatever stands behind the end
\* of a short chunk, and whichever NaN stands between the numbers: the encoder
\* goes on from another value than the decoder after a NaN, but then finds the
\* next values unpredictable.  With the bound 0 every value comes back.  Of a
\* chunk with a longer stream nothing is known: it is lost (SZ_Decompress).
SZFaithful ==
  /\ zstage = "append" /\ Len(buffer) = 1 =>  \* one state will do
       \A n \in 1..MaxOrder, a \in {"linear", "cubic", "lorenzo"} : InOrder(Visits(a, n), n)
  /\ zstage \in {"done", "undefined"} /\ stream.raw <= ValueBytes * num =>
       \A i \in DOMAIN buffer :
         IF algo = "zstd" THEN result[i - 1] = buffer[i]
         ELSE buffer[i] # ZNaN =>
                result[i - 1] # ZNaN /\ result[i - 1] - buffer[i] \in (-ErrorBound)..ErrorBound
=============================================================================
