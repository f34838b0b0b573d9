---------------------------- MODULE BodiesProofs ----------------------------
(***************************************************************************)
(* Theorems about Decoders, for inputs of any length cut anywhere and any   *)
(* size of pieces, and about Uploads, for any number of tasks and files.    *)
(***************************************************************************)
EXTENDS Decoders, Uploads, SequenceTheorems, TLAPS

Symbols == {"x", "y", "LF", "CR", "VT", "in", "end"}

\* What is fed is a sequence.
LEMMA ChunksAreSequences ==
  ASSUME kind \in DOMAIN Alphabet, NEW chunk \in Chunks
  PROVE  chunk \in Seq(Symbols) /\ chunk \in Seq(Alphabet[kind])
<1>1. Alphabet[kind] \subseteq Symbols
  BY DEF Alphabet, Symbols
<1>2. PICK n \in 0..MaxChunk : chunk \in [1..n -> Alphabet[kind]]
  BY DEF Chunks
<1>3. n \in Nat
  BY SizesAssumption
<1>4. chunk \in [1..n -> Symbols]
  BY <1>1, <1>2
<1> QED BY <1>2, <1>3, <1>4

\* Each decoder takes the steps of its kind only.
LEMMA DecoderSteps ==
  ASSUME [Next]_vars
  PROVE  \/ kind = "lines" /\ ((\E chunk \in Chunks : LineDecode(chunk)) \/ LineFlush)
         \/ kind = "pieces" /\ ((\E chunk \in Chunks : ChunkerDecode(chunk)) \/ ChunkerFlush)
         \/ kind \in {"zlib", "deflate"} /\ ((\E chunk \in Chunks : DeflateDecode(chunk)) \/ DeflateFlush)
         \/ kind = "zstd" /\ ((\E chunk \in Chunks : ZstdDecode(chunk)) \/ ZstdFlush)
         \/ kind = "chain" /\ ((\E chunk \in Chunks : ChainDecode(chunk)) \/ ChainFlush)
         \/ UNCHANGED vars
<1>1. ASSUME NEW chunk \in Chunks
      PROVE  /\ LineDecode(chunk) => kind = "lines"
             /\ ChunkerDecode(chunk) => kind = "pieces"
             /\ DeflateDecode(chunk) => kind \in {"zlib", "deflate"}
             /\ ZstdDecode(chunk) => kind = "zstd"
             /\ ChainDecode(chunk) => kind = "chain"
  BY DEF LineDecode, ChunkerDecode, DeflateDecode, ZstdDecode, ChainDecode
<1>2. /\ LineFlush => kind = "lines"
      /\ ChunkerFlush => kind = "pieces"
      /\ DeflateFlush => kind \in {"zlib", "deflate"}
      /\ ZstdFlush => kind = "zstd"
      /\ ChainFlush => kind = "chain"
  BY DEF LineFlush, ChunkerFlush, DeflateFlush, ZstdFlush, ChainFlush
<1>3. CASE \E chunk \in Chunks : LineDecode(chunk) \/ ChunkerDecode(chunk) \/ DeflateDecode(chunk)
                                 \/ ZstdDecode(chunk) \/ ChainDecode(chunk)
  BY <1>1, <1>3
<1>4. CASE LineFlush \/ ChunkerFlush \/ DeflateFlush \/ ZstdFlush \/ ChainFlush
  BY <1>2, <1>4
<1>5. CASE UNCHANGED vars
  BY <1>5
<1> QED BY <1>3, <1>4, <1>5 DEF Next, Decode, Flush, Rest

\* And it stays of its kind.
LEMMA KindFixed == [Next]_vars => kind' = kind
BY DecoderSteps DEF LineDecode, LineFlush, ChunkerDecode, ChunkerFlush, DeflateDecode, DeflateFlush,
   ZstdDecode, ZstdFlush, ChainDecode, ChainFlush, Feed, Closed, vars

-----------------------------------------------------------------------------

(***************************************************************************)
(* Deflate.                                                                *)
(***************************************************************************)

\* Whether the flavour is known is told by the first chunk.
DeflateInv ==
    kind \in {"zlib", "deflate"} =>
        /\ fed \in Seq(Symbols)
        /\ mode \in {"zlib", kind}
        /\ flag <=> cuts = -1
        /\ cuts \in Nat \union {-1}
        /\ cuts = -1 => fed = <<>>
        /\ mode = "zlib" /\ kind = "deflate" => cuts < 2
        /\ state = "failed" => kind = "deflate" /\ cuts < 2

\* Every step keeps it.
LEMMA DeflateKept ==
  ASSUME DeflateInv, [Next]_vars
  PROVE  DeflateInv'
<1> SUFFICES ASSUME kind' \in {"zlib", "deflate"}
             PROVE  DeflateInv'
  BY DEF DeflateInv
<1>1. ASSUME NEW chunk \in Chunks, kind \in {"zlib", "deflate"}, DeflateDecode(chunk)
      PROVE  DeflateInv'
  <2>1. chunk \in Seq(Symbols) /\ Len(chunk) \in Nat
    BY <1>1, ChunksAreSequences DEF Alphabet
  <2>2. /\ kind' = kind /\ fed' = fed \o chunk /\ state = "open"
        /\ cuts' = IF cuts = -1 THEN Len(chunk) ELSE cuts
        /\ ~flag'
    BY <1>1 DEF DeflateDecode, Feed
  <2>3. fed' \in Seq(Symbols) /\ cuts' \in Nat
    BY <1>1, <2>1, <2>2 DEF DeflateInv
  <2>4. cuts = -1 => fed' = chunk
    BY <1>1, <2>1, <2>2 DEF DeflateInv
  <2>5. CASE mode = kind \/ ~HeaderSeen
    <3>1. mode' = mode /\ state' = "open"
      BY <1>1, <2>2, <2>5 DEF DeflateDecode
    <3>2. mode = "zlib" /\ kind = "deflate" => cuts' < 2
      BY <1>1, <2>1, <2>2, <2>4, <2>5 DEF DeflateInv, HeaderSeen
    <3> QED BY <1>1, <2>2, <2>3, <3>1, <3>2 DEF DeflateInv
  <2>6. CASE mode # kind /\ HeaderSeen /\ flag
    <3>1. mode' = "deflate" /\ state' = "open" /\ kind = "deflate"
      BY <1>1, <2>2, <2>6 DEF DeflateDecode, DeflateInv, FallsBack
    <3> QED BY <1>1, <2>2, <2>3, <3>1 DEF DeflateInv
  <2>7. CASE mode # kind /\ HeaderSeen /\ ~flag
    <3>1. mode' = mode /\ kind = "deflate" /\ mode = "zlib" /\ cuts' = cuts
      BY <1>1, <2>2, <2>7 DEF DeflateDecode, DeflateInv, FallsBack
    <3> QED BY <1>1, <2>2, <2>3, <3>1 DEF DeflateInv
  <2> QED BY <2>5, <2>6, <2>7 DEF DeflateInv
<1>2. CASE kind \in {"zlib", "deflate"} /\ DeflateFlush
  BY <1>2 DEF DeflateFlush, Closed, DeflateInv
<1>3. CASE UNCHANGED vars
  BY <1>3 DEF vars, DeflateInv
<1>4. kind' = kind
  BY KindFixed
<1> QED BY <1>1, <1>2, <1>3, <1>4, DecoderSteps

\* However a body is cut, in zlib's or in raw deflate, DeflateDecoder finds out
\* which it is, unless the first chunk lacks the header.
THEOREM DeflateDetectedHolds == Spec => []DeflateDetected
<1>1. Init => DeflateInv
  <2> SUFFICES ASSUME Init, kind \in {"zlib", "deflate"}
               PROVE  DeflateInv
    BY DEF DeflateInv
  <2>1. flag
    BY DEF Init
  <2>2. fed = <<>> /\ fed \in Seq(Symbols) /\ mode = "zlib" /\ cuts = -1 /\ state = "open"
    BY DEF Init
  <2> QED BY <2>1, <2>2 DEF DeflateInv
<1>2. DeflateInv => DeflateDetected
  BY DEF DeflateInv, DeflateDetected
<1> QED BY <1>1, <1>2, DeflateKept, PTL DEF Spec

-----------------------------------------------------------------------------

(***************************************************************************)
(* Zstandard.                                                              *)
(***************************************************************************)

\* The flag knows whether a frame is begun.
ZstdInv ==
    kind = "zstd" =>
        /\ fed \in Seq({"in", "end"})
        /\ state \in {"open", "flushed", "failed"}
        /\ flag <=> (fed = <<>> \/ fed[Len(fed)] = "end")
        /\ state = "failed" => ~flag
        /\ state = "flushed" => flag

\* Every step keeps it.
LEMMA ZstdKept ==
  ASSUME ZstdInv, [Next]_vars
  PROVE  ZstdInv'
<1>1. ASSUME NEW chunk \in Chunks, kind = "zstd", ZstdDecode(chunk)
      PROVE  ZstdInv'
  <2>1. chunk \in Seq({"in", "end"})
    BY <1>1, ChunksAreSequences DEF Alphabet
  <2>2. /\ kind' = kind /\ fed' = fed \o chunk /\ state = "open" /\ state' = state
        /\ flag' = AtBoundary(chunk)
    BY <1>1 DEF ZstdDecode, Feed
  <2>3. CASE chunk = <<>>
    <3>1. fed' = fed /\ flag' = flag
      BY <1>1, <2>2, <2>3 DEF ZstdInv, AtBoundary
    <3> QED BY <1>1, <2>2, <3>1 DEF ZstdInv
  <2>4. CASE chunk # <<>>
    <3>1. /\ fed' \in Seq({"in", "end"}) /\ fed' # <<>>
          /\ fed'[Len(fed')] = chunk[Len(chunk)]
      BY <1>1, <2>1, <2>2, <2>4 DEF ZstdInv
    <3>2. flag' <=> chunk[Len(chunk)] = "end"
      BY <2>2, <2>4 DEF AtBoundary
    <3> QED BY <2>2, <3>1, <3>2 DEF ZstdInv
  <2> QED BY <2>3, <2>4
<1>2. CASE kind = "zstd" /\ ZstdFlush
  BY <1>2 DEF ZstdFlush, ZstdInv
<1>3. CASE UNCHANGED vars
  BY <1>3 DEF vars, ZstdInv
<1>4. kind' = kind
  BY DecoderSteps, KindFixed
<1>5. kind # "zstd" => ZstdInv'
  BY <1>4 DEF ZstdInv
<1> QED BY <1>1, <1>2, <1>3, <1>5, DecoderSteps

\* However a body is cut, ZstdDecoder refuses it when it ends within a frame, and
\* only then.
THEOREM TruncationRefusedHolds == Spec => []TruncationRefused
<1>1. Init => ZstdInv
  <2> SUFFICES ASSUME Init, kind = "zstd"
               PROVE  ZstdInv
    BY DEF ZstdInv
  <2>1. flag
    BY DEF Init
  <2>2. fed = <<>> /\ fed \in Seq({"in", "end"}) /\ state = "open"
    BY DEF Init
  <2> QED BY <2>1, <2>2 DEF ZstdInv
<1>2. ZstdInv => TruncationRefused
  <2> SUFFICES ASSUME ZstdInv, kind = "zstd", state # "open"
               PROVE  (state = "failed") = (fed # <<>> /\ fed[Len(fed)] = "in")
    BY DEF TruncationRefused
  <2>1. fed # <<>> => fed[Len(fed)] \in {"in", "end"}
    BY DEF ZstdInv
  <2>2. state = "failed" <=> ~flag
    BY DEF ZstdInv
  <2>3. flag <=> (fed = <<>> \/ fed[Len(fed)] = "end")
    BY DEF ZstdInv
  <2> QED BY <2>1, <2>2, <2>3
<1> QED BY <1>1, <1>2, ZstdKept, PTL DEF Spec

-----------------------------------------------------------------------------

(***************************************************************************)
(* Pieces.                                                                 *)
(***************************************************************************)

\* Division, with its remainder.
LEMMA Quotient ==
  ASSUME NEW n \in Nat \ {0}, NEW m \in Nat
  PROVE  m \div n \in Nat /\ (m \div n) * n <= m /\ m < (m \div n) * n + n
OBVIOUS

\* There is only one such quotient.
LEMMA QuotientIs ==
  ASSUME NEW n \in Nat \ {0}, NEW m \in Nat, NEW q \in Nat, q * n <= m, m < q * n + n
  PROVE  m \div n = q
OBVIOUS

\* The multiples of n are n apart.
LEMMA Multiples ==
  ASSUME NEW n \in Nat \ {0}, NEW i \in Nat, NEW j \in Nat, i < j
  PROVE  i * n \in Nat /\ j * n \in Nat /\ i * n + n <= j * n /\ (i + 1) * n = i * n + n
OBVIOUS

\* How many pieces there are: one more for a short one.
LEMMA CountPieces ==
  ASSUME NEW n \in Nat \ {0}, NEW m \in Nat, NEW q \in Nat, q * n <= m, m < q * n + n
  PROVE  (m + n - 1) \div n = IF q * n = m THEN q ELSE q + 1
OBVIOUS

\* The first q pieces of s, all of them whole, and what is left of s after them.
Whole(s, q) == [k \in 1..q |-> SubSeq(s, (k - 1) * ChunkSize + 1, k * ChunkSize)]
After(s, q) == SubSeq(s, q * ChunkSize + 1, Len(s))

\* There are q of them, each as long as a piece is.
LEMMA WholeTyped ==
  ASSUME NEW S, NEW s \in Seq(S), NEW q \in Nat, q * ChunkSize <= Len(s)
  PROVE  /\ Whole(s, q) \in Seq(Seq(S)) /\ Len(Whole(s, q)) = q
         /\ \A k \in 1..q : Len(Whole(s, q)[k]) = ChunkSize
<1>1. ChunkSize \in Nat \ {0} /\ Len(s) \in Nat
  BY SizesAssumption
<1>2. ASSUME NEW k \in 1..q
      PROVE  /\ (k - 1) * ChunkSize \in Nat /\ k * ChunkSize \in Nat
             /\ k * ChunkSize = (k - 1) * ChunkSize + ChunkSize /\ k * ChunkSize <= Len(s)
  BY <1>1, Multiples
<1>3. ASSUME NEW k \in 1..q
      PROVE  /\ SubSeq(s, (k - 1) * ChunkSize + 1, k * ChunkSize) \in Seq(S)
             /\ Len(SubSeq(s, (k - 1) * ChunkSize + 1, k * ChunkSize)) = ChunkSize
  BY <1>1, <1>2
<1>4. Whole(s, q) \in [1..q -> Seq(S)]
  BY <1>3 DEF Whole
<1>5. Whole(s, q) \in Seq(Seq(S)) /\ Len(Whole(s, q)) = q
  BY <1>4, LenProperties
<1> QED BY <1>3, <1>5 DEF Whole

\* What is left is the input from there on.
LEMMA AfterTyped ==
  ASSUME NEW S, NEW s \in Seq(S), NEW q \in Nat, q * ChunkSize <= Len(s)
  PROVE  /\ q * ChunkSize \in Nat
         /\ After(s, q) \in Seq(S) /\ Len(After(s, q)) = Len(s) - q * ChunkSize
         /\ \A i \in 1..Len(After(s, q)) : After(s, q)[i] = s[q * ChunkSize + i]
<1>1. q * ChunkSize \in Nat
  BY SizesAssumption
<1> QED BY <1>1, SMTT(30) DEF After

\* What follows does not change the pieces that are whole.
LEMMA WholePrefix ==
  ASSUME NEW S, NEW s \in Seq(S), NEW t \in Seq(S), NEW q \in Nat, q * ChunkSize <= Len(s)
  PROVE  Whole(s \o t, q) = Whole(s, q)
<1>1. ASSUME NEW k \in 1..q
      PROVE  SubSeq(s \o t, (k - 1) * ChunkSize + 1, k * ChunkSize) =
             SubSeq(s, (k - 1) * ChunkSize + 1, k * ChunkSize)
  <2>1. (k - 1) * ChunkSize + 1 \in 1..Len(s) /\ k * ChunkSize \in 1..Len(s)
    BY SizesAssumption, Multiples
  <2> QED BY <2>1, SubSeqOfConcat1
<1> QED BY <1>1 DEF Whole

\* What follows is left after what was left.
LEMMA AfterPrefix ==
  ASSUME NEW S, NEW s \in Seq(S), NEW t \in Seq(S), NEW q \in Nat, q * ChunkSize <= Len(s)
  PROVE  After(s \o t, q) = After(s, q) \o t
<1>1. PICK u : u = s \o t
  OBVIOUS
<1>2. q * ChunkSize \in Nat
  BY SizesAssumption
<1>3. u \in Seq(S) /\ Len(u) = Len(s) + Len(t) /\ Len(s) \in Nat /\ Len(t) \in Nat
      /\ \A i \in 1..Len(u) : u[i] = IF i <= Len(s) THEN s[i] ELSE t[i - Len(s)]
  BY <1>1, ConcatProperties, LenProperties
<1>4. After(u, q) \in Seq(S) /\ Len(After(u, q)) = Len(u) - q * ChunkSize
      /\ \A i \in 1..Len(After(u, q)) : After(u, q)[i] = u[q * ChunkSize + i]
  <2>1. q * ChunkSize <= Len(u)
    BY <1>3, <1>2
  <2>2. u \in Seq(S)
    BY <1>3
  <2> QED BY <2>1, <2>2, AfterTyped
<1>5. After(s, q) \in Seq(S) /\ Len(After(s, q)) = Len(s) - q * ChunkSize
      /\ \A i \in 1..Len(After(s, q)) : After(s, q)[i] = s[q * ChunkSize + i]
  BY AfterTyped
<1> DEFINE v == After(s, q) \o t
<1>6. v \in Seq(S) /\ Len(v) = Len(After(s, q)) + Len(t)
      /\ \A i \in 1..Len(v) : v[i] = IF i <= Len(After(s, q)) THEN After(s, q)[i] ELSE t[i - Len(After(s, q))]
  BY <1>5, ConcatProperties
<1> HIDE DEF v
<1>7. After(u, q) \in Seq(S) /\ v \in Seq(S) /\ Len(After(u, q)) = Len(v)
  BY <1>3, <1>4, <1>5, <1>6, <1>2
<1>8. ASSUME NEW i \in 1..Len(v)
      PROVE  After(u, q)[i] = v[i]
  <2> DEFINE m == q * ChunkSize
  <2>1. i \in Nat /\ i >= 1 /\ m \in Nat /\ m <= Len(s) /\ i <= Len(s) - m + Len(t)
    BY <1>3, <1>5, <1>6, <1>2, <1>8
  <2>2. After(u, q)[i] = u[m + i] /\ v[i] = IF i <= Len(s) - m THEN After(s, q)[i] ELSE t[i - (Len(s) - m)]
    BY <1>4, <1>5, <1>6, <1>7, <1>8
  <2>3. u[m + i] = IF m + i <= Len(s) THEN s[m + i] ELSE t[m + i - Len(s)]
    BY <1>3, <2>1, SMTT(30)
  <2>4. i <= Len(s) - m => After(s, q)[i] = s[m + i]
    BY <1>5, <2>1
  <2> HIDE DEF m
  <2>5. CASE i <= Len(s) - m
    BY <1>3, <2>1, <2>2, <2>3, <2>4, <2>5
  <2>6. CASE ~(i <= Len(s) - m)
    <3>1. m + i - Len(s) = i - (Len(s) - m) /\ ~(m + i <= Len(s))
      BY <1>3, <2>1, <2>6
    <3> QED BY <2>2, <2>3, <2>6, <3>1
  <2> QED BY <2>5, <2>6
<1>9. After(u, q) = v
  BY <1>7, <1>8, SeqEqual
<1> QED BY <1>1, <1>9 DEF v

\* Products, for provers that do not multiply unknowns.
LEMMA Distributes ==
  ASSUME NEW n \in Nat, NEW i \in Nat, NEW j \in Nat
  PROVE  (i + j) * n = i * n + j * n /\ i * n \in Nat /\ j * n \in Nat
OBVIOUS

\* A piece of what is left is a piece further on.
LEMMA PieceAfter ==
  ASSUME NEW S, NEW s \in Seq(S), NEW i \in Nat, NEW j \in Nat, i * ChunkSize + j * ChunkSize <= Len(s),
         NEW k \in 1..j
  PROVE  SubSeq(After(s, i), (k - 1) * ChunkSize + 1, k * ChunkSize) =
         SubSeq(s, (i + k - 1) * ChunkSize + 1, (i + k) * ChunkSize)
<1> DEFINE m == i * ChunkSize
           a == (k - 1) * ChunkSize
           b == k * ChunkSize
<1>1. ChunkSize \in Nat /\ ChunkSize >= 1 /\ Len(s) \in Nat /\ k \in Nat /\ k - 1 \in Nat
  BY SizesAssumption
<1>2. m \in Nat /\ a \in Nat /\ b \in Nat /\ b = a + ChunkSize
  BY <1>1, Distributes
<1>3. b <= j * ChunkSize
  BY <1>1, Multiples, SizesAssumption
<1>4. (i + k - 1) * ChunkSize = m + a /\ (i + k) * ChunkSize = m + b
  <2>1. (i + (k - 1)) * ChunkSize = m + a /\ (i + k) * ChunkSize = m + b
    BY <1>1, Distributes
  <2>2. i + (k - 1) = i + k - 1
    BY <1>1
  <2> QED BY <2>1, <2>2
<1>5. m + b <= Len(s)
  BY <1>1, <1>2, <1>3, Distributes
<1> HIDE DEF m, a, b
<1>6. m + 1 \in 1..Len(s) /\ Len(s) \in 1..Len(s) /\ a + 1 \in 1..(Len(s) - (m + 1) + 1)
      /\ b \in 1..(Len(s) - (m + 1) + 1)
  BY <1>1, <1>2, <1>5
<1>7. SubSeq(SubSeq(s, m + 1, Len(s)), a + 1, b) = SubSeq(s, m + 1 + (a + 1) - 1, m + 1 + b - 1)
  <2>1. \A p, l \in 1..Len(s) : \A c, d \in 1..(l - p + 1) :
            SubSeq(SubSeq(s, p, l), c, d) = SubSeq(s, p + c - 1, p + d - 1)
    BY SubSeqOfSubSeq
  <2> QED BY <1>6, <2>1
<1>8. m + 1 + (a + 1) - 1 = m + a + 1 /\ m + 1 + b - 1 = m + b
  BY <1>2
<1>9. SubSeq(After(s, i), a + 1, b) = SubSeq(s, m + a + 1, m + b)
  BY <1>7, <1>8 DEF After, m
<1> QED BY <1>4, <1>9 DEF a, b

\* The pieces of what is left go on where the first ones end.
LEMMA WholeSplit ==
  ASSUME NEW S, NEW s \in Seq(S), NEW i \in Nat, NEW j \in Nat, i * ChunkSize + j * ChunkSize <= Len(s)
  PROVE  Whole(s, i + j) = Whole(s, i) \o Whole(After(s, i), j)
<1>1. ChunkSize \in Nat /\ Len(s) \in Nat /\ (i + j) * ChunkSize = i * ChunkSize + j * ChunkSize
      /\ i * ChunkSize \in Nat /\ j * ChunkSize \in Nat
  BY SizesAssumption, Distributes
<1>2. i * ChunkSize <= Len(s) /\ (i + j) * ChunkSize <= Len(s) /\ i + j \in Nat
  BY <1>1
<1>3. After(s, i) \in Seq(S) /\ Len(After(s, i)) = Len(s) - i * ChunkSize
  BY <1>2, AfterTyped
<1>4. j * ChunkSize <= Len(After(s, i))
  BY <1>1, <1>3
<1>5. PICK v : v = Whole(After(s, i), j)
  OBVIOUS
<1>6. PICK u : u = Whole(s, i)
  OBVIOUS
<1>7. v \in Seq(Seq(S)) /\ Len(v) = j
  BY <1>3, <1>4, <1>5, WholeTyped
<1>8. u \in Seq(Seq(S)) /\ Len(u) = i
  BY <1>2, <1>6, WholeTyped
<1>9. PICK w : w = Whole(s, i + j)
  OBVIOUS
<1>10. w \in Seq(Seq(S)) /\ Len(w) = i + j
  BY <1>2, <1>9, WholeTyped
<1>11. /\ u \o v \in Seq(Seq(S)) /\ Len(u \o v) = i + j
       /\ \A k \in 1..(i + j) : (u \o v)[k] = IF k <= i THEN u[k] ELSE v[k - i]
  BY <1>7, <1>8, ConcatProperties, ZenonT(30)
<1>12. ASSUME NEW k \in 1..(i + j)
       PROVE  w[k] = (u \o v)[k]
  <2>1. w[k] = SubSeq(s, (k - 1) * ChunkSize + 1, k * ChunkSize)
    BY <1>9, <1>12 DEF Whole
  <2>2. CASE k <= i
    <3>1. k \in 1..i
      BY <2>2
    <3>2. u[k] = SubSeq(s, (k - 1) * ChunkSize + 1, k * ChunkSize)
      BY <1>6, <3>1 DEF Whole
    <3> QED BY <1>11, <2>1, <2>2, <3>2
  <2>3. CASE ~(k <= i)
    <3>1. k - i \in 1..j /\ i + (k - i) - 1 = k - 1 /\ i + (k - i) = k
      BY <2>3
    <3>2. v[k - i] = SubSeq(After(s, i), (k - i - 1) * ChunkSize + 1, (k - i) * ChunkSize)
      BY <1>5, <3>1 DEF Whole
    <3>3. v[k - i] = SubSeq(s, (i + (k - i) - 1) * ChunkSize + 1, (i + (k - i)) * ChunkSize)
      BY <3>1, <3>2, PieceAfter
    <3> QED BY <1>11, <2>1, <2>3, <3>1, <3>3
  <2> QED BY <2>2, <2>3
<1>13. w = u \o v
  BY <1>10, <1>11, <1>12, SeqEqual
<1> QED BY <1>5, <1>6, <1>9, <1>13

\* And leave the same in the end.
LEMMA AfterSplit ==
  ASSUME NEW S, NEW s \in Seq(S), NEW i \in Nat, NEW j \in Nat, i * ChunkSize + j * ChunkSize <= Len(s)
  PROVE  After(s, i + j) = After(After(s, i), j)
<1>1. ChunkSize \in Nat /\ Len(s) \in Nat /\ (i + j) * ChunkSize = i * ChunkSize + j * ChunkSize
      /\ i * ChunkSize \in Nat /\ j * ChunkSize \in Nat
  BY SizesAssumption, Distributes
<1>2. i * ChunkSize <= Len(s) /\ (i + j) * ChunkSize <= Len(s) /\ i + j \in Nat
  BY <1>1
<1>3. PICK u : u = After(s, i)
  OBVIOUS
<1>4. /\ u \in Seq(S) /\ Len(u) = Len(s) - i * ChunkSize
      /\ \A k \in 1..Len(u) : u[k] = s[i * ChunkSize + k]
  BY <1>2, <1>3, AfterTyped
<1>5. j * ChunkSize <= Len(u)
  BY <1>1, <1>4
<1>6. PICK v : v = After(u, j)
  OBVIOUS
<1>7. /\ v \in Seq(S) /\ Len(v) = Len(u) - j * ChunkSize
      /\ \A k \in 1..Len(v) : v[k] = u[j * ChunkSize + k]
  BY <1>4, <1>5, <1>6, AfterTyped, SMTT(30)
<1>8. PICK w : w = After(s, i + j)
  OBVIOUS
<1>9. /\ w \in Seq(S) /\ Len(w) = Len(s) - (i + j) * ChunkSize
      /\ \A k \in 1..Len(w) : w[k] = s[(i + j) * ChunkSize + k]
  BY <1>2, <1>8, AfterTyped
<1>10. Len(v) = Len(w)
  BY <1>1, <1>4, <1>7, <1>9
<1>11. ASSUME NEW k \in 1..Len(w)
       PROVE  w[k] = v[k]
  <2>1. k \in 1..Len(v) /\ j * ChunkSize + k \in 1..Len(u)
    <3>1. PICK m \in Nat : m = j * ChunkSize
      BY <1>1
    <3>2. k \in 1..Len(v)
      BY <1>10
    <3>3. Len(v) = Len(u) - m /\ Len(u) \in Nat
      BY <1>4, <1>7, <3>1
    <3>4. m + k \in 1..Len(u)
      BY <3>2, <3>3
    <3> QED BY <3>1, <3>2, <3>4
  <2>2. v[k] = s[i * ChunkSize + (j * ChunkSize + k)]
    BY <1>4, <1>7, <2>1
  <2>3. i * ChunkSize + (j * ChunkSize + k) = (i + j) * ChunkSize + k
    BY <1>1
  <2> QED BY <1>9, <2>2, <2>3
<1>12. w = v
  BY <1>7, <1>9, <1>10, <1>11, SeqEqual
<1> QED BY <1>3, <1>6, <1>8, <1>12

\* A piece that is short, if there is one.
Left(rest) == IF rest = <<>> THEN <<>> ELSE <<rest>>

\* The pieces of s are the whole ones, then a short one of what is left.
LEMMA PiecesAre ==
  ASSUME NEW S, NEW s \in Seq(S), NEW q \in Nat,
         q * ChunkSize <= Len(s), Len(s) < q * ChunkSize + ChunkSize
  PROVE  /\ Pieces(s, ChunkSize) = Whole(s, q) \o Left(After(s, q))
         /\ Pieces(s, ChunkSize) \in Seq(Seq(S))
         /\ Len(Pieces(s, ChunkSize)) = IF After(s, q) = <<>> THEN q ELSE q + 1
         /\ After(s, q) = <<>> <=> q * ChunkSize = Len(s)
<1>1. /\ ChunkSize \in Nat \ {0} /\ Len(s) \in Nat /\ q * ChunkSize \in Nat
      /\ (Len(s) + ChunkSize - 1) \div ChunkSize = IF q * ChunkSize = Len(s) THEN q ELSE q + 1
  <2>1. ChunkSize \in Nat \ {0} /\ Len(s) \in Nat
    BY SizesAssumption
  <2>2. q * ChunkSize \in Nat
    BY <2>1, Distributes
  <2>3. (Len(s) + ChunkSize - 1) \div ChunkSize = IF q * ChunkSize = Len(s) THEN q ELSE q + 1
    BY <2>1, CountPieces
  <2> QED BY <2>1, <2>2, <2>3
<1>2. PICK r : r = After(s, q)
  OBVIOUS
<1>3. r \in Seq(S) /\ Len(r) = Len(s) - q * ChunkSize
  BY <1>2, AfterTyped
<1>4. r = <<>> <=> q * ChunkSize = Len(s)
  BY <1>1, <1>3, EmptySeq
<1>5. PICK u : u = Whole(s, q)
  OBVIOUS
<1>6. u \in Seq(Seq(S)) /\ Len(u) = q /\ \A k \in 1..q : u[k] = SubSeq(s, (k - 1) * ChunkSize + 1, k * ChunkSize)
  <2>1. u \in Seq(Seq(S)) /\ Len(u) = q
    BY <1>5, WholeTyped
  <2> QED BY <1>5, <2>1 DEF Whole
<1>7. PICK p : p = Pieces(s, ChunkSize)
  OBVIOUS
<1> DEFINE n == IF r = <<>> THEN q ELSE q + 1
<1>8. p = [k \in 1..n |-> SubSeq(s, (k - 1) * ChunkSize + 1, IF k * ChunkSize < Len(s) THEN k * ChunkSize ELSE Len(s))]
  BY <1>1, <1>4, <1>7 DEF Pieces
<1>9. n \in Nat
  OBVIOUS
<1>10. \A k \in 1..q : p[k] = u[k]
  <2> SUFFICES ASSUME NEW k \in 1..q PROVE p[k] = u[k]
    OBVIOUS
  <2>1. k \in 1..n
    OBVIOUS
  <2>2. k * ChunkSize \in Nat /\ k * ChunkSize <= Len(s)
    BY <1>1, Multiples
  <2>3. (IF k * ChunkSize < Len(s) THEN k * ChunkSize ELSE Len(s)) = k * ChunkSize
    BY <1>1, <2>2
  <2>4. p[k] = SubSeq(s, (k - 1) * ChunkSize + 1, IF k * ChunkSize < Len(s) THEN k * ChunkSize ELSE Len(s))
    BY <1>8, <2>1
  <2> QED BY <1>6, <2>3, <2>4
<1>11. r # <<>> => p[q + 1] = r
  <2> SUFFICES ASSUME r # <<>> PROVE p[q + 1] = r
    OBVIOUS
  <2>1. q + 1 \in 1..n /\ q + 1 - 1 = q
    OBVIOUS
  <2>2. (q + 1) * ChunkSize = q * ChunkSize + ChunkSize
    BY <1>1, Distributes
  <2>3. ~((q + 1) * ChunkSize < Len(s))
    BY <1>1, <2>2
  <2>4. p[q + 1] = SubSeq(s, (q + 1 - 1) * ChunkSize + 1,
                          IF (q + 1) * ChunkSize < Len(s) THEN (q + 1) * ChunkSize ELSE Len(s))
    <3>1. \A k \in 1..n : p[k] = SubSeq(s, (k - 1) * ChunkSize + 1,
                                       IF k * ChunkSize < Len(s) THEN k * ChunkSize ELSE Len(s))
      BY <1>8
    <3> HIDE DEF n
    <3> QED BY <2>1, <3>1
  <2> QED BY <1>2, <2>1, <2>3, <2>4 DEF After
<1>12. PICK l : l = Left(r)
  OBVIOUS
<1>13. l \in Seq(Seq(S)) /\ Len(l) = (IF r = <<>> THEN 0 ELSE 1) /\ (r # <<>> => l[1] = r)
  BY <1>3, <1>12 DEF Left
<1>14. p \in Seq(Seq(S)) /\ Len(p) = n
  <2>1. ASSUME NEW k \in 1..n PROVE p[k] \in Seq(S)
    <3>1. CASE k \in 1..q
      BY <1>6, <1>10, <3>1, ElementOfSeq
    <3>2. CASE k \notin 1..q
      <4>1. k = q + 1 /\ r # <<>>
        BY <3>2
      <4> QED BY <1>3, <1>11, <4>1
    <3> QED BY <3>1, <3>2
  <2>2. p \in [1..n -> Seq(S)]
    BY <1>8, <2>1
  <2> HIDE DEF n
  <2> QED BY <1>9, <2>2, SeqDef, LenProperties
<1>15. /\ u \o l \in Seq(Seq(S)) /\ Len(u \o l) = n
       /\ \A k \in 1..n : (u \o l)[k] = IF k <= q THEN u[k] ELSE l[k - q]
  <2>1. /\ u \o l \in Seq(Seq(S)) /\ Len(u \o l) = Len(u) + Len(l)
        /\ \A k \in 1..(Len(u) + Len(l)) : (u \o l)[k] = IF k <= Len(u) THEN u[k] ELSE l[k - Len(u)]
    <3>1. u \in Seq(Seq(S)) /\ l \in Seq(Seq(S))
      BY <1>6, <1>13
    <3> QED BY <3>1, ConcatProperties
  <2>2. Len(u) = q /\ Len(u) + Len(l) = n
    BY <1>6, <1>13
  <2> QED BY <2>1, <2>2
<1>16. ASSUME NEW k \in 1..n PROVE p[k] = (u \o l)[k]
  <2>1. CASE k <= q
    BY <1>10, <1>15, <2>1
  <2>2. CASE ~(k <= q)
    <3>1. k = q + 1 /\ r # <<>> /\ k - q = 1
      BY <2>2
    <3> QED BY <1>11, <1>13, <1>15, <2>2, <3>1
  <2> QED BY <2>1, <2>2
<1>17. p = u \o l
  BY <1>14, <1>15, <1>16, SeqEqual
<1> QED BY <1>2, <1>4, <1>5, <1>7, <1>12, <1>14, <1>17

\* What the chunker hands out, and what it keeps, of w.
LEMMA Rechunks ==
  ASSUME NEW S, NEW w \in Seq(S)
  PROVE  \E q \in Nat :
            /\ q * ChunkSize <= Len(w) /\ Len(w) < q * ChunkSize + ChunkSize
            /\ WholeOf(Pieces(w, ChunkSize)) = Whole(w, q)
            /\ RestOf(Pieces(w, ChunkSize)) = After(w, q)
            /\ Len(After(w, q)) < ChunkSize
<1>1. ChunkSize \in Nat \ {0} /\ Len(w) \in Nat
  BY SizesAssumption
<1>2. PICK q \in Nat : q * ChunkSize <= Len(w) /\ Len(w) < q * ChunkSize + ChunkSize
  BY <1>1, Quotient
<1>3. q * ChunkSize \in Nat
  BY <1>1, Distributes
<1>4. PICK r : r = After(w, q)
  OBVIOUS
<1>5. r \in Seq(S) /\ Len(r) = Len(w) - q * ChunkSize
  BY <1>2, <1>4, AfterTyped
<1>6. Len(r) < ChunkSize
  BY <1>1, <1>2, <1>3, <1>5
<1>7. PICK u : u = Whole(w, q)
  OBVIOUS
<1>8. u \in Seq(Seq(S)) /\ Len(u) = q /\ \A k \in 1..q : Len(u[k]) = ChunkSize
  BY <1>2, <1>7, WholeTyped
<1>9. PICK p : p = Pieces(w, ChunkSize)
  OBVIOUS
<1>10. p = u \o Left(r) /\ p \in Seq(Seq(S)) /\ Len(p) = IF r = <<>> THEN q ELSE q + 1
  <2>1. /\ Pieces(w, ChunkSize) = Whole(w, q) \o Left(After(w, q))
        /\ Pieces(w, ChunkSize) \in Seq(Seq(S))
        /\ Len(Pieces(w, ChunkSize)) = IF After(w, q) = <<>> THEN q ELSE q + 1
    BY <1>2, PiecesAre
  <2> QED BY <1>4, <1>7, <1>9, <2>1
<1>11. RestOf(p) = r /\ WholeOf(p) = u
  <2>1. CASE r = <<>>
    <3>1. Left(r) = <<>>
      BY <2>1 DEF Left
    <3>2. p = u
      BY <1>8, <1>10, <3>1, ConcatEmptySeq
    <3>3. p # <<>> => q \in 1..q
      BY <1>8, <3>2, EmptySeq
    <3>4. RestOf(p) = <<>>
      BY <1>8, <3>2, <3>3 DEF RestOf
    <3> QED BY <2>1, <3>2, <3>4 DEF WholeOf
  <2>2. CASE r # <<>>
    <3>1. Left(r) = <<r>> /\ <<r>> \in Seq(Seq(S)) /\ Len(<<r>>) = 1 /\ Len(p) = q + 1
      BY <1>5, <1>10, <2>2 DEF Left
    <3>2. \A k \in 1..(q + 1) : p[k] = IF k <= q THEN u[k] ELSE <<r>>[k - q]
      BY <1>8, <1>10, <3>1, ConcatProperties
    <3>3. p[q + 1] = r /\ p # <<>>
      BY <3>1, <3>2, EmptySeq
    <3>4. RestOf(p) = r
      BY <1>1, <1>6, <3>1, <3>3 DEF RestOf
    <3>5. PICK f : f = SubSeq(p, 1, q)
      OBVIOUS
    <3>6. WholeOf(p) = f
      BY <2>2, <3>1, <3>4, <3>5 DEF WholeOf, Front
    <3>7. f \in Seq(Seq(S)) /\ Len(f) = q /\ \A k \in 1..q : f[k] = p[k]
      BY <1>10, <3>1, <3>5
    <3>8. f = u
      <4>1. \A k \in 1..q : f[k] = u[k]
        BY <3>2, <3>7
      <4> QED BY <1>8, <3>7, <4>1, SeqEqual
    <3> QED BY <3>4, <3>6, <3>8
  <2> QED BY <2>1, <2>2
<1> QED BY <1>2, <1>4, <1>6, <1>7, <1>9, <1>11

\* Two facts of the library, on \o.
LEMMA Closes ==
  ASSUME NEW S, NEW x \in Seq(S), NEW y \in Seq(S)
  PROVE  x \o y \in Seq(S)
BY ConcatProperties

\* In whichever order three texts are put together.
LEMMA Associates ==
  ASSUME NEW S, NEW x \in Seq(S), NEW y \in Seq(S), NEW z \in Seq(S)
  PROVE  (x \o y) \o z = x \o (y \o z)
BY ConcatAssociative

\* q pieces of s are whole.
Fits(s, q) == q * ChunkSize <= Len(s)

\* What a decoder hands on and what it keeps are what it had and what it was given.
LEMMA HandsOn ==
  ASSUME NEW S, NEW kept \in Seq(S), NEW data \in Seq(S), NEW pair \in HandOn(kept, data)
  PROVE  pair[1] \in Seq(S) /\ pair[2] \in Seq(S) /\ pair[1] \o pair[2] = kept \o data
<1>1. PICK w : w = kept \o data
  OBVIOUS
<1>2. w \in Seq(S) /\ Len(w) \in Nat
  BY <1>1, ConcatProperties, LenProperties
<1>3. PICK n \in 0..Len(w) : pair = <<SubSeq(w, 1, n), SubSeq(w, n + 1, Len(w))>>
  BY <1>1 DEF HandOn
<1>4. SubSeq(w, 1, n) \in Seq(S) /\ SubSeq(w, n + 1, Len(w)) \in Seq(S)
  BY <1>2
<1>5. SubSeq(w, 1, n) \o SubSeq(w, n + 1, Len(w)) = SubSeq(w, 1, Len(w))
  <2>1. \A m \in 1..(Len(w) + 1) : \A k \in (m - 1)..Len(w) : \A l \in k..Len(w) :
           SubSeq(w, m, k) \o SubSeq(w, k + 1, l) = SubSeq(w, m, l)
    BY <1>2, ConcatAdjacentSubSeq
  <2>2. 1 \in 1..(Len(w) + 1) /\ n \in (1 - 1)..Len(w) /\ Len(w) \in n..Len(w)
    BY <1>2
  <2> QED BY <2>1, <2>2
<1>6. SubSeq(w, 1, Len(w)) = w
  BY <1>2, SubSeqFull
<1> QED BY <1>1, <1>3, <1>4, <1>5, <1>6

\* Concatenation, for proofs that need no more of it than the next two lemmas.
Cat(x, y) == x \o y

\* The first: it gives a sequence.
LEMMA CatCloses ==
  ASSUME NEW S, NEW x \in Seq(S), NEW y \in Seq(S)
  PROVE  Cat(x, y) \in Seq(S)
BY ConcatProperties DEF Cat

\* The second: brackets do not matter.
LEMMA CatAssociates ==
  ASSUME NEW S, NEW x \in Seq(S), NEW y \in Seq(S), NEW z \in Seq(S)
  PROVE  Cat(Cat(x, y), z) = Cat(x, Cat(y, z))
BY Associates DEF Cat

\* Of the input s, o is handed out, whole pieces, and rest is not yet.
HandedOut(s, o, rest) ==
    /\ s \in Seq(Symbols)
    /\ \E q \in Nat : Fits(s, q) /\ o = Whole(s, q) /\ After(s, q) = rest

\* More input, c, comes in: the chunker gets w, and e is kept back before it.
Takes(rest, c, w, e) == {c, w, e} \subseteq Seq(Symbols) /\ rest \o c = w \o e

\* What two decoders in a row do with c: they keep h and i, the chunker b.
InARow(b, i, h, c, first, second) ==
    {b, i, h, c} \subseteq Seq(Symbols) /\ first \in HandOn(h, c) /\ second \in HandOn(i, first[1])

\* They lose nothing, and keep the order.
LEMMA NothingLost ==
  ASSUME NEW b, NEW i, NEW h, NEW c, NEW first, NEW second, InARow(b, i, h, c, first, second)
  PROVE  /\ {first[2], second[2]} \subseteq Seq(Symbols)
         /\ Takes(b \o (i \o h), c, b \o second[1], second[2] \o first[2])
<1> DEFINE S == Symbols
<1>1. /\ b \in Seq(S) /\ i \in Seq(S) /\ h \in Seq(S) /\ c \in Seq(S)
      /\ first \in HandOn(h, c) /\ second \in HandOn(i, first[1])
  BY DEF InARow
<1> HIDE DEF S
<1>2. \A k, x \in Seq(S) : \A p \in HandOn(k, x) : p[1] \in Seq(S) /\ p[2] \in Seq(S) /\ Cat(p[1], p[2]) = Cat(k, x)
  BY HandsOn DEF Cat
<1>3. first[1] \in Seq(S) /\ first[2] \in Seq(S) /\ Cat(first[1], first[2]) = Cat(h, c)
  BY <1>1, <1>2, Zenon
<1>4. second[1] \in Seq(S) /\ second[2] \in Seq(S) /\ Cat(second[1], second[2]) = Cat(i, first[1])
  BY <1>1, <1>2, <1>3, Zenon
<1>5. PICK f, g : f = first[1] /\ g = first[2]
  OBVIOUS
<1>6. PICK d, e : d = second[1] /\ e = second[2]
  OBVIOUS
<1>7. f \in Seq(S) /\ g \in Seq(S) /\ Cat(f, g) = Cat(h, c)
  BY <1>3, <1>5
<1>8. d \in Seq(S) /\ e \in Seq(S) /\ Cat(d, e) = Cat(i, f)
  BY <1>4, <1>5, <1>6
<1>9. Cat(Cat(b, Cat(i, h)), c) = Cat(b, Cat(i, Cat(h, c)))
  BY <1>1, CatCloses, CatAssociates
<1>10. Cat(i, Cat(f, g)) = Cat(Cat(i, f), g)
  BY <1>1, <1>7, CatAssociates
<1>11. Cat(b, Cat(Cat(d, e), g)) = Cat(Cat(b, d), Cat(e, g))
  BY <1>1, <1>7, <1>8, CatCloses, CatAssociates
<1>12. Cat(Cat(b, Cat(i, h)), c) = Cat(Cat(b, second[1]), Cat(second[2], first[2]))
  BY <1>5, <1>6, <1>7, <1>8, <1>9, <1>10, <1>11
<1>13. b \o second[1] \in Seq(S) /\ second[2] \o first[2] \in Seq(S)
  BY <1>1, <1>3, <1>4, Closes
<1> QED BY <1>1, <1>3, <1>4, <1>12, <1>13 DEF Cat, S, Takes

\* What is handed out then is what was handed out, and whole pieces of w.
LEMMA Grows ==
  ASSUME NEW s, NEW o, NEW rest, HandedOut(s, o, rest),
         NEW c, NEW w, NEW e, Takes(rest, c, w, e)
  PROVE  HandedOut(s \o c, o \o WholeOf(Pieces(w, ChunkSize)), RestOf(Pieces(w, ChunkSize)) \o e)
<1> PICK q \in Nat : Fits(s, q) /\ o = Whole(s, q) /\ After(s, q) = rest
  BY DEF HandedOut
<1> DEFINE S == Symbols
<1>1. /\ s \in Seq(S) /\ c \in Seq(S) /\ w \in Seq(S) /\ e \in Seq(S)
      /\ q \in Nat /\ Fits(s, q) /\ After(s, q) \o c = w \o e
  BY DEF HandedOut, Takes
<1> HIDE DEF S
<1>2. PICK j \in Nat :
        /\ Fits(w, j)
        /\ WholeOf(Pieces(w, ChunkSize)) = Whole(w, j)
        /\ RestOf(Pieces(w, ChunkSize)) = After(w, j)
  BY <1>1, Rechunks DEF Fits
<1>3. /\ Fits(s \o c, q + j)
      /\ Whole(s \o c, q + j) = Whole(s, q) \o Whole(w, j)
      /\ After(s \o c, q + j) = After(w, j) \o e
  <2>1. q * ChunkSize <= Len(s) /\ j * ChunkSize <= Len(w)
    BY <1>1, <1>2 DEF Fits
  <2>2. PICK t : t = s \o c
    OBVIOUS
  <2>3. t \in Seq(S) /\ Len(t) = Len(s) + Len(c) /\ Len(s) \in Nat /\ Len(c) \in Nat
    BY <1>1, <2>2, ConcatProperties, LenProperties
  <2>4. t \in Seq(S)
    BY <1>1, <2>3
  <2>5. q * ChunkSize \in Nat /\ j * ChunkSize \in Nat /\ (q + j) * ChunkSize = q * ChunkSize + j * ChunkSize
    BY <1>1, SizesAssumption, Distributes
  <2>6. Len(w) \in Nat
    BY <1>1, LenProperties
  <2>7. After(t, q) = w \o e
    BY <1>1, <2>2, <2>1, AfterPrefix
  <2>8. q * ChunkSize <= Len(t)
    BY <1>1, <2>3, <2>5, <2>1
  <2>9. Len(w \o e) = Len(t) - q * ChunkSize
    BY <1>1, <2>3, <2>7, <2>8, AfterTyped
  <2>10. Len(w) <= Len(w \o e)
    BY <1>1, <2>6, ConcatProperties, LenProperties
  <2>11. q * ChunkSize + j * ChunkSize <= Len(t)
    BY <1>1, <2>3, <2>5, <2>6, <2>9, <2>10, <2>1
  <2>12. Whole(t, q + j) = Whole(t, q) \o Whole(w \o e, j)
    <3>1. Whole(t, q + j) = Whole(t, q) \o Whole(After(t, q), j)
      BY <1>1, <2>4, <2>11, WholeSplit
    <3> QED BY <1>1, <2>7, <3>1
  <2>13. After(t, q + j) = After(w \o e, j)
    <3>1. After(t, q + j) = After(After(t, q), j)
      BY <1>1, <2>4, <2>11, AfterSplit
    <3> QED BY <1>1, <2>7, <3>1
  <2>14. Whole(t, q) = Whole(s, q)
    BY <1>1, <2>2, <2>1, WholePrefix
  <2>15. Whole(w \o e, j) = Whole(w, j) /\ After(w \o e, j) = After(w, j) \o e
    BY <1>1, <2>1, <2>6, WholePrefix, AfterPrefix
  <2>16. Fits(t, q + j)
    BY <1>1, <2>5, <2>11 DEF Fits
  <2> QED BY <1>1, <2>2, <2>12, <2>13, <2>14, <2>15, <2>16
<1>4. q + j \in Nat /\ s \o c \in Seq(Symbols)
  BY <1>1, Closes DEF S
<1>5. o \o WholeOf(Pieces(w, ChunkSize)) = Whole(s \o c, q + j)
  BY <1>2, <1>3
<1>6. After(s \o c, q + j) = RestOf(Pieces(w, ChunkSize)) \o e
  BY <1>2, <1>3
<1> QED BY <1>3, <1>4, <1>5, <1>6 DEF HandedOut

\* What the chunker keeps is less than a piece.
LEMMA RestShort ==
  ASSUME NEW w \in Seq(Symbols)
  PROVE  RestOf(Pieces(w, ChunkSize)) \in Seq(Symbols) /\ Len(RestOf(Pieces(w, ChunkSize))) < ChunkSize
<1>1. PICK j \in Nat :
        /\ Fits(w, j)
        /\ RestOf(Pieces(w, ChunkSize)) = After(w, j)
        /\ Len(After(w, j)) < ChunkSize
  BY Rechunks DEF Fits
<1>2. After(w, j) \in Seq(Symbols)
  BY <1>1, AfterTyped DEF Fits
<1> QED BY <1>1, <1>2

\* What has been handed out, and the rest cut in pieces, are the pieces of the input.
LEMMA Ends ==
  ASSUME NEW s, NEW o, NEW w, HandedOut(s, o, w), w \in Seq(Symbols)
  PROVE  /\ Pieces(s, ChunkSize) = o \o Pieces(w, ChunkSize)
         /\ Pieces(w, ChunkSize) \in Seq(Seq(Symbols))
         /\ o \in Seq(Seq(Symbols)) /\ Len(o) * ChunkSize + Len(w) = Len(s)
<1> PICK q \in Nat : Fits(s, q) /\ o = Whole(s, q) /\ After(s, q) = w
  BY DEF HandedOut
<1> DEFINE S == Symbols
<1>1. s \in Seq(S) /\ w \in Seq(S) /\ Fits(s, q)
  BY DEF HandedOut
<1> HIDE DEF S
<1>2. ChunkSize \in Nat \ {0} /\ Len(w) \in Nat /\ Len(s) \in Nat
  BY <1>1, SizesAssumption, LenProperties
<1>3. PICK j \in Nat : j * ChunkSize <= Len(w) /\ Len(w) < j * ChunkSize + ChunkSize
  BY <1>2, Quotient
<1>4. q * ChunkSize \in Nat /\ j * ChunkSize \in Nat /\ (q + j) * ChunkSize = q * ChunkSize + j * ChunkSize
  BY <1>2, Distributes
<1>5. q * ChunkSize <= Len(s)
  BY <1>1 DEF Fits
<1>6. Len(w) = Len(s) - q * ChunkSize
  BY <1>1, <1>5, AfterTyped
<1>7. /\ q * ChunkSize + j * ChunkSize <= Len(s) /\ (q + j) * ChunkSize <= Len(s)
      /\ Len(s) < (q + j) * ChunkSize + ChunkSize /\ q + j \in Nat
  BY <1>2, <1>3, <1>4, <1>5, <1>6
<1>8. Whole(s, q + j) = Whole(s, q) \o Whole(w, j)
  BY <1>1, <1>7, WholeSplit
<1>9. After(s, q + j) = After(w, j)
  BY <1>1, <1>7, AfterSplit
<1>10. PICK l : l = Left(After(w, j))
  OBVIOUS
<1>11. l \in Seq(Seq(S))
  <2>1. After(w, j) \in Seq(S)
    BY <1>1, <1>3, AfterTyped
  <2> QED BY <1>10, <2>1 DEF Left
<1>12. Pieces(w, ChunkSize) = Whole(w, j) \o l /\ Pieces(w, ChunkSize) \in Seq(Seq(S))
  <2>1. w \in Seq(S)
    BY <1>1
  <2>2. Pieces(w, ChunkSize) = Whole(w, j) \o Left(After(w, j)) /\ Pieces(w, ChunkSize) \in Seq(Seq(S))
    BY <1>3, <2>1, PiecesAre
  <2> QED BY <1>10, <2>2
<1>13. Pieces(s, ChunkSize) = Whole(s, q + j) \o l
  <2>1. Pieces(s, ChunkSize) = Whole(s, q + j) \o Left(After(s, q + j))
    BY <1>1, <1>7, PiecesAre
  <2> QED BY <1>9, <1>10, <2>1
<1>14. Whole(w, j) \in Seq(Seq(S))
  BY <1>1, <1>3, WholeTyped
<1>15. Whole(s, q) \in Seq(Seq(S)) /\ Len(Whole(s, q)) = q
  BY <1>1, <1>5, WholeTyped
<1>16. (Whole(s, q) \o Whole(w, j)) \o l = Whole(s, q) \o (Whole(w, j) \o l)
  <2>1. PICK u : u = Whole(s, q)
    OBVIOUS
  <2>2. PICK v : v = Whole(w, j)
    OBVIOUS
  <2>3. PICK T : T = Seq(S)
    OBVIOUS
  <2>4. u \in Seq(T) /\ v \in Seq(T) /\ l \in Seq(T)
    BY <1>11, <1>14, <1>15, <2>1, <2>2, <2>3
  <2>5. (u \o v) \o l = u \o (v \o l)
    BY <2>4, ConcatAssociative, SMTT(30)
  <2> QED BY <2>1, <2>2, <2>5
<1>17. Pieces(s, ChunkSize) = Whole(s, q) \o Pieces(w, ChunkSize)
  BY <1>8, <1>12, <1>13, <1>16
<1>18. Len(o) * ChunkSize + Len(w) = Len(s)
  BY <1>2, <1>4, <1>6, <1>15
<1> QED BY <1>12, <1>15, <1>17, <1>18 DEF S

\* Less than a piece is one short piece, or none.
LEMMA Short ==
  ASSUME NEW S, NEW w \in Seq(S), Len(w) < ChunkSize
  PROVE  Pieces(w, ChunkSize) = Left(w)
<1>1. ChunkSize \in Nat \ {0} /\ Len(w) \in Nat /\ 0 * ChunkSize = 0
  BY SizesAssumption
<1>2. Pieces(w, ChunkSize) = Whole(w, 0) \o Left(After(w, 0))
  BY <1>1, PiecesAre
<1>3. After(w, 0) = w
  BY <1>1, SubSeqFull DEF After
<1>4. Whole(w, 0) = <<>>
  <2>1. Whole(w, 0) \in Seq(Seq(S)) /\ Len(Whole(w, 0)) = 0
    BY <1>1, WholeTyped
  <2> QED BY <2>1, EmptySeq
<1>5. Left(w) \in Seq(Seq(S))
  BY DEF Left
<1> QED BY <1>2, <1>3, <1>4, <1>5, ConcatEmptySeq

\* What has been handed out is the first pieces of the input, whole; what has not
\* is less than a piece in the chunker and what the decoders before it keep.
Handed ==
    /\ {buffer, inner, held} \subseteq Seq(Symbols)
    /\ Len(buffer) < ChunkSize
    /\ kind = "pieces" => inner = <<>> /\ held = <<>>
    /\ HandedOut(fed, out, buffer \o (inner \o held))

PipelineInv ==
    kind \in {"pieces", "chain"} =>
        /\ state \in {"open", "flushed"}
        /\ state = "open" => Handed
        /\ state = "flushed" => out = Pieces(fed, ChunkSize) /\ buffer = <<>>

\* A sequence begins what it is the beginning of.
LEMMA Extends ==
  ASSUME NEW S, NEW x \in Seq(S), NEW y \in Seq(S)
  PROVE  IsPrefix(x, x \o y)
<1>1. Len(x) <= Len(x \o y)
  BY ConcatProperties, LenProperties
<1>2. SubSeq(x \o y, 1, Len(x)) = SubSeq(x, 1, Len(x))
  <2>1. CASE x = <<>>
    <3>1. x \o y = y
      BY <2>1, ConcatEmptySeq
    <3> QED BY <2>1, <3>1
  <2>2. CASE x # <<>>
    <3>1. 1 \in 1..Len(x) /\ Len(x) \in 1..Len(x)
      BY <2>2, EmptySeq, LenProperties
    <3> QED BY <3>1, SubSeqOfConcat1
  <2> QED BY <2>1, <2>2
<1> QED BY <1>1, <1>2 DEF IsPrefix

\* ByteChunker and TextChunker, each chunk.
LEMMA ChunkerHands ==
  ASSUME kind = "pieces", Handed, NEW chunk \in Seq(Symbols), ChunkerDecode(chunk)
  PROVE  Handed'
<1>1. HandedOut(fed, out, buffer \o (inner \o held)) /\ buffer \in Seq(Symbols) /\ inner = <<>> /\ held = <<>>
  BY DEF Handed
<1>2. /\ fed' = fed \o chunk /\ inner' = <<>> /\ held' = <<>> /\ kind' = kind
      /\ buffer' = RestOf(Pieces(buffer \o chunk, ChunkSize))
      /\ out' = out \o WholeOf(Pieces(buffer \o chunk, ChunkSize))
  BY <1>1 DEF ChunkerDecode, Feed
<1>3. PICK w : w = buffer \o chunk
  OBVIOUS
<1>4. w \in Seq(Symbols)
  BY <1>1, <1>3, Closes
<1>5. w \o <<>> = w /\ buffer \o (inner \o held) = buffer
  <2>1. \A x \in Seq(Symbols) : x \o <<>> = x
    BY ConcatEmptySeq
  <2>2. inner \o held = <<>>
    BY <1>1, <2>1
  <2> QED BY <1>1, <1>4, <2>1, <2>2
<1>6. Takes(buffer, chunk, w, <<>>)
  BY <1>3, <1>4, <1>5 DEF Takes
<1>7. HandedOut(fed, out, buffer)
  BY <1>1, <1>5
<1>8. HandedOut(fed \o chunk, out \o WholeOf(Pieces(w, ChunkSize)), RestOf(Pieces(w, ChunkSize)) \o <<>>)
  BY <1>6, <1>7, Grows
<1>9. buffer' \in Seq(Symbols) /\ Len(buffer') < ChunkSize
  BY <1>2, <1>3, <1>4, RestShort
<1>10. inner' \o held' = <<>>
  BY <1>2
<1>11. HandedOut(fed', out', buffer' \o (inner' \o held'))
  BY <1>2, <1>3, <1>8, <1>10
<1> QED BY <1>2, <1>9, <1>11 DEF Handed

\* A chain of decoders, each chunk.
LEMMA ChainHands ==
  ASSUME kind = "chain", Handed, NEW chunk \in Seq(Symbols), ChainDecode(chunk)
  PROVE  Handed'
<1>1. /\ HandedOut(fed, out, buffer \o (inner \o held))
      /\ buffer \in Seq(Symbols) /\ inner \in Seq(Symbols) /\ held \in Seq(Symbols)
  BY DEF Handed
<1>2. fed' = fed \o chunk /\ kind' = kind
  BY DEF ChainDecode, Feed
<1>3. PICK first \in HandOn(held, chunk) : \E second \in HandOn(inner, first[1]) :
        /\ held' = first[2] /\ inner' = second[2]
        /\ buffer' = RestOf(Pieces(buffer \o second[1], ChunkSize))
        /\ out' = out \o WholeOf(Pieces(buffer \o second[1], ChunkSize))
  BY DEF ChainDecode
<1>4. PICK second \in HandOn(inner, first[1]) :
        /\ held' = first[2] /\ inner' = second[2]
        /\ buffer' = RestOf(Pieces(buffer \o second[1], ChunkSize))
        /\ out' = out \o WholeOf(Pieces(buffer \o second[1], ChunkSize))
  BY <1>3
<1>5. InARow(buffer, inner, held, chunk, first, second)
  BY <1>1 DEF InARow
<1>6. /\ {first[2], second[2]} \subseteq Seq(Symbols)
      /\ Takes(buffer \o (inner \o held), chunk, buffer \o second[1], second[2] \o first[2])
  BY <1>5, NothingLost
<1>7. PICK w : w = buffer \o second[1]
  OBVIOUS
<1>8. Takes(buffer \o (inner \o held), chunk, w, second[2] \o first[2]) /\ w \in Seq(Symbols)
  BY <1>6, <1>7 DEF Takes
<1>9. HandedOut(fed \o chunk, out \o WholeOf(Pieces(w, ChunkSize)),
                RestOf(Pieces(w, ChunkSize)) \o (second[2] \o first[2]))
  BY <1>1, <1>8, Grows
<1>10. HandedOut(fed', out', buffer' \o (inner' \o held'))
  BY <1>2, <1>4, <1>7, <1>9
<1>11. {buffer', inner', held'} \subseteq Seq(Symbols) /\ Len(buffer') < ChunkSize
  BY <1>4, <1>6, <1>7, <1>8, RestShort
<1> QED BY <1>2, <1>10, <1>11 DEF Handed

\* And the end of the body.
LEMMA LastPieces ==
  ASSUME kind \in {"pieces", "chain"}, Handed, ChunkerFlush \/ ChainFlush
  PROVE  fed' = fed /\ state' = "flushed" /\ out' = Pieces(fed, ChunkSize) /\ buffer' = <<>>
<1>1. /\ buffer \in Seq(Symbols) /\ inner \in Seq(Symbols) /\ held \in Seq(Symbols) /\ Len(buffer) < ChunkSize
      /\ HandedOut(fed, out, buffer \o (inner \o held))
  BY DEF Handed
<1>2. PICK w : w = buffer \o (inner \o held)
  OBVIOUS
<1>3. w \in Seq(Symbols)
  BY <1>1, <1>2, Closes
<1>4. /\ Pieces(fed, ChunkSize) = out \o Pieces(w, ChunkSize)
      /\ out \in Seq(Seq(Symbols)) /\ Pieces(w, ChunkSize) \in Seq(Seq(Symbols))
  <2>1. HandedOut(fed, out, w)
    BY <1>1, <1>2
  <2> QED BY <1>3, <2>1, Ends
<1>5. CASE ChainFlush
  BY <1>2, <1>4, <1>5 DEF ChainFlush, Closed, Flushed
<1>6. CASE ChunkerFlush
  <2>1. inner = <<>> /\ held = <<>>
    BY <1>6 DEF ChunkerFlush, Handed
  <2>2. w = buffer
    BY <1>1, <1>2, <2>1, ConcatEmptySeq
  <2>3. Pieces(w, ChunkSize) = Left(buffer)
    BY <1>1, <2>2, Short
  <2>4. out' = out \o Left(buffer)
    <3>1. CASE buffer = <<>>
      <4>1. Left(buffer) = <<>> /\ out' = out
        BY <1>6, <3>1 DEF ChunkerFlush, Left
      <4> QED BY <1>4, <4>1, ConcatEmptySeq
    <3>2. CASE buffer # <<>>
      <4>1. Left(buffer) = <<buffer>> /\ out' = Append(out, buffer)
        BY <1>6, <3>2 DEF ChunkerFlush, Left
      <4>2. Append(out, buffer) = out \o <<buffer>>
        BY <1>1, <1>4, AppendIsConcat
      <4> QED BY <4>1, <4>2
    <3> QED BY <3>1, <3>2
  <2> QED BY <1>4, <1>6, <2>3, <2>4 DEF ChunkerFlush, Closed
<1> QED BY <1>5, <1>6

\* Every step keeps it.
LEMMA PipelineKept ==
  ASSUME PipelineInv, [Next]_vars
  PROVE  PipelineInv'
<1> SUFFICES ASSUME kind' \in {"pieces", "chain"}
             PROVE  PipelineInv'
  BY DEF PipelineInv
<1>1. kind' = kind
  BY KindFixed
<1>2. /\ state \in {"open", "flushed"}
      /\ state = "open" => Handed
      /\ state = "flushed" => out = Pieces(fed, ChunkSize) /\ buffer = <<>>
  BY <1>1 DEF PipelineInv
<1>3. ASSUME NEW chunk \in Chunks, kind = "pieces", ChunkerDecode(chunk)
      PROVE  PipelineInv'
  <2>1. chunk \in Seq(Symbols)
    BY <1>3, ChunksAreSequences DEF Alphabet
  <2>2. state = "open" /\ state' = state
    BY <1>3 DEF ChunkerDecode, Feed
  <2>3. Handed'
    BY <1>2, <1>3, <2>1, <2>2, ChunkerHands
  <2> QED BY <2>2, <2>3 DEF PipelineInv
<1>4. ASSUME NEW chunk \in Chunks, kind = "chain", ChainDecode(chunk)
      PROVE  PipelineInv'
  <2>1. chunk \in Seq(Symbols)
    BY <1>4, ChunksAreSequences DEF Alphabet
  <2>2. state = "open" /\ state' = state
    BY <1>4 DEF ChainDecode, Feed
  <2>3. Handed'
    BY <1>2, <1>4, <2>1, <2>2, ChainHands
  <2> QED BY <2>2, <2>3 DEF PipelineInv
<1>5. CASE ChunkerFlush \/ ChainFlush
  <2>1. state = "open"
    BY <1>5 DEF ChunkerFlush, ChainFlush, Closed
  <2>2. fed' = fed /\ state' = "flushed" /\ out' = Pieces(fed, ChunkSize) /\ buffer' = <<>>
    BY <1>1, <1>2, <1>5, <2>1, LastPieces
  <2> QED BY <1>2, <2>2 DEF PipelineInv
<1>6. CASE UNCHANGED vars
  <2>1. UNCHANGED <<kind, fed, out, buffer, inner, held, state>>
    BY <1>6 DEF vars
  <2> QED BY <1>1, <1>2, <2>1 DEF PipelineInv, Handed
<1> QED BY <1>1, <1>3, <1>4, <1>5, <1>6, DecoderSteps

\* Nothing is handed out yet.
LEMMA PipelineStarts == Init => PipelineInv
<1> SUFFICES ASSUME Init PROVE PipelineInv
  OBVIOUS
<1>1. fed = <<>> /\ out = <<>> /\ buffer = <<>> /\ inner = <<>> /\ held = <<>> /\ state = "open"
  BY DEF Init
<1>2. <<>> \o (<<>> \o <<>>) = <<>>
  BY ConcatEmptySeq
<1>3. 0 * ChunkSize = 0 /\ ChunkSize \in Nat \ {0} /\ Len(<<>>) = 0
  BY SizesAssumption
<1>4. Whole(<<>>, 0) = <<>> /\ After(<<>>, 0) = <<>>
  BY <1>3 DEF Whole, After
<1>5. HandedOut(<<>>, <<>>, <<>>)
  BY <1>3, <1>4 DEF HandedOut, Fits
<1>6. Handed
  BY <1>1, <1>2, <1>3, <1>5 DEF Handed
<1> QED BY <1>1, <1>6 DEF PipelineInv

\* It says what was to be shown.
LEMMA PipelineShows == PipelineInv => PipelineExact
<1> SUFFICES ASSUME PipelineInv, kind \in {"pieces", "chain"}
             PROVE  /\ IsPrefix(out, Pieces(fed, ChunkSize))
                    /\ state = "flushed" => out = Pieces(fed, ChunkSize)
                    /\ kind = "pieces" =>
                         Len(buffer) < ChunkSize /\ (state = "open" => Len(out) = Len(fed) \div ChunkSize)
  BY DEF PipelineExact
<1>1. state \in {"open", "flushed"} /\ ChunkSize \in Nat \ {0}
  BY SizesAssumption DEF PipelineInv
<1>2. CASE state = "flushed"
  <2>1. out = Pieces(fed, ChunkSize) /\ buffer = <<>> /\ Len(buffer) = 0
    BY <1>2 DEF PipelineInv
  <2>2. IsPrefix(out, out)
    BY <2>1 DEF IsPrefix, Pieces
  <2> QED BY <1>1, <1>2, <2>1, <2>2
<1>3. CASE state = "open"
  <2>1. Handed
    BY <1>3 DEF PipelineInv
  <2>2. buffer \in Seq(Symbols) /\ inner \in Seq(Symbols) /\ held \in Seq(Symbols) /\ Len(buffer) < ChunkSize
    BY <2>1 DEF Handed
  <2>3. PICK w : w = buffer \o (inner \o held)
    OBVIOUS
  <2>4. w \in Seq(Symbols) /\ HandedOut(fed, out, w)
    BY <2>1, <2>2, <2>3, Closes DEF Handed
  <2>5. /\ Pieces(fed, ChunkSize) = out \o Pieces(w, ChunkSize)
        /\ Pieces(w, ChunkSize) \in Seq(Seq(Symbols))
        /\ out \in Seq(Seq(Symbols)) /\ Len(out) * ChunkSize + Len(w) = Len(fed)
    BY <2>4, Ends
  <2>6. IsPrefix(out, Pieces(fed, ChunkSize))
    BY <2>5, Extends
  <2>7. kind = "pieces" => Len(out) = Len(fed) \div ChunkSize
    <3> SUFFICES ASSUME kind = "pieces" PROVE Len(out) = Len(fed) \div ChunkSize
      OBVIOUS
    <3>1. w = buffer
      <4>1. inner = <<>> /\ held = <<>>
        BY <2>1 DEF Handed
      <4> QED BY <2>2, <2>3, <4>1, ConcatEmptySeq
    <3>2. Len(out) \in Nat /\ Len(w) \in Nat /\ Len(w) < ChunkSize
      BY <2>2, <2>4, <2>5, <3>1, LenProperties
    <3>3. Len(out) * ChunkSize \in Nat
      BY <1>1, <3>2, Distributes
    <3>4. PICK n, m : n = Len(out) /\ m = Len(fed)
      OBVIOUS
    <3>5. n \in Nat /\ m \in Nat /\ n * ChunkSize <= m /\ m < n * ChunkSize + ChunkSize
      BY <1>1, <2>5, <3>2, <3>3, <3>4
    <3>6. m \div ChunkSize = n
      BY <1>1, <3>5, QuotientIs
    <3> QED BY <3>4, <3>6
  <2> QED BY <1>3, <2>2, <2>6, <2>7
<1> QED BY <1>1, <1>2, <1>3

\* However a body is cut, and whatever each decoder of a chain keeps back, its
\* pieces come out in order and whole, all of them once the chain is flushed;
\* without decoders nothing is held back beyond a piece.
THEOREM PipelineExactHolds == Spec => []PipelineExact
<1>1. Init => PipelineInv
  BY PipelineStarts
<1>2. PipelineInv /\ [Next]_vars => PipelineInv'
  BY PipelineKept
<1>3. PipelineInv => PipelineExact
  BY PipelineShows
<1> QED BY <1>1, <1>2, <1>3, PTL DEF Spec

-----------------------------------------------------------------------------

(***************************************************************************)
(* Reading the body of a request.                                          *)
(***************************************************************************)

\* u iterates the stream.
Busy(u) == doing[u].for # "nothing"

Items == {"head", "data", "tail", "end"} \X Nat

\* What an iteration goes through; no item of it is a file if the body has none.
LEMMA PlanTyped ==
  ASSUME NEW b \in Bodies
  PROVE  /\ Plan(b) \in Seq(Items)
         /\ FilesOf(b) = {} => \A i \in 1..Len(Plan(b)) : ~IsFile(b, Plan(b)[i])
         /\ b.form \in {"bytes", "iterable", "multipart"}
         /\ b.form = "bytes" => FilesOf(b) = {}
<1> DEFINE n == Len(b.parts)
<1>1. b.form \in {"bytes", "iterable", "multipart"}
  BY DEF Bodies
<1>2. /\ n \in Nat /\ \A j \in 1..n : b.parts[j] \in Range(b.parts)
      /\ b.form # "multipart" => n = 1
      /\ b.form = "bytes" => Range(b.parts) = {"value"}
  <2>1. CASE b = [form |-> "bytes", parts |-> <<"value">>]
    BY <2>1 DEF Range
  <2>2. CASE b \in [form : {"iterable"}, parts : {<<f>> : f \in Files}]
    BY <2>2 DEF Range
  <2>3. CASE b \in [form : {"multipart"}, parts : SeqOf(Files \union {"value"}, 2) \ {<<>>}]
    <3>1. PICK m \in 0..2 : b.parts \in [1..m -> Files \union {"value"}]
      BY <2>3 DEF SeqOf
    <3> QED BY <2>3, <3>1 DEF Range
  <2> QED BY <2>1, <2>2, <2>3 DEF Bodies
<1>3. b.form = "bytes" => FilesOf(b) = {}
  BY <1>2, FilesAssumption DEF FilesOf
<1>4. \A j \in 1..n : FilesOf(b) = {} => b.parts[j] \notin Files
  BY <1>2 DEF FilesOf
<1> HIDE DEF n
<1>5. CASE b.form # "multipart"
  <2>1. Plan(b) = <<<<"data", 1>>>>
    BY <1>5 DEF Plan
  <2>2. Plan(b) \in Seq(Items) /\ Len(Plan(b)) = 1 /\ Plan(b)[1] = <<"data", 1>>
    BY <2>1 DEF Items
  <2>3. FilesOf(b) = {} => ~IsFile(b, <<"data", 1>>)
    BY <1>2, <1>4, <1>5 DEF IsFile
  <2> QED BY <1>1, <1>3, <2>2, <2>3
<1>6. CASE b.form = "multipart"
  <2> DEFINE main == [i \in 1..(3 * n) |-> <<<<"head", "data", "tail">>[((i - 1) % 3) + 1], ((i - 1) \div 3) + 1>>]
  <2>1. Plan(b) = main \o <<<<"end", 0>>>>
    BY <1>6 DEF Plan, n
  <2>2. \A i \in 1..(3 * n) : /\ ((i - 1) % 3) + 1 \in 1..3
                              /\ ((i - 1) \div 3) + 1 \in 1..n
    BY <1>2
  <2>3. \A k \in 1..3 : <<"head", "data", "tail">>[k] \in {"head", "data", "tail", "end"}
    OBVIOUS
  <2>4. \A i \in 1..(3 * n) : main[i] \in Items /\ main[i][2] \in 1..n
    BY <2>2, <2>3 DEF Items
  <2>5. main \in [1..(3 * n) -> Items]
    BY <2>4
  <2>6. 3 * n \in Nat
    BY <1>2
  <2> HIDE DEF main
  <2>7. main \in Seq(Items) /\ Len(main) = 3 * n
    BY <2>5, <2>6, LenProperties
  <2>8. <<<<"end", 0>>>> \in Seq(Items) /\ Len(<<<<"end", 0>>>>) = 1
    BY DEF Items
  <2>9. /\ Plan(b) \in Seq(Items) /\ Len(Plan(b)) = 3 * n + 1
        /\ \A i \in 1..(3 * n + 1) : Plan(b)[i] = IF i <= 3 * n THEN main[i] ELSE <<<<"end", 0>>>>[i - 3 * n]
    BY <2>1, <2>7, <2>8, ConcatProperties
  <2>10. ASSUME FilesOf(b) = {}, NEW i \in 1..(3 * n + 1)
         PROVE  ~IsFile(b, Plan(b)[i])
    <3>1. CASE i <= 3 * n
      <4>1. Plan(b)[i] = main[i] /\ main[i][2] \in 1..n
        BY <2>4, <2>6, <2>9, <3>1
      <4> QED BY <1>4, <2>10, <4>1 DEF IsFile
    <3>2. CASE i > 3 * n
      <4>1. i = 3 * n + 1 /\ i - 3 * n = 1 /\ ~(i <= 3 * n)
        BY <2>6, <3>2
      <4>2. Plan(b)[i] = <<"end", 0>>
        BY <2>9, <4>1
      <4> QED BY <4>2 DEF IsFile
    <3> QED BY <2>6, <3>1, <3>2
  <2> QED BY <1>1, <1>3, <2>9, <2>10
<1> QED BY <1>5, <1>6

\* Up to the first iteration there is nothing else to go wrong; a second one, of
\* a body without files, gives the same again.
FreezeInv ==
    /\ body \in Bodies
    /\ begun \in Nat
    /\ doing = [u \in Users |-> [for |-> doing[u].for, item |-> doing[u].item, got |-> doing[u].got]]
    /\ begun = 0 => \A u \in Users : ~Busy(u)
    /\ begun <= 1 =>
         /\ \A u, v \in Users : Busy(u) /\ Busy(v) => u = v
         /\ content # None => \A u \in Users : ~Busy(u)
    /\ body.form = "iterable" => begun <= 1 /\ (begun = 1 => consumed)
    /\ FilesOf(body) = {} =>
         /\ \A u \in Users : Busy(u) =>
              /\ doing[u].item \in 1..(Len(Plan(body)) + 1)
              /\ doing[u].got = SubSeq(Plan(body), 1, doing[u].item - 1)
         /\ content # None => (\A u \in Users : ~Busy(u)) \/ content = Plan(body)

\* Nothing is iterated yet.
LEMMA FreezeStarts == UploadInit => FreezeInv
<1> SUFFICES ASSUME UploadInit PROVE FreezeInv
  OBVIOUS
<1>1. Idle = [for |-> Idle.for, item |-> Idle.item, got |-> Idle.got] /\ Idle.for = "nothing"
  BY DEF Idle
<1>2. doing = [u \in Users |-> Idle] /\ body \in Bodies /\ begun = 0
  BY DEF UploadInit
<1>3. \A u \in Users : ~Busy(u)
  BY <1>1, <1>2 DEF Busy
<1> QED BY <1>1, <1>2, <1>3 DEF FreezeInv

\* Without files, an iteration goes through the plan item by item.
LEMMA AheadIs ==
  ASSUME FreezeInv, FilesOf(body) = {}, NEW u \in Users, Busy(u)
  PROVE  /\ Ahead(u) = doing[u].item..Len(Plan(body))
         /\ Ahead(u) # {} => Min(Ahead(u)) = doing[u].item /\ doing[u].item \in 1..Len(Plan(body))
         /\ Ahead(u) = {} => doing[u].got = Plan(body)
<1>1. /\ Plan(body) \in Seq(Items)
      /\ \A i \in 1..Len(Plan(body)) : ~IsFile(body, Plan(body)[i])
  BY PlanTyped DEF FreezeInv
<1>2. /\ doing[u].item \in 1..(Len(Plan(body)) + 1)
      /\ doing[u].got = SubSeq(Plan(body), 1, doing[u].item - 1)
  BY DEF FreezeInv
<1>3. PICK k, p : k = doing[u].item /\ p = Plan(body)
  OBVIOUS
<1>4. Len(p) \in Nat /\ k \in 1..(Len(p) + 1)
  BY <1>1, <1>2, <1>3, LenProperties
<1>5. Ahead(u) = k..Len(p)
  BY <1>1, <1>3, <1>4 DEF Ahead
<1>6. ASSUME Ahead(u) # {} PROVE Min(Ahead(u)) = k /\ k \in 1..Len(p)
  <2>1. k \in k..Len(p) /\ k \in 1..Len(p)
    BY <1>4, <1>5, <1>6
  <2>2. \A y \in k..Len(p) : k <= y
    BY <1>4
  <2>3. \A x \in k..Len(p) : (\A y \in k..Len(p) : x <= y) => x = k
    BY <1>4, <2>1
  <2> QED BY <1>5, <2>1, <2>2, <2>3 DEF Min
<1>7. ASSUME Ahead(u) = {} PROVE doing[u].got = p
  <2>1. k = Len(p) + 1
    BY <1>4, <1>5, <1>7
  <2>2. k - 1 = Len(p)
    BY <1>4, <2>1
  <2>3. doing[u].got = SubSeq(p, 1, Len(p))
    BY <1>2, <1>3, <2>2
  <2> QED BY <1>1, <1>3, <2>3, SubSeqFull
<1> QED BY <1>3, <1>5, <1>6, <1>7

\* A prefix and the next item are the next prefix.
LEMMA OneMore ==
  ASSUME NEW S, NEW p \in Seq(S), NEW k \in 1..Len(p)
  PROVE  Append(SubSeq(p, 1, k - 1), p[k]) = SubSeq(p, 1, k + 1 - 1)
<1>1. SubSeq(p, 1, k) = SubSeq(p, 1, k - 1) \o <<p[k]>>
  BY SubSeqRecursiveSecond
<1>2. SubSeq(p, 1, k - 1) \in Seq(S) /\ p[k] \in S
  BY ElementOfSeq
<1>3. Append(SubSeq(p, 1, k - 1), p[k]) = SubSeq(p, 1, k - 1) \o <<p[k]>>
  BY <1>2, AppendIsConcat
<1>4. k + 1 - 1 = k
  OBVIOUS
<1> QED BY <1>1, <1>3, <1>4

\* An iteration begins.
LEMMA Begins ==
  ASSUME FreezeInv, NEW u \in Users, NEW what \in {"send", "read"}, Begin(u, what)
  PROVE  FreezeInv'
<1>1. /\ body' = body /\ content' = content /\ content = None /\ begun' = begun + 1 /\ consumed'
      /\ body.form = "iterable" => ~consumed
      /\ doing' = [doing EXCEPT ![u] = [Idle EXCEPT !.for = what]]
  BY DEF Begin, Replayable, Consumed
<1>2. /\ doing = [v \in Users |-> [for |-> doing[v].for, item |-> doing[v].item, got |-> doing[v].got]]
      /\ begun \in Nat /\ body \in Bodies
  BY DEF FreezeInv
<1>3. \A v \in Users : doing'[v] = IF v = u THEN [for |-> what, item |-> 1, got |-> <<>>] ELSE doing[v]
  BY <1>1, <1>2 DEF Idle
<1>4. doing' = [v \in Users |-> [for |-> doing'[v].for, item |-> doing'[v].item, got |-> doing'[v].got]]
  BY <1>1, <1>2, <1>3
<1>5. begun' <= 1 => \A v \in Users : Busy(v)' => v = u
  BY <1>1, <1>2, <1>3 DEF Busy, FreezeInv
<1>6. body.form = "iterable" => begun' <= 1
  BY <1>1, <1>2 DEF FreezeInv
<1>7. ASSUME FilesOf(body) = {}, NEW v \in Users, Busy(v)'
      PROVE  doing'[v].item \in 1..(Len(Plan(body)) + 1) /\ doing'[v].got = SubSeq(Plan(body), 1, doing'[v].item - 1)
  <2>1. Len(Plan(body)) \in Nat
    BY <1>2, PlanTyped, LenProperties
  <2>2. CASE v = u
    <3>1. doing'[v].item = 1 /\ doing'[v].got = <<>>
      BY <1>3, <2>2
    <3> QED BY <2>1, <3>1
  <2>3. CASE v # u
    <3>1. doing'[v] = doing[v] /\ Busy(v)
      BY <1>3, <1>7, <2>3 DEF Busy
    <3> QED BY <1>7, <3>1 DEF FreezeInv
  <2> QED BY <2>2, <2>3
<1>8. FilesOf(body') = FilesOf(body) /\ Plan(body') = Plan(body)
  BY <1>1
<1>9. begun' \in Nat /\ begun' # 0
  BY <1>1, <1>2
<1>10. FilesOf(body) = {} =>
         /\ \A v \in Users : Busy(v)' =>
              /\ doing'[v].item \in 1..(Len(Plan(body)) + 1)
              /\ doing'[v].got = SubSeq(Plan(body), 1, doing'[v].item - 1)
         /\ content' # None => (\A v \in Users : ~Busy(v)') \/ content' = Plan(body)
  BY <1>1, <1>7
<1>11. begun' <= 1 =>
         /\ \A v, w \in Users : Busy(v)' /\ Busy(w)' => v = w
         /\ content' # None => \A v \in Users : ~Busy(v)'
  BY <1>1, <1>5
<1>12. body.form = "iterable" => begun' <= 1 /\ (begun' = 1 => consumed')
  BY <1>1, <1>6
<1> QED BY <1>1, <1>2, <1>4, <1>8, <1>9, <1>10, <1>11, <1>12 DEF FreezeInv

\* d gives each user a record, of these fields.
Shaped(d) == d = [v \in Users |-> [for |-> d[v].for, item |-> d[v].item, got |-> d[v].got]]

\* What it means to change two of them.
LEMMA TwoFields ==
  ASSUME NEW d, Shaped(d), NEW u \in Users, NEW k, NEW g
  PROVE  [d EXCEPT ![u].item = k, ![u].got = g] =
             [v \in Users |-> IF v = u THEN [for |-> d[u].for, item |-> k, got |-> g] ELSE d[v]]
<1>1. d = [v \in Users |-> [for |-> d[v].for, item |-> d[v].item, got |-> d[v].got]]
  BY DEF Shaped
<1>2. PICK a : a = [d EXCEPT ![u].item = k]
  OBVIOUS
<1>3. d[u] = [for |-> d[u].for, item |-> d[u].item, got |-> d[u].got]
  BY <1>1
<1>4. [d[u] EXCEPT !.item = k] = [for |-> d[u].for, item |-> k, got |-> d[u].got]
  BY <1>3
<1>5. a = [v \in Users |-> IF v = u THEN [for |-> d[u].for, item |-> k, got |-> d[u].got] ELSE d[v]]
  BY <1>1, <1>2, <1>4
<1>6. [a[u] EXCEPT !.got = g] = [for |-> d[u].for, item |-> k, got |-> g]
  BY <1>5
<1>7. [a EXCEPT ![u].got = g] = [v \in Users |-> IF v = u THEN [for |-> d[u].for, item |-> k, got |-> g] ELSE d[v]]
  BY <1>5, <1>6
<1> QED BY <1>2, <1>7

\* An iteration goes on.
LEMMA Pulls ==
  ASSUME FreezeInv, NEW u \in Users, Pull(u)
  PROVE  FreezeInv'
<1> DEFINE i == Min(Ahead(u))
           item == Plan(body)[i]
           f == body.parts[item[2]]
<1>1. /\ body' = body /\ content' = content /\ begun' = begun /\ consumed' = consumed
      /\ Busy(u) /\ Ahead(u) # {}
      /\ \/ IsFile(body, item) /\ doing' = [doing EXCEPT ![u].item = i, ![u].got = Append(@, <<f, at[f]>>)]
         \/ ~IsFile(body, item) /\ doing' = [doing EXCEPT ![u].item = i + 1, ![u].got = Append(@, item)]
  BY DEF Pull, Busy
<1>2. /\ doing = [v \in Users |-> [for |-> doing[v].for, item |-> doing[v].item, got |-> doing[v].got]]
      /\ begun \in Nat /\ body \in Bodies
  BY DEF FreezeInv
<1> HIDE DEF i, item, f
<1>3. PICK k, g : /\ IsFile(body, item) \/ (k = i + 1 /\ g = Append(doing[u].got, item))
                  /\ doing' = [doing EXCEPT ![u].item = k, ![u].got = g]
  <2>1. CASE IsFile(body, item)
    BY <1>1, <2>1
  <2>2. CASE ~IsFile(body, item)
    BY <1>1, <2>2
  <2> QED BY <2>1, <2>2
<1>4. doing' = [v \in Users |-> IF v = u THEN [for |-> doing[u].for, item |-> k, got |-> g] ELSE doing[v]]
  <2>1. doing = [v \in Users |-> [for |-> doing[v].for, item |-> doing[v].item, got |-> doing[v].got]]
    BY <1>2
  <2>2. PICK d : d = doing
    OBVIOUS
  <2>3. [d EXCEPT ![u].item = k, ![u].got = g] =
            [v \in Users |-> IF v = u THEN [for |-> d[u].for, item |-> k, got |-> g] ELSE d[v]]
    <3>1. Shaped(d)
      BY <2>1, <2>2 DEF Shaped
    <3> QED BY <3>1, TwoFields
  <2> QED BY <1>3, <2>2, <2>3
<1>5. \A v \in Users : doing'[v] = IF v = u THEN [for |-> doing[v].for, item |-> k, got |-> g] ELSE doing[v]
  BY <1>4
<1>6. doing' = [v \in Users |-> [for |-> doing'[v].for, item |-> doing'[v].item, got |-> doing'[v].got]]
  BY <1>2, <1>4
<1>7. ASSUME NEW v \in Users PROVE Busy(v)' <=> Busy(v)
  <2>1. CASE v = u
    <3>1. doing'[v] = [for |-> doing[v].for, item |-> k, got |-> g]
      BY <1>5, <2>1
    <3>2. doing'[v].for = doing[v].for
      BY <3>1
    <3> QED BY <3>2 DEF Busy
  <2>2. CASE v # u
    BY <1>5, <2>2 DEF Busy
  <2> QED BY <2>1, <2>2
<1>8. ASSUME FilesOf(body) = {}, NEW v \in Users, Busy(v)'
      PROVE  doing'[v].item \in 1..(Len(Plan(body)) + 1) /\ doing'[v].got = SubSeq(Plan(body), 1, doing'[v].item - 1)
  <2>1. CASE v = u
    <3>1. Plan(body) \in Seq(Items) /\ Len(Plan(body)) \in Nat
      BY <1>2, PlanTyped, LenProperties
    <3>2. i = doing[u].item /\ i \in 1..Len(Plan(body))
      BY <1>1, <1>8, AheadIs DEF i
    <3>3. doing[u].got = SubSeq(Plan(body), 1, i - 1)
      BY <1>1, <1>8, <3>2 DEF FreezeInv
    <3>4. ~IsFile(body, item)
      BY <1>2, <1>8, <3>2, PlanTyped DEF item
    <3>5. doing'[v].item = i + 1 /\ doing'[v].got = Append(SubSeq(Plan(body), 1, i - 1), Plan(body)[i])
      <4>1. k = i + 1 /\ g = Append(doing[u].got, item)
        BY <1>3, <3>4
      <4>2. doing'[v].item = k /\ doing'[v].got = g
        <5>1. doing'[v] = [for |-> doing[v].for, item |-> k, got |-> g]
          BY <1>5, <2>1
        <5> QED BY <5>1
      <4> QED BY <3>3, <4>1, <4>2 DEF item
    <3>6. Append(SubSeq(Plan(body), 1, i - 1), Plan(body)[i]) = SubSeq(Plan(body), 1, i + 1 - 1)
      BY <3>1, <3>2, OneMore
    <3>7. i + 1 \in 1..(Len(Plan(body)) + 1)
      BY <3>1, <3>2
    <3>8. doing'[v].item \in 1..(Len(Plan(body)) + 1)
      BY <3>5, <3>7
    <3>9. doing'[v].got = SubSeq(Plan(body), 1, doing'[v].item - 1)
      <4>1. PICK m : m = doing'[v].item
        OBVIOUS
      <4>2. m = i + 1
        BY <3>5, <4>1
      <4>3. m - 1 = i + 1 - 1 /\ i \in Nat
        BY <3>1, <3>2, <4>2
      <4> QED BY <3>5, <3>6, <4>1, <4>3
    <3> QED BY <3>8, <3>9
  <2>2. CASE v # u
    <3>1. doing'[v] = doing[v] /\ Busy(v)
      BY <1>5, <1>7, <1>8, <2>2
    <3> QED BY <1>8, <3>1 DEF FreezeInv
  <2> QED BY <2>1, <2>2
<1>9. FilesOf(body') = FilesOf(body) /\ Plan(body') = Plan(body)
  BY <1>1
<1>10. /\ begun' = 0 => \A v \in Users : ~Busy(v)'
      /\ begun' <= 1 =>
           /\ \A v, w \in Users : Busy(v)' /\ Busy(w)' => v = w
           /\ content' # None => \A v \in Users : ~Busy(v)'
  BY <1>1, <1>7 DEF FreezeInv
<1>11. FilesOf(body) = {} /\ content' # None => (\A v \in Users : ~Busy(v)') \/ content' = Plan(body)
  BY <1>1, <1>7 DEF FreezeInv
<1>12. body.form = "iterable" => begun' <= 1 /\ (begun' = 1 => consumed')
  BY <1>1 DEF FreezeInv
<1> QED BY <1>1, <1>2, <1>6, <1>8, <1>9, <1>10, <1>11, <1>12 DEF FreezeInv

\* An iteration ends, with or without the content changing.
LEMMA Stops ==
  ASSUME FreezeInv, NEW u \in Users, Busy(u), Stop(u),
         body' = body, begun' = begun, consumed' = consumed,
         \/ content' = content
         \/ Ahead(u) = {} /\ content' = doing[u].got
  PROVE  FreezeInv'
<1>1. /\ doing = [v \in Users |-> [for |-> doing[v].for, item |-> doing[v].item, got |-> doing[v].got]]
      /\ begun \in Nat /\ body \in Bodies
  BY DEF FreezeInv
<1>2. \A v \in Users : doing'[v] = IF v = u THEN Idle ELSE doing[v]
  BY <1>1 DEF Stop
<1>3. doing' = [v \in Users |-> [for |-> doing'[v].for, item |-> doing'[v].item, got |-> doing'[v].got]]
  BY <1>1, <1>2 DEF Stop, Idle
<1>4. \A v \in Users : Busy(v)' <=> Busy(v) /\ v # u
  BY <1>2 DEF Busy, Idle
<1>5. /\ begun' = 0 => \A v \in Users : ~Busy(v)'
      /\ begun' <= 1 => \A v \in Users : ~Busy(v)'
  BY <1>1, <1>4 DEF FreezeInv
<1>6. ASSUME FilesOf(body) = {}, NEW v \in Users, Busy(v)'
      PROVE  doing'[v].item \in 1..(Len(Plan(body)) + 1) /\ doing'[v].got = SubSeq(Plan(body), 1, doing'[v].item - 1)
  BY <1>2, <1>4, <1>6 DEF FreezeInv
<1>7. ASSUME FilesOf(body) = {}, content' # None
      PROVE  (\A v \in Users : ~Busy(v)') \/ content' = Plan(body)
  <2>1. CASE content' = content
    BY <1>4, <1>7, <2>1 DEF FreezeInv
  <2>2. CASE Ahead(u) = {} /\ content' = doing[u].got
    BY <1>7, <2>2, AheadIs
  <2> QED BY <2>1, <2>2
<1>8. FilesOf(body') = FilesOf(body) /\ Plan(body') = Plan(body)
  OBVIOUS
<1>9. body.form = "iterable" => begun' <= 1 /\ (begun' = 1 => consumed')
  BY DEF FreezeInv
<1> QED BY <1>1, <1>3, <1>5, <1>6, <1>7, <1>8, <1>9 DEF FreezeInv

\* Every step keeps it.
LEMMA FreezeKept ==
  ASSUME FreezeInv, [UploadNext]_uploadVars
  PROVE  FreezeInv'
<1>1. CASE \E u \in Users : Begin(u, "send") \/ Begin(u, "read")
  BY <1>1, Begins
<1>2. CASE \E u \in Users : Pull(u)
  BY <1>2, Pulls
<1>3. CASE \E u \in Users : Uploaded(u) \/ ReadDone(u) \/ Break(u)
  <2>1. PICK u \in Users : Uploaded(u) \/ ReadDone(u) \/ Break(u)
    BY <1>3
  <2>2. /\ Busy(u) /\ Stop(u) /\ body' = body /\ begun' = begun /\ consumed' = consumed
        /\ content' = content \/ (Ahead(u) = {} /\ content' = doing[u].got)
    BY <2>1 DEF Uploaded, ReadDone, Break, Busy
  <2> QED BY <2>2, Stops
<1>4. CASE UNCHANGED <<body, begun, consumed, content, doing>>
  BY <1>4 DEF FreezeInv, Busy
<1>5. \/ \E u \in Users : Begin(u, "send") \/ Begin(u, "read") \/ Pull(u) \/ Uploaded(u) \/ ReadDone(u) \/ Break(u)
      \/ UNCHANGED <<body, begun, consumed, content, doing>>
  BY DEF UploadNext, SendBytes, Refused, Touch, Unused, uploadVars
<1> QED BY <1>1, <1>2, <1>3, <1>4, <1>5

\* What a step does once there is content.
LEMMA Frozen ==
  ASSUME FreezeInv, [UploadNext]_uploadVars, content # None, ~Muddled
  PROVE  content' = content /\ refused' = refused /\ sent' \in {sent, content}
<1>1. ASSUME NEW u \in Users, Uploaded(u) \/ ReadDone(u)
      PROVE  doing[u].got = content
  <2>1. Busy(u) /\ Ahead(u) = {}
    BY <1>1 DEF Uploaded, ReadDone, Busy
  <2>2. begun \in Nat /\ body \in Bodies
    BY DEF FreezeInv
  <2>3. ~(begun <= 1)
    BY <2>1 DEF FreezeInv
  <2>4. FilesOf(body) = {}
    BY <2>2, <2>3, PlanTyped DEF FreezeInv, Muddled
  <2>5. content = Plan(body)
    BY <2>1, <2>4 DEF FreezeInv
  <2> QED BY <2>1, <2>4, <2>5, AheadIs
<1>2. CASE \E u \in Users : Uploaded(u) \/ ReadDone(u)
  BY <1>1, <1>2 DEF Uploaded, ReadDone
<1>3. CASE SendBytes
  BY <1>3 DEF SendBytes
<1>4. \/ SendBytes \/ \E u \in Users : Uploaded(u) \/ ReadDone(u)
      \/ UNCHANGED <<content, refused, sent>>
  BY DEF UploadNext, Begin, Refused, Replayable, Pull, Break, Touch, Unused, uploadVars
<1> QED BY <1>2, <1>3, <1>4

\* Once a read() has ended, every upload that ends carries what it returned, and
\* none is refused: Request.read (_models.py:92-93) makes the body replayable.
THEOREM ReadFreezesHolds == UploadSpec => ReadFreezes
<1>1. UploadInit => FreezeInv
  BY FreezeStarts
<1>2. FreezeInv /\ [UploadNext]_uploadVars => FreezeInv'
  BY FreezeKept
<1>3. FreezeInv /\ [UploadNext]_uploadVars =>
        [content # None /\ ~Muddled =>
           content' = content /\ refused' = refused /\ sent' \in {sent, content}]_uploadVars
  BY Frozen
<1> QED BY <1>1, <1>2, <1>3, PTL DEF UploadSpec, ReadFreezes
=============================================================================
