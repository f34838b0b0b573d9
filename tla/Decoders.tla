------------------------------ MODULE Decoders ------------------------------
(***************************************************************************)
(* The incremental decoders of src/punkreq/_decoders.py, each fed an input *)
(* in chunks cut anywhere: what comes out must not depend on the cuts.     *)
(*                                                                         *)
(* An input is a sequence of the symbols that its decoder tells apart.     *)
(* str.splitlines, zlib and zstd are modelled by what they do to those.    *)
(***************************************************************************)
EXTENDS Integers, Sequences, FiniteSets, SequencesExt

CONSTANTS
    ChunkSize,  \* of the ByteChunker and the TextChunker
    MaxChunk,   \* bound: the longest chunk fed
    MaxInput    \* bound: the longest input

ASSUME SizesAssumption == ChunkSize \in Nat \ {0} /\ MaxChunk \in Nat /\ MaxInput \in Nat

\* "lines": text; VT stands for every newline but LF and CR.  "pieces": bytes.
\* "zlib" and "deflate": the two flavours of deflate.  "zstd": bytes within a
\* frame, and the last one of a frame.  "chain": the content, as two decoders in
\* a row would give it back.
Alphabet == [lines |-> {"x", "LF", "CR", "VT"}, pieces |-> {"x"}, zlib |-> {"x"}, deflate |-> {"x"},
             zstd |-> {"in", "end"}, chain |-> {"x", "y"}]

VARIABLES
    kind,     \* which decoder this is
    fed,      \* all the input so far
    out,      \* all the output so far
    buffer,   \* _buffer
    flag,     \* _trailing_cr, _first_attempt or _at_frame_boundary
    mode,     \* what the zlib object expects: "zlib" or "deflate"
    held,     \* what the first decoder of a chain has not handed on yet
    inner,    \* and the second
    cuts,     \* the length of the first chunk, -1 before it
    state     \* "open", "flushed", or "failed" with a DecodingError

vars == <<kind, fed, out, buffer, flag, mode, held, inner, cuts, state>>

-----------------------------------------------------------------------------

(***************************************************************************)
(* str.splitlines: where each line of s ends, and the lines.               *)
(***************************************************************************)
Newlines == {"LF", "CR", "VT"}

EndsLine(i, s) == s[i] \in Newlines /\ ~(s[i] = "CR" /\ i < Len(s) /\ s[i + 1] = "LF")

LineEnds(s) == {i \in DOMAIN s : EndsLine(i, s) \/ i = Len(s)}

\* The k-th of a set of numbers.
Nth(ends, k) == CHOOSE i \in ends : Cardinality({j \in ends : j < i}) = k - 1

\* A line without the newline at its end, "\r\n" included.
Stripped(line) == SubSeq(line, 1, Cardinality({i \in DOMAIN line : line[i] \notin Newlines}))

SplitLines(s) ==
    LET ends == LineEnds(s)
        from(k) == IF k = 1 THEN 1 ELSE Nth(ends, k - 1) + 1
    IN [k \in 1..Cardinality(ends) |-> Stripped(SubSeq(s, from(k), Nth(ends, k)))]

\* s cut into pieces of n symbols, the last one shorter if need be.
Pieces(s, n) ==
    [k \in 1..((Len(s) + n - 1) \div n) |->
        SubSeq(s, (k - 1) * n + 1, IF k * n < Len(s) THEN k * n ELSE Len(s))]

-----------------------------------------------------------------------------

Init ==
    /\ kind \in DOMAIN Alphabet
    /\ fed = <<>>
    /\ out = <<>>
    /\ buffer = <<>>
    /\ flag = (kind \in {"zlib", "deflate", "zstd"})
    /\ mode = "zlib"
    /\ held = <<>>
    /\ inner = <<>>
    /\ cuts = -1
    /\ state = "open"

Feed(chunk) ==
    /\ state = "open"
    /\ Len(fed) + Len(chunk) <= MaxInput
    /\ fed' = fed \o chunk
    /\ cuts' = IF cuts = -1 THEN Len(chunk) ELSE cuts
    /\ kind # "chain" => UNCHANGED <<held, inner>>
    /\ UNCHANGED kind

Closed == state = "open" /\ state' = "flushed" /\ UNCHANGED <<kind, fed, mode, cuts>> /\ held' = <<>> /\ inner' = <<>>

(***************************************************************************)
(* LineDecoder.  Its buffer, a list of fragments of one line, is empty or  *)
(* stands for their concatenation; flag: a CR is held back, for the next   *)
(* chunk to tell whether it begins a CR LF.                                *)
(***************************************************************************)
\* A slip: the CR held back is dropped.
ForgetCr(chunk) == chunk

WithHeldCr(chunk) == IF flag THEN <<"CR">> \o chunk ELSE chunk

LineDecode(chunk) ==
    LET whole == WithHeldCr(chunk)
        holds == whole # <<>> /\ whole[Len(whole)] = "CR"
        text == IF holds THEN Front(whole) ELSE whole
        split == SplitLines(text)
        lines == <<buffer \o split[1]>> \o Tail(split)
        ended == text[Len(text)] \in Newlines
    IN
    /\ kind = "lines"
    /\ Feed(chunk)
    /\ flag' = holds
    /\ IF text = <<>> THEN UNCHANGED <<out, buffer>>
       ELSE /\ out' = out \o (IF ended THEN lines ELSE Front(lines))
            /\ buffer' = IF ended THEN <<>> ELSE lines[Len(lines)]
    /\ UNCHANGED <<mode, state>>

LineFlush ==
    /\ kind = "lines" /\ Closed
    /\ out' = IF buffer = <<>> /\ ~flag THEN out ELSE Append(out, buffer)
    /\ buffer' = <<>>
    /\ flag' = FALSE

(***************************************************************************)
(* ByteChunker and TextChunker.                                            *)
(***************************************************************************)
\* The last piece waits for more, unless it is whole.
RestOf(pieces) ==
    IF pieces = <<>> \/ Len(pieces[Len(pieces)]) = ChunkSize THEN <<>> ELSE pieces[Len(pieces)]

WholeOf(pieces) == IF RestOf(pieces) = <<>> THEN pieces ELSE Front(pieces)

ChunkerDecode(chunk) ==
    LET pieces == Pieces(buffer \o chunk, ChunkSize) IN
    /\ kind = "pieces"
    /\ Feed(chunk)
    /\ buffer' = RestOf(pieces)
    /\ out' = out \o WholeOf(pieces)
    /\ UNCHANGED <<flag, mode, state>>

ChunkerFlush ==
    /\ kind = "pieces" /\ Closed
    /\ out' = IF buffer = <<>> THEN out ELSE Append(out, buffer)
    /\ buffer' = <<>>
    /\ UNCHANGED flag

(***************************************************************************)
(* DeflateDecoder.  flag: no chunk has been decoded yet.  zlib finds out   *)
(* that raw deflate has no zlib header once it has two bytes of it.        *)
(***************************************************************************)
HeaderSeen == Len(fed') >= 2

\* A slip: only the zlib flavour is tried.
FallsBackNever == FALSE

FallsBack == flag

DeflateDecode(chunk) ==
    /\ kind \in {"zlib", "deflate"}
    /\ Feed(chunk)
    /\ flag' = FALSE
    /\ IF mode = kind \/ ~HeaderSeen
       THEN out' = out \o chunk /\ UNCHANGED <<mode, state>>
       ELSE IF kind = "deflate" /\ FallsBack
       THEN out' = out \o chunk /\ mode' = "deflate" /\ UNCHANGED state
       ELSE state' = "failed" /\ UNCHANGED <<out, mode>>
    /\ UNCHANGED buffer

DeflateFlush == kind \in {"zlib", "deflate"} /\ Closed /\ UNCHANGED <<out, buffer, flag>>

(***************************************************************************)
(* ZstdDecoder.  A decompressor handles one frame and leaves what follows  *)
(* it unused, for the next one; flag: no frame is begun.                   *)
(***************************************************************************)
\* A slip: the flag keeps its first value.
StaleBoundary(chunk) == flag

AtBoundary(chunk) == IF chunk = <<>> THEN flag ELSE chunk[Len(chunk)] = "end"

ZstdDecode(chunk) ==
    /\ kind = "zstd"
    /\ Feed(chunk)
    /\ flag' = AtBoundary(chunk)
    /\ out' = out \o chunk
    /\ UNCHANGED <<buffer, mode, state>>

\* A stream that ends within a frame is refused.
ZstdFlush ==
    /\ kind = "zstd" /\ state = "open"
    /\ state' = IF flag THEN "flushed" ELSE "failed"
    /\ UNCHANGED <<kind, fed, out, buffer, flag, mode, held, inner, cuts>>

(***************************************************************************)
(* Response._iter_bytes with several encodings, or _iter_text: decoders in *)
(* a row, then a chunker.  A decoder of a library may keep the end of its  *)
(* output back, until more input comes or it is flushed (brotli keeps      *)
(* nothing of a whole body, one case of this).                             *)
(***************************************************************************)
\* What a decoder that keeps some back can do with more data: <<handed on, kept>>.
HandOn(kept, data) ==
    LET whole == kept \o data IN
    {<<SubSeq(whole, 1, n), SubSeq(whole, n + 1, Len(whole))>> : n \in 0..Len(whole)}

\* A slip: what the first decoder gives up when it is flushed is lost.
FlushesApart == inner

\* The end of the first decoder's output still goes through the second.
Flushed == inner \o held

ChainDecode(chunk) ==
    /\ kind = "chain"
    /\ Feed(chunk)
    /\ \E first \in HandOn(held, chunk) : \E second \in HandOn(inner, first[1]) :
        LET pieces == Pieces(buffer \o second[1], ChunkSize) IN
        /\ held' = first[2]
        /\ inner' = second[2]
        /\ buffer' = RestOf(pieces)
        /\ out' = out \o WholeOf(pieces)
    /\ UNCHANGED <<flag, mode, state>>

ChainFlush ==
    /\ kind = "chain" /\ Closed
    /\ out' = out \o Pieces(buffer \o Flushed, ChunkSize)
    /\ buffer' = <<>>
    /\ UNCHANGED flag

-----------------------------------------------------------------------------

Chunks == UNION {[1..n -> Alphabet[kind]] : n \in 0..MaxChunk}

Decode == \E chunk \in Chunks :
    LineDecode(chunk) \/ ChunkerDecode(chunk) \/ DeflateDecode(chunk) \/ ZstdDecode(chunk)
    \/ ChainDecode(chunk)

Flush == LineFlush \/ ChunkerFlush \/ DeflateFlush \/ ZstdFlush \/ ChainFlush

Rest == state # "open" /\ UNCHANGED vars

Next == Decode \/ Flush \/ Rest

Spec == Init /\ [][Next]_vars

-----------------------------------------------------------------------------

\* The lines of a text are those of str.splitlines, however it is cut, "\r\n"
\* across two chunks included; before the end, all but what may still change is
\* out (_decoders.py:248-250).
LinesUncut ==
    kind = "lines" =>
        /\ state = "flushed" => out = SplitLines(fed)
        /\ state = "open" => IsPrefix(out, SplitLines(fed)) /\ Len(SplitLines(fed)) <= Len(out) + 1

\* Both flavours of deflate are decoded, "detected on the first chunk"
\* (_decoders.py:42-43), if that has the two bytes of a header.
DeflateDetected ==
    kind \in {"zlib", "deflate"} /\ state = "failed" => kind = "deflate" /\ cuts < 2

\* Concatenated frames are all decoded, and a stream that ends within one, and
\* only such a stream, is refused (_decoders.py:113-133).
TruncationRefused ==
    kind = "zstd" /\ state # "open" =>
        (state = "failed") = (fed # <<>> /\ fed[Len(fed)] = "in")

\* However a body is cut, and whatever each decoder of a chain keeps back, its
\* pieces come out in order and whole, and the last of them once the chain is
\* flushed; without decoders nothing is held back beyond a piece
\* (_decoders.py:150-198, _models.py:335-353).
PipelineExact ==
    kind \in {"pieces", "chain"} =>
        /\ IsPrefix(out, Pieces(fed, ChunkSize))
        /\ state = "flushed" => out = Pieces(fed, ChunkSize)
        /\ kind = "pieces" => Len(buffer) < ChunkSize /\ (state = "open" => Len(out) = Len(fed) \div ChunkSize)
=============================================================================
