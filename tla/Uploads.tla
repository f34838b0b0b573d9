------------------------------ MODULE Uploads ------------------------------
(***************************************************************************)
(* The body of one Request: src/punkreq/_content.py, _multipart.py and     *)
(* Request in _models.py.  Its framing is decided when the request is      *)
(* built, its bytes are read when it is sent, which may be much later, more *)
(* than once (a retry, the caller sending the request again), or by several *)
(* tasks at a time; the files in it are the caller's, who may use them too. *)
(*                                                                         *)
(* A body is a sequence of chunks; a length counts them.                   *)
(***************************************************************************)
EXTENDS Naturals, Sequences, SequencesExt, FiniteSetsExt

CONSTANTS
    Users,      \* tasks that send or read the request
    Files,      \* open files, and generators, that a body may be made of
    Sized,      \* those of them whose length can be found out
    FileLength, \* chunks in each file
    None,
    MaxBegun    \* bound: how often the body is iterated

ASSUME FilesAssumption ==
    Sized \subseteq Files /\ "value" \notin Files /\ FileLength \in Nat /\ MaxBegun \in Nat

\* What a body is made of: "bytes" (raw, JSON or a form), one iterable, or the
\* fields of a multipart form, each a value or a file.
Bodies ==
    {[form |-> "bytes", parts |-> <<"value">>]}
        \union [form : {"iterable"}, parts : {<<f>> : f \in Files}]
        \union [form : {"multipart"}, parts : SeqOf(Files \union {"value"}, 2) \ {<<>>}]

VARIABLES
    body,     \* what the caller gave
    framing,  \* the declared Content-Length; None: chunked
    intended, \* the content as it was when the request was built
    consumed, \* _is_stream_consumed
    content,  \* _content; if there is one, the stream is a ByteStream of it
    at,       \* for each file, how much of it has been read
    doing,    \* for each user, its iteration of the stream
    sent,     \* what the last completed upload carried; None: there was none
    refused,  \* a send has raised StreamConsumed
    begun,    \* iterations begun
    touched   \* somebody else moved a file of the body

uploadVars ==
    <<body, framing, intended, consumed, content, at, doing, sent, refused, begun, touched>>

-----------------------------------------------------------------------------

FilesOf(b) == Range(b.parts) \intersect Files

\* What an iteration of the stream goes through, part by part: a file is read
\* to its end, everything else is one chunk.
Plan(b) ==
    IF b.form = "multipart"
    THEN [i \in 1..(3 * Len(b.parts)) |->
              <<<<"head", "data", "tail">>[((i - 1) % 3) + 1], ((i - 1) \div 3) + 1>>]
             \o <<<<"end", 0>>>>
    ELSE <<<<"data", 1>>>>

IsFile(b, item) == item[1] = "data" /\ b.parts[item[2]] \in Files

\* peek_filelike_length
Remaining(position) == FileLength - position

Length(b, position) ==
    MapThenSumSet(LAMBDA i : IF IsFile(b, Plan(b)[i]) THEN Remaining(position[b.parts[Plan(b)[i][2]]]) ELSE 1,
                  DOMAIN Plan(b))

\* encode_content, MultipartStream.get_headers
Framing(b, position) ==
    IF FilesOf(b) \subseteq Sized THEN Length(b, position) ELSE None

FromFile(f, first) == [k \in 1..(FileLength - first) |-> <<f, first + k - 1>>]

ContentOf(b, position) ==
    FlattenSeq([i \in DOMAIN Plan(b) |->
        IF IsFile(b, Plan(b)[i])
        THEN LET f == b.parts[Plan(b)[i][2]] IN FromFile(f, position[f])
        ELSE <<Plan(b)[i]>>])

Idle == [for |-> "nothing", item |-> 1, got |-> <<>>]

UploadInit ==
    /\ body \in Bodies
    /\ at \in [Files -> 0..FileLength]
    /\ framing = Framing(body, at)
    /\ intended = ContentOf(body, at)
    /\ consumed = FALSE
    /\ content = IF body.form = "bytes" THEN intended ELSE None
    /\ doing = [u \in Users |-> Idle]
    /\ sent = None
    /\ refused = FALSE
    /\ begun = 0
    /\ touched = FALSE

-----------------------------------------------------------------------------

\* A slip: what read() returned is not what is sent from then on.
ReplayableFromTheStart == body.form = "bytes"

\* The stream is a ByteStream.
Replayable == content # None

\* A slip: an iterable may be iterated again.
NeverConsumed == FALSE

Consumed == body.form = "iterable" /\ consumed

\* A ByteStream is sent in one chunk, as often as one likes.
SendBytes ==
    /\ Replayable
    /\ sent' = content
    /\ UNCHANGED <<body, framing, intended, consumed, content, at, doing, refused, begun, touched>>

\* The upload, or Request.read, iterates the stream.
Begin(u, what) ==
    /\ doing[u].for = "nothing"
    /\ ~Replayable /\ ~Consumed
    /\ begun < MaxBegun
    /\ doing' = [doing EXCEPT ![u] = [Idle EXCEPT !.for = what]]
    /\ consumed' = TRUE
    /\ begun' = begun + 1
    /\ UNCHANGED <<body, framing, intended, content, at, sent, refused, touched>>

\* StreamConsumed
Refused(u) ==
    /\ doing[u].for = "nothing"
    /\ ~Replayable /\ Consumed
    /\ refused' = TRUE
    /\ UNCHANGED <<body, framing, intended, consumed, content, at, doing, sent, begun, touched>>

\* The items from the one an iteration is at that still have a chunk to give.
Ahead(u) ==
    {i \in doing[u].item..Len(Plan(body)) :
        IsFile(body, Plan(body)[i]) => at[body.parts[Plan(body)[i][2]]] < FileLength}

\* The next chunk: the rest of a file, read by read, or the next item.
Pull(u) ==
    /\ doing[u].for # "nothing" /\ Ahead(u) # {}
    /\ LET i == Min(Ahead(u))
           item == Plan(body)[i]
           f == body.parts[item[2]]
       IN IF IsFile(body, item)
          THEN /\ doing' = [doing EXCEPT ![u].item = i, ![u].got = Append(@, <<f, at[f]>>)]
               /\ at' = [at EXCEPT ![f] = @ + 1]
          ELSE /\ doing' = [doing EXCEPT ![u].item = i + 1, ![u].got = Append(@, item)]
               /\ UNCHANGED at
    /\ UNCHANGED <<body, framing, intended, consumed, content, sent, refused, begun, touched>>

Stop(u) == doing' = [doing EXCEPT ![u] = Idle]

Uploaded(u) ==
    /\ doing[u].for = "send" /\ Ahead(u) = {}
    /\ sent' = doing[u].got
    /\ Stop(u)
    /\ UNCHANGED <<body, framing, intended, consumed, content, at, refused, begun, touched>>

\* The stream is replaced by a ByteStream of what was read.
ReadDone(u) ==
    /\ doing[u].for = "read" /\ Ahead(u) = {}
    /\ content' = doing[u].got
    /\ Stop(u)
    /\ UNCHANGED <<body, framing, intended, consumed, at, sent, refused, begun, touched>>

\* The exchange fails, or the task is cancelled.
Break(u) ==
    /\ doing[u].for # "nothing"
    /\ Stop(u)
    /\ UNCHANGED <<body, framing, intended, consumed, content, at, sent, refused, begun, touched>>

\* Somebody else reads from a file of the body or rewinds it (bound: once).
Touch(f) ==
    /\ f \in FilesOf(body) /\ ~touched
    /\ \E p \in 0..FileLength :
        /\ f \notin Sized => p > at[f]
        /\ at' = [at EXCEPT ![f] = p]
    /\ touched' = TRUE
    /\ UNCHANGED <<body, framing, intended, consumed, content, doing, sent, refused, begun>>

\* Nobody sends the request again.
Unused == doing = [u \in Users |-> Idle] /\ UNCHANGED uploadVars

UploadNext ==
    \/ SendBytes \/ Unused
    \/ \E u \in Users :
        \/ Begin(u, "send") \/ Begin(u, "read") \/ Refused(u)
        \/ Pull(u) \/ Uploaded(u) \/ ReadDone(u) \/ Break(u)
    \/ \E f \in Files : Touch(f)

UploadSpec == UploadInit /\ [][UploadNext]_uploadVars

-----------------------------------------------------------------------------

\* A multipart body with files that has been iterated more than once: the files
\* are not rewound, and nothing refuses it.
Muddled == body.form = "multipart" /\ FilesOf(body) # {} /\ begun > 1

\* One file as two fields: the second gets nothing.
SharedFile == \E f \in Files : body.parts = <<f, f>>

\* While nobody else uses the files of a body, an upload that is completed carries
\* no more than the length declared; and all of the content that the request had
\* when it was built, once and in order, in exactly that length, sends that fail,
\* are retried or overlap notwithstanding, but for two kinds of multipart body: one
\* with files that has been iterated more than once, and one with the same file as
\* two fields (_content.py:63-106, 119-131; _multipart.py:130-160).
UploadExact ==
    sent # None /\ ~touched =>
        /\ framing # None => Len(sent) <= framing
        /\ ~Muddled /\ ~SharedFile => sent = intended /\ (framing # None => Len(sent) = framing)

\* "afterwards the body is replayable" (_models.py:90): once a read() has ended,
\* every upload that ends carries what it returned, and none is refused, whatever
\* becomes of the files; but for a multipart body with files that is iterated by
\* somebody else as well.
ReadFreezes ==
    [][content # None /\ ~Muddled =>
        content' = content /\ refused' = refused /\ sent' \in {sent, content}]_uploadVars
=============================================================================
