------------------------------- MODULE Stream -------------------------------
(***************************************************************************)
(* Reading and closing one response: Response (src/punkreq/_models.py) over *)
(* the _PooledStream of src/punkreq/_transport.py, which gives the          *)
(* connection back to the pool.                                             *)
(*                                                                          *)
(* A chain is what an iter_* method hands out: async generators nested down *)
(* to the stream's.  It is driven by one task at a time, and is suspended   *)
(* in between.  A step is what a task does from one await to the next.      *)
(***************************************************************************)
EXTENDS Naturals

CONSTANTS
    Tasks,    \* tasks that use the response
    Chains,   \* iterator objects
    None

ASSUME NoneAssumption == None \notin Tasks \union Chains

VARIABLES
    content,    \* whether Response._content is set
    closed,     \* Response.is_closed
    consumed,   \* Response.is_stream_consumed
    slot,       \* Response._body_iterator
    chain,      \* "new"; "open": suspended or running in the body; "tail": in what
                \* iter_raw's chunker held back, before its finally; "rest": in what
                \* the others held back, after it; "done"
    strayed,    \* the open chains that the slot lost: another one pushed it out, or
                \* close() came while it was running
    finalized,  \* _PooledStream._finalized
    complete,   \* _PooledStream._complete
    wire,       \* the body: "more" to come, "ended", "aborted", or "torn" by a
                \* teardown that was cut short
    released,   \* how often the connection was given back to the pool
    kept,       \* whether it was given back with discard=False
    finished,   \* how often the finish callbacks fired
    pc,         \* where each task is
    on,         \* the chain it holds or drives
    reading,    \* whether it drives it for read(), else for a caller's loop
    failed,     \* whether the chain unwinds on an exception
    discard     \* the local of _PooledStream.close

response == <<content, closed, consumed, slot, chain, strayed>>
stream == <<finalized, complete, wire, released, kept, finished>>
task == <<pc, on, reading, failed, discard>>
vars == <<response, stream, task>>

-----------------------------------------------------------------------------

Init ==
    /\ content = FALSE
    /\ closed = FALSE
    /\ consumed = FALSE
    /\ slot = None
    /\ chain = [k \in Chains |-> "done"]
    /\ strayed = {}
    /\ finalized = FALSE
    /\ complete = FALSE
    /\ wire = "more"
    /\ released = 0
    /\ kept = FALSE
    /\ finished = 0
    /\ pc = [t \in Tasks |-> "idle"]
    /\ on = [t \in Tasks |-> None]
    /\ reading = [t \in Tasks |-> FALSE]
    /\ failed = [t \in Tasks |-> FALSE]
    /\ discard = [t \in Tasks |-> FALSE]

\* An iterator object nobody refers to any more.
Fresh(k) == chain[k] \in {"new", "done"} /\ k # slot /\ \A t \in Tasks : on[t] # k

\* ag_running
Running(k) == \E t \in Tasks : on[t] = k /\ pc[t] \in {"pull", "unwind", "abort", "release"}

\* `self._body_iterator = k`
Install(k) ==
    /\ slot' = k
    /\ strayed' = (strayed \ {k}) \union {j \in {slot} \ {None} : chain[j] # "done"}

\* The task's call returns or raises.
Leave(t) ==
    /\ pc' = [pc EXCEPT ![t] = "idle"]
    /\ on' = [on EXCEPT ![t] = None]
    /\ failed' = [failed EXCEPT ![t] = FALSE]
    /\ discard' = [discard EXCEPT ![t] = FALSE]

\* The guards of _iter_raw; failing them, it raises before it owns anything.
MayStart == ~consumed /\ ~closed

(***************************************************************************)
(* iter_bytes, iter_raw, iter_text, iter_lines: the iterator is handed out *)
(* at the call, and started when it is first asked for a chunk.            *)
(***************************************************************************)
Iter(t) ==
    /\ pc[t] = "idle"
    /\ \E k \in Chains :
         /\ Fresh(k)
         /\ Install(k)
         /\ chain' = [chain EXCEPT ![k] = "new"]
         /\ on' = [on EXCEPT ![t] = k]
    /\ pc' = [pc EXCEPT ![t] = "held"]
    /\ reading' = [reading EXCEPT ![t] = FALSE]
    /\ UNCHANGED <<content, closed, consumed, stream, failed, discard>>

\* (Refused, the caller gets an exception, or the content that read() kept.)
Start(t) ==
    /\ pc[t] = "held" /\ chain[on[t]] = "new"
    /\ IF MayStart
       THEN /\ consumed' = TRUE
            /\ chain' = [chain EXCEPT ![on[t]] = "open"]
            /\ pc' = [pc EXCEPT ![t] = "pull"]
            /\ UNCHANGED <<on, failed, discard>>
       ELSE /\ chain' = [chain EXCEPT ![on[t]] = "done"]
            /\ Leave(t)
            /\ UNCHANGED consumed
    /\ UNCHANGED <<content, closed, slot, strayed, stream, reading>>

\* read(), text(), json(): an iterator handed out and started at once.
Read(t) ==
    /\ pc[t] = "idle" /\ ~content
    /\ \E k \in Chains :
         /\ Fresh(k)
         /\ Install(k)
         /\ IF MayStart
            THEN /\ consumed' = TRUE
                 /\ chain' = [chain EXCEPT ![k] = "open"]
                 /\ on' = [on EXCEPT ![t] = k]
                 /\ pc' = [pc EXCEPT ![t] = "pull"]
            ELSE UNCHANGED <<consumed, chain, on, pc>>
    /\ reading' = [reading EXCEPT ![t] = TRUE]
    /\ UNCHANGED <<content, closed, stream, failed, discard>>

\* The loop asks for the next chunk.
Resume(t) ==
    /\ pc[t] = "held" /\ chain[on[t]] = "open" /\ ~Running(on[t])
    /\ pc' = [pc EXCEPT ![t] = "pull"]
    /\ UNCHANGED <<response, stream, on, reading, failed, discard>>

\* The caller breaks out of its loop; or asks a chain that was closed, or is
\* being closed, for a chunk, and is told that there is none.
Abandon(t) ==
    /\ pc[t] = "held"
    /\ Leave(t)
    /\ UNCHANGED <<response, stream, reading>>

(***************************************************************************)
(* _PooledStream._iterate: one chunk, bounded by the read timeout and the  *)
(* total deadline.                                                         *)
(***************************************************************************)

\* A chunk for the caller's loop.  read() asks for the next one at once.
PullChunk(t) ==
    /\ pc[t] = "pull" /\ wire \in {"more", "torn"} /\ ~reading[t]
    /\ pc' = [pc EXCEPT ![t] = "held"]
    /\ UNCHANGED <<response, stream, on, reading, failed, discard>>

PullEnd(t) ==
    /\ pc[t] = "pull" /\ wire \in {"more", "torn"}
    /\ wire' = "ended"
    /\ complete' = TRUE
    /\ pc' = [pc EXCEPT ![t] = "unwind"]
    /\ UNCHANGED <<response, finalized, released, kept, finished, on, reading, failed, discard>>

\* An error, a timeout or a cancellation; or the decoders reject the chunk.
PullFail(t) ==
    /\ pc[t] = "pull"
    /\ failed' = [failed EXCEPT ![t] = TRUE]
    /\ pc' = [pc EXCEPT ![t] = "unwind"]
    /\ UNCHANGED <<response, stream, on, reading, discard>>

(***************************************************************************)
(* _PooledStream.close: entered once, whoever comes first.                 *)
(***************************************************************************)

\* What follows in the task when the stream's close returns: Response.close in
\* _iter_raw's finally, and the end of the generators.
Reclose(t) ==
    /\ closed' = TRUE
    /\ slot' = IF closed THEN slot ELSE None

\* The iterator that this close finds in the slot, when it is not k's own.
Unstarted(k) == IF closed \/ slot = k THEN {} ELSE {j \in {slot} \ {None} : chain[j] = "new"}

\* (The decoder's flush may still raise, and then read() has nothing to keep.)
EndChain(t) ==
    /\ Reclose(t)
    /\ chain' = [j \in Chains |-> IF j \in Unstarted(on[t]) \union {on[t]} THEN "done" ELSE chain[j]]
    /\ content' \in {content, content \/ (reading[t] /\ ~failed[t])}
    /\ strayed' = strayed \ {on[t]}
    /\ Leave(t)
    /\ UNCHANGED <<consumed, reading>>

\* What the chunker of iter_raw(chunk_size) held back is handed to the caller's
\* loop before the finally that closes the response.
YieldTail(t) ==
    /\ ~reading[t] /\ ~failed[t]
    /\ chain' = [chain EXCEPT ![on[t]] = "tail"]
    /\ pc' = [pc EXCEPT ![t] = "held"]
    /\ UNCHANGED <<content, closed, consumed, slot, strayed, on, reading, failed, discard>>

\* What iter_bytes, iter_text and iter_lines held back is handed over when the
\* _iter_raw within is through, its finally included.
YieldRest(t) ==
    /\ ~reading[t] /\ ~failed[t]
    /\ Reclose(t)
    /\ chain' = [j \in Chains |-> IF j = on[t] THEN "rest" ELSE IF j \in Unstarted(on[t]) THEN "done" ELSE chain[j]]
    /\ strayed' = strayed \ {on[t]}
    /\ pc' = [pc EXCEPT ![t] = "held"]
    /\ UNCHANGED <<content, consumed, on, reading, failed, discard>>

Return(t) ==
    IF on[t] = None
    THEN Leave(t) /\ UNCHANGED <<response, reading>>
    ELSE EndChain(t) \/ YieldTail(t) \/ YieldRest(t)

\* A slip: whoever comes enters.
MayEnterTwice == TRUE

\* The first to come enters.
MayEnter == ~finalized

Enter(t, k) ==
    /\ finalized' = TRUE
    /\ discard' = [discard EXCEPT ![t] = ~complete]
    /\ pc' = [pc EXCEPT ![t] = "abort"]
    /\ on' = [on EXCEPT ![t] = k]
    /\ UNCHANGED <<complete, wire, released, kept, finished>>

\* The await of the httpunk iterator's aclose() is over, or was cut short.
Unwind(t) ==
    /\ pc[t] = "unwind"
    /\ IF MayEnter
       THEN Enter(t, on[t]) /\ UNCHANGED <<response, reading, failed>>
       ELSE Return(t) /\ UNCHANGED stream

\* A slip: a teardown that was cut short is taken for one that ran to its end.
KeepsConnWhenCut(t, cut) == ~discard[t]

\* The connection may be used again.
KeepsConn(t, cut) == ~discard[t] /\ ~cut

\* The exchange is aborted, which costs the connection when the body had not
\* ended; cut: the await fails or is cancelled before the connection knows.
Abort(t, cut) ==
    /\ pc[t] = "abort"
    /\ wire' = IF cut THEN "torn" ELSE IF wire = "ended" THEN "ended" ELSE "aborted"
    /\ released' = released + 1
    /\ kept' = (kept \/ KeepsConn(t, cut))
    /\ failed' = [failed EXCEPT ![t] = @ \/ cut]
    /\ pc' = [pc EXCEPT ![t] = "release"]
    /\ UNCHANGED <<response, finalized, complete, finished, on, reading, discard>>

\* The await of release() is over, or was cut short: the callbacks fire.
Finish(t) ==
    /\ pc[t] = "release"
    /\ finished' = finished + 1
    /\ Return(t)
    /\ UNCHANGED <<finalized, complete, wire, released, kept>>

\* The loop drains what the chunkers held back; after a tail the finally is left.
DrainTail(t) ==
    /\ pc[t] = "held" /\ chain[on[t]] \in {"tail", "rest"}
    /\ EndChain(t)
    /\ UNCHANGED stream

(***************************************************************************)
(* Response.close, by a task of its own accord or on leaving `async with`. *)
(***************************************************************************)
Closing(t) == pc[t] \in {"idle", "held"} /\ ~closed /\ closed' = TRUE /\ slot' = None

\* A slip: an iterator that its own task drives is unwound as well.
MustUnwindUnlessDone == slot # None /\ chain[slot] = "open"

\* The iterator in the slot is suspended in the body.
MustUnwind == slot # None /\ chain[slot] = "open" /\ ~Running(slot)

\* It is unwound, and that closes the stream.
CloseSuspended(t) ==
    /\ Closing(t)
    /\ MustUnwind
    /\ pc' = [pc EXCEPT ![t] = "unwind"]
    /\ on' = [on EXCEPT ![t] = slot]
    /\ reading' = [reading EXCEPT ![t] = FALSE]
    /\ failed' = [failed EXCEPT ![t] = TRUE]
    /\ UNCHANGED <<content, consumed, chain, strayed, stream, discard>>

\* There is nothing to unwind, or its own task is at it.
CloseStream(t) ==
    /\ Closing(t)
    /\ ~MustUnwind
    /\ chain' = [k \in Chains |-> IF k = slot /\ ~Running(k) THEN "done" ELSE chain[k]]
    /\ strayed' = IF slot # None /\ Running(slot) THEN strayed \union {slot} ELSE strayed \ {slot}
    /\ IF MayEnter
       THEN Enter(t, None) /\ UNCHANGED failed
       ELSE Leave(t) /\ UNCHANGED stream
    /\ UNCHANGED <<content, consumed, reading>>

-----------------------------------------------------------------------------

TaskStep(t) ==
    \/ Iter(t) \/ Start(t) \/ Read(t) \/ Resume(t) \/ Abandon(t)
    \/ PullChunk(t) \/ PullEnd(t) \/ PullFail(t)
    \/ Unwind(t)
    \/ \E cut \in BOOLEAN : Abort(t, cut)
    \/ Finish(t) \/ DrainTail(t)
    \/ CloseSuspended(t) \/ CloseStream(t)

Next == \E t \in Tasks : TaskStep(t)

Spec == Init /\ [][Next]_vars

\* The awaits of a teardown end, by completion or by cancellation.  Nothing is
\* assumed of the peer, nor that callers go on reading or close.
Fairness ==
    \A t \in Tasks :
        /\ WF_vars(Unwind(t))
        /\ WF_vars(\E cut \in BOOLEAN : Abort(t, cut))
        /\ WF_vars(Finish(t))

FairSpec == Spec /\ Fairness

-----------------------------------------------------------------------------

\* Every variable keeps to its kind, and the connection is given back at most
\* once (_transport.py:161-165).
TypeOK ==
    /\ {content, closed, consumed, finalized, complete, kept} \subseteq BOOLEAN
    /\ slot \in Chains \union {None}
    /\ chain \in [Chains -> {"new", "open", "tail", "rest", "done"}]
    /\ strayed \subseteq Chains
    /\ wire \in {"more", "ended", "aborted", "torn"}
    /\ released \in {0, 1} /\ finished \in {0, 1}
    /\ pc \in [Tasks -> {"idle", "held", "pull", "unwind", "abort", "release"}]
    /\ on \in [Tasks -> Chains \union {None}]
    /\ reading \in [Tasks -> BOOLEAN]
    /\ failed \in [Tasks -> BOOLEAN]
    /\ discard \in [Tasks -> BOOLEAN]

\* A connection goes back for reuse only after the whole body was read from it
\* and its teardown ran to the end, with nobody still reading (_transport.py:135-137, 156-160).
KeptOnlyWhenWhole ==
    kept => complete /\ wire = "ended" /\ \A t \in Tasks : pc[t] # "pull"

\* Once a response is closed and everybody has left it, no chain is suspended
\* ahead of the finally that closes the stream and the response, which would be
\* left to the garbage collector (_content.py:24-26), except one that the slot had
\* lost.  A loop that breaks in the "rest" leaves a chain whose finally is over.
OnlyStraysRemain ==
    closed /\ (\A t \in Tasks : pc[t] = "idle") =>
        \A k \in Chains : chain[k] \in {"open", "tail"} => k \in strayed

Promise == INSTANCE Exchange WITH
    ended <- closed, whole <- complete, returned <- released, reusable <- kept, told <- finished

\* Several tasks that read, abandon, fail, are cancelled and close act on the
\* connection and the callbacks as one exchange does: no second give-back, no
\* callback before it, and neither is left out (_models.py:330-350, 421-436;
\* _transport.py:135-236).
ImplementsExchange == Promise!Spec
=============================================================================
