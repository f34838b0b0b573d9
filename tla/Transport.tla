----------------------------- MODULE Transport -----------------------------
(***************************************************************************)
(* PoolTransport.send, src/punkreq/_transport.py: one request, sent over a *)
(* connection of the pool, and sent again when the server is known not to  *)
(* have processed it; the coroutine that performs an attempt under the read *)
(* timeout and hands its response over to the caller; and the deadlines.   *)
(* A dial on its behalf is a dial of Connect.tla.                          *)
(*                                                                         *)
(* Time is a counter.  An await with a bound ends at that time at latest:  *)
(* the clock does not pass it (Tick).                                      *)
(***************************************************************************)
EXTENDS Integers, FiniteSetsExt, Connect

CONSTANTS
    MaxRetries,   \* _MAX_NACK_RETRIES
    Connect, Pool, Read,   \* fields of Timeout, numbers or None
    Totals,       \* what may be left of Timeout.total when the exchange begins
    None,
    Horizon       \* how far the clock goes

ASSUME TimeoutAssumption ==
    /\ None \notin Int
    /\ {Connect, Pool, Read} \union Totals \subseteq Nat \union {None}
    /\ MaxRetries \in Nat /\ Horizon \in Nat

Attempts == 0..MaxRetries

VARIABLES
    pc,          \* where the caller is
    attempts,    \* retries so far
    replayable,  \* whether the body is a ByteStream
    reused,      \* whether the pool's connection has served before
    held,        \* whether the caller owes the pool a release
    deadline,    \* of the whole request, or None
    dialFor,     \* the connect_timeout handed to acquire
    bound,       \* when the caller's await times out, or None
    now,
    failure,     \* the exception of the attempt that failed
    sender,      \* of each attempt, what its send() is at
    abandoned,   \* of each attempt, whether its caller is gone
    processed,   \* how many attempts the server has processed
    touched,     \* how many attempts have consumed the body
    dropped      \* how many attempts ended when the server dropped, unanswered, a
                 \* connection that had served before

request == <<attempts, replayable, deadline>>
server == <<processed, touched, dropped>>
handover == <<sender, abandoned>>
vars == <<pc, request, reused, held, dialFor, bound, now, failure, handover, server, dialVars>>

-----------------------------------------------------------------------------

\* _effective raises once it is late.
Late == deadline # None /\ now >= deadline

\* A slip: the deadline is not looked at.
EffectivePhase(phase) == phase

\* _effective: the timeout of one operation.
Effective(phase) ==
    IF deadline = None THEN phase
    ELSE IF phase = None THEN deadline - now ELSE Min({phase, deadline - now})

After(timeout) == IF timeout = None THEN None ELSE now + timeout

TimedOut == bound # None /\ now >= bound

(***************************************************************************)
(* What the server did, by the way in which an attempt fails, and what     *)
(* _is_retryable_nack makes of it.  The error codes are NO_ERROR and       *)
(* REFUSED_STREAM for "goaway" and "refused".  A server that drops a        *)
(* connection may have processed the request that it leaves unanswered.    *)
(***************************************************************************)
Failures == {"goaway", "goaway_error", "refused", "reset", "unsent", "disconnected", "other"}

Happened(f) == IF f \in {"goaway", "refused", "unsent"} THEN {FALSE} ELSE BOOLEAN

BodyConsumed(f) == IF f = "unsent" THEN {FALSE} ELSE BOOLEAN

\* A slip: a reset stream is retried whatever its error code.
RetryableOnAnyReset(f) ==
    \/ f \in {"goaway", "refused", "reset"} /\ replayable
    \/ f = "unsent" /\ reused
    \/ f = "disconnected" /\ reused /\ replayable

\* A slip: on a reused connection the body is not looked at.
RetryableUnlessFresh(f) ==
    \/ f \in {"goaway", "refused"} /\ replayable
    \/ f \in {"unsent", "disconnected"} /\ reused

\* The server has demonstrably not processed the attempt, and its body can be
\* sent again.
Retryable(f) ==
    \/ f \in {"goaway", "refused"} /\ replayable
    \/ f = "unsent" /\ reused
    \/ f = "disconnected" /\ reused /\ replayable

MayRetry(f) == Retryable(f) /\ attempts < MaxRetries

-----------------------------------------------------------------------------

\* The deadline is pinned by the client, on this hop or an earlier one, or the
\* exchange sets its own.
Init ==
    /\ pc = "start"
    /\ attempts = 0
    /\ replayable \in BOOLEAN
    /\ reused = FALSE
    /\ held = FALSE
    /\ deadline \in Totals
    /\ dialFor = None
    /\ bound = None
    /\ now = 0
    /\ failure = None
    /\ sender = [i \in Attempts |-> "none"]
    /\ abandoned = [i \in Attempts |-> FALSE]
    /\ processed = 0
    /\ touched = 0
    /\ dropped = 0
    /\ DialInit

Raise == pc' = "raised" /\ bound' = None

\* acquire is called, and waits for its turn.
Acquire ==
    /\ pc = "start"
    /\ IF Late
       THEN Raise /\ UNCHANGED dialFor
       ELSE /\ pc' = "acquire"
            /\ dialFor' = Effective(Connect)
            /\ bound' = After(Effective(Pool))
    /\ UNCHANGED <<request, reused, held, now, failure, handover, server, dialVars>>

\* A slip: the deadline is read before the `try` that gives the connection back.
TakeUnguarded(again) ==
    /\ reused' = again
    /\ held' = TRUE
    /\ IF Late
       THEN Raise /\ UNCHANGED <<failure, sender>>
       ELSE /\ bound' = After(Effective(Read))
            /\ pc' = "send"
            /\ sender' = [sender EXCEPT ![attempts] = "sending"]
            /\ UNCHANGED failure

\* The pool has a connection for the caller, which takes it to _send_on.
Take(again) ==
    /\ reused' = again
    /\ held' = TRUE
    /\ IF Late
       THEN /\ failure' = "other"
            /\ pc' = "failed"
            /\ bound' = None
            /\ UNCHANGED sender
       ELSE /\ bound' = After(Effective(Read))
            /\ pc' = "send"
            /\ sender' = [sender EXCEPT ![attempts] = "sending"]
            /\ UNCHANGED failure

AcquireReused ==
    /\ pc = "acquire"
    /\ Take(TRUE)
    /\ UNCHANGED <<request, dialFor, now, abandoned, server, dialVars>>

AcquireDial ==
    /\ pc = "acquire"
    /\ pc' = "dial"
    /\ bound' = After(dialFor)
    /\ StartDial(dialFor # None)
    /\ UNCHANGED <<request, reused, held, dialFor, now, failure, handover, server>>

DialOk ==
    /\ pc = "dial"
    /\ TakeDialed
    /\ Take(FALSE)
    /\ UNCHANGED <<request, dialFor, now, abandoned, server>>

\* The wait for the pool times out or is cancelled, or the pool is closed.
AcquireFail ==
    /\ pc = "acquire"
    /\ Raise
    /\ UNCHANGED <<request, reused, held, dialFor, now, failure, handover, server, dialVars>>

\* The dial fails, times out, or the caller is cancelled.
DialFail ==
    /\ pc = "dial"
    /\ (dial = "over" /\ UNCHANGED dialVars) \/ LeaveDial
    /\ Raise
    /\ UNCHANGED <<request, reused, held, dialFor, now, failure, handover, server>>

(***************************************************************************)
(* _send_on.  Without a read timeout the caller awaits send_request itself *)
(* and nothing is handed over.                                             *)
(***************************************************************************)
Timed == bound # None

Count(S) == \E b \in S : processed' = processed + (IF b THEN 1 ELSE 0)
Touch(S) == \E b \in S : touched' = touched + (IF b THEN 1 ELSE 0)

\* The response head of attempt i arrives.
Answer(i) ==
    /\ sender[i] = "sending"
    /\ sender' = [sender EXCEPT ![i] = "got"]
    /\ Count({TRUE}) /\ Touch({TRUE})
    /\ UNCHANGED <<dropped, pc, request, reused, held, dialFor, bound, now, failure, abandoned, dialVars>>

\* A slip: send() does not look whether its caller is still there.
HandOverUnchecked(i) ==
    /\ sender[i] = "got"
    /\ sender' = [sender EXCEPT ![i] = "sent"]
    /\ UNCHANGED <<pc, request, reused, held, dialFor, bound, now, failure, abandoned, server, dialVars>>

\* send() under the lock: the response is left for the caller, or its own to
\* abort when the caller is gone.
HandOver(i) ==
    /\ sender[i] = "got"
    /\ sender' = [sender EXCEPT ![i] = IF abandoned[i] THEN "aborting" ELSE "sent"]
    /\ UNCHANGED <<pc, request, reused, held, dialFor, bound, now, failure, abandoned, server, dialVars>>

\* _abort_response, by send() or detached.
AbortResponse(i) ==
    /\ sender[i] = "aborting"
    /\ sender' = [sender EXCEPT ![i] = "aborted"]
    /\ UNCHANGED <<pc, request, reused, held, dialFor, bound, now, failure, abandoned, server, dialVars>>

\* send_request of an attempt that was given up fails, or is cancelled.
Vanish(i) ==
    /\ sender[i] = "sending" /\ abandoned[i]
    /\ sender' = [sender EXCEPT ![i] = "failed"]
    /\ Count(BOOLEAN) /\ Touch(BOOLEAN)
    /\ UNCHANGED <<dropped, pc, request, reused, held, dialFor, bound, now, failure, abandoned, dialVars>>

\* The caller takes the response and returns it.
Taken ==
    /\ pc = "send" /\ sender[attempts] = "sent"
    /\ sender' = [sender EXCEPT ![attempts] = "taken"]
    /\ pc' = "body"
    /\ bound' = None
    /\ UNCHANGED <<request, reused, held, dialFor, now, failure, abandoned, server, dialVars>>

Failed(f) ==
    /\ pc = "send" /\ sender[attempts] = "sending"
    /\ Count(Happened(f)) /\ Touch(BodyConsumed(f))
    /\ dropped' = dropped + (IF f = "disconnected" /\ reused THEN 1 ELSE 0)
    /\ failure' = f
    /\ sender' = [sender EXCEPT ![attempts] = "failed"]
    /\ abandoned' = [abandoned EXCEPT ![attempts] = TRUE]
    /\ pc' = "failed"
    /\ bound' = None
    /\ UNCHANGED <<request, reused, held, dialFor, now, dialVars>>

\* What send() had left for its caller is handed over to be closed.
Claim(s) == IF s = "sent" THEN "aborting" ELSE s

\* The caller times out, or is cancelled, while send() is at it: send() is told.
GiveUp ==
    /\ pc = "send" /\ Timed
    /\ failure' = "other"
    /\ abandoned' = [abandoned EXCEPT ![attempts] = TRUE]
    /\ sender' = [sender EXCEPT ![attempts] = Claim(@)]
    /\ pc' = "failed"
    /\ bound' = None
    /\ UNCHANGED <<request, reused, held, dialFor, now, server, dialVars>>

\* A cancellation, with no send() in between.
GiveUpUntimed ==
    /\ pc = "send" /\ ~Timed /\ sender[attempts] = "sending"
    /\ failure' = "other"
    /\ abandoned' = [abandoned EXCEPT ![attempts] = TRUE]
    /\ sender' = [sender EXCEPT ![attempts] = "failed"]
    /\ Count(BOOLEAN) /\ Touch(BOOLEAN)
    /\ pc' = "failed"
    /\ UNCHANGED <<dropped, request, reused, held, dialFor, bound, now, dialVars>>

(***************************************************************************)
(* The failed attempt's connection is given back, and only then is the     *)
(* failure looked at; cut: the await of release is cancelled.              *)
(***************************************************************************)
Retry ==
    /\ attempts' = attempts + 1
    /\ pc' = "start"
    /\ UNCHANGED bound

GiveBack(cut) ==
    /\ pc = "failed"
    /\ held' = FALSE
    /\ IF ~cut /\ MayRetry(failure)
       THEN Retry
       ELSE Raise /\ UNCHANGED attempts
    /\ UNCHANGED <<replayable, deadline, reused, dialFor, now, failure, handover, server, dialVars>>

(***************************************************************************)
(* _PooledStream: each read of the body is bounded as well.  Stream.tla    *)
(* models how it ends.                                                     *)
(***************************************************************************)
Finish == held' = FALSE /\ pc' = "closed" /\ bound' = None

Pull ==
    /\ pc = "body"
    /\ IF Late THEN Finish
       ELSE /\ bound' = After(Effective(Read))
            /\ pc' = "pull"
            /\ UNCHANGED held
    /\ UNCHANGED <<request, reused, dialFor, now, failure, handover, server, dialVars>>

Chunk ==
    /\ pc = "pull"
    /\ pc' = "body"
    /\ bound' = None
    /\ UNCHANGED <<request, reused, held, dialFor, now, failure, handover, server, dialVars>>

\* The body ends, fails, times out, or the response is closed.
CloseStream ==
    /\ pc \in {"body", "pull"}
    /\ Finish
    /\ UNCHANGED <<request, reused, dialFor, now, failure, handover, server, dialVars>>

\* Time passes, but never beyond the bound of the caller's await.  The caller's
\* code between two awaits takes no time.
Tick ==
    /\ now < Horizon
    /\ pc \in {"acquire", "dial", "send", "body", "pull"} /\ ~TimedOut
    /\ now' = now + 1
    /\ UNCHANGED <<pc, request, reused, held, dialFor, bound, failure, handover, server, dialVars>>

\* The request is over.
Over == pc \in {"raised", "closed"}

Rest ==
    /\ Over /\ dial \in {"none", "taken", "over"}
    /\ \A i \in Attempts : sender[i] \notin {"sending", "got", "aborting"}
    /\ UNCHANGED vars

-----------------------------------------------------------------------------

Dialing == DialStep /\ UNCHANGED <<pc, request, reused, held, dialFor, bound, now, failure, handover, server>>

SenderStep == \E i \in Attempts : Answer(i) \/ HandOver(i) \/ AbortResponse(i) \/ Vanish(i)

CallerStep ==
    \/ Acquire \/ AcquireReused \/ AcquireDial \/ DialOk \/ AcquireFail \/ DialFail
    \/ Taken \/ (\E f \in Failures : Failed(f)) \/ GiveUp \/ GiveUpUntimed
    \/ (\E cut \in BOOLEAN : GiveBack(cut))
    \/ Pull \/ Chunk \/ CloseStream

Next == CallerStep \/ SenderStep \/ Dialing \/ Tick \/ Rest

Spec == Init /\ [][Next]_vars

\* The clock goes on, awaits that time out end, and the caller reads on.
\* Nothing is assumed of the server, nor that the pool ever has a connection.  The
\* closes of other connections within acquire (_pool.py:124) and of this one within
\* release (_transport.py:273), which no timeout bounds, are taken to end.
Fairness ==
    /\ WF_vars(Tick)
    /\ WF_vars(Acquire)
    /\ WF_vars(TimedOut /\ (AcquireFail \/ DialFail \/ Taken \/ GiveUp \/ CloseStream))
    /\ WF_vars(Taken)
    /\ WF_vars(\E cut \in BOOLEAN : GiveBack(cut))
    /\ WF_vars(Pull)

FairSpec == Spec /\ Fairness

-----------------------------------------------------------------------------

\* Every variable keeps to its kind, retries to their bound.
TypeOK ==
    /\ DialTypeOK
    /\ pc \in {"start", "acquire", "dial", "send", "failed", "body", "pull", "raised", "closed"}
    /\ attempts \in Attempts
    /\ {replayable, reused, held} \subseteq BOOLEAN
    /\ {deadline, dialFor, bound} \subseteq Nat \union {None}
    /\ now \in 0..Horizon
    /\ failure \in Failures \union {None}
    /\ sender \in [Attempts -> {"none", "sending", "got", "sent", "taken", "aborting", "aborted", "failed"}]
    /\ abandoned \in [Attempts -> BOOLEAN]
    /\ processed \in Nat /\ touched \in Nat /\ dropped \in Nat

\* A body that cannot be replayed is consumed by one attempt at most, whatever
\* fails and is retried, and any other by one more than _MAX_NACK_RETRIES
\* (_transport.py:72-98, 274-276).
BodySentOnce == touched <= IF replayable THEN MaxRetries + 1 ELSE 1

\* Beyond the first time, a request is processed again no more often than the
\* server dropped a connection that had served before, and only when its body can
\* be replayed: no other failure that is retried stands for an attempt that the
\* server processed (_transport.py:82-98, 274).
ProcessedAgainOnlyIfDropped == processed <= 1 + (IF replayable THEN dropped ELSE 0)

\* A request is processed once at most: "only failures where the server
\* demonstrably never processed the request" are retried (_transport.py:73-74).
NeverProcessedTwice == processed <= 1

\* A response head that send() left for the caller is the caller's to take: if
\* the caller is gone, somebody aborts it (_transport.py:316-339).
NoResponseStranded ==
    /\ \A i \in Attempts : sender[i] = "sent" => pc = "send" /\ i = attempts
    /\ \A i \in Attempts : sender[i] = "taken" => pc \in {"body", "pull", "closed"}
    /\ pc \in {"body", "pull"} => sender[attempts] = "taken"

\* The pool's connection is given back by every path out of an attempt, and is
\* never kept into the next one (_transport.py:264-277).
ConnectionGivenBack == held <=> pc \in {"send", "failed", "body", "pull"}

\* Past the deadline nothing waits for the pool, for the response head or for a
\* chunk of the body, although each await is bounded on its own
\* (_transport.py:190-201, 258-265, 296-304).
TotalRespected ==
    deadline # None /\ pc \in {"acquire", "send", "pull"} => now <= deadline

\* The same of every await: total is "a deadline for the entire request:
\* connecting, every redirect hop, and reading the full body"
\* (_config.py:27-28).
TotalCoversConnecting ==
    deadline # None /\ pc \in {"acquire", "dial", "send", "pull"} => now <= deadline

\* A request with a total timeout ends, whether or not the pool ever has a
\* connection for it and whatever the server does.
Terminates == deadline # None ~> Over
=============================================================================
