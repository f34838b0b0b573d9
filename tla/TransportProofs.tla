--------------------------- MODULE TransportProofs ---------------------------
(***************************************************************************)
(* Theorems about Transport, for every number of retries, every timeout and *)
(* deadline, and every mix of routes.                                       *)
(***************************************************************************)
EXTENDS Transport, TLAPS

\* What is left to close of a dial, at each of its awaits.
DialOwned ==
    /\ dial \in {"none", "opening"} => transport = "none"
    /\ dial \in {"tunnelling", "securing", "entering", "entered", "dialed", "closing", "taken"} =>
        transport = "open"
    /\ dial = "over" => transport # "open"
    /\ dial = "dialed" => ~gone

\* An await that total bounds ends within total, and the clock stays before the
\* end of each await.
Bounded ==
    /\ bound # None => now <= bound
    /\ deadline # None /\ pc \in {"acquire", "send", "pull"} =>
        bound # None /\ bound <= deadline

\* Only the current attempt is in the caller's hands; those before it failed, and
\* those after it have not begun.
Attempted ==
    /\ \A i \in Attempts : i < attempts => sender[i] = "failed"
    /\ \A i \in Attempts : i > attempts => sender[i] = "none" /\ ~abandoned[i]
    /\ pc \in {"start", "acquire", "dial"} => sender[attempts] = "none" /\ ~abandoned[attempts]
    /\ pc = "send" => sender[attempts] \in {"sending", "got", "sent"} /\ ~abandoned[attempts]
    /\ pc \in {"body", "pull"} => sender[attempts] = "taken"
    /\ sender[attempts] = "taken" => pc \in {"body", "pull", "closed"}
    /\ pc \notin {"start", "acquire", "dial", "send"} /\ sender[attempts] \in {"sending", "got"} =>
        abandoned[attempts]
    /\ sender[attempts] = "sent" => pc = "send"
    /\ pc = "failed" /\ failure # "other" => sender[attempts] = "failed"

\* Attempts that may have consumed the body before this one, and with it.
Before == IF replayable THEN attempts ELSE 0

Consumptions ==
    /\ touched <= Before + 1
    /\ sender[attempts] \in {"none", "sending"} => touched <= Before
    /\ pc = "failed" /\ failure = "unsent" => touched <= Before

\* Attempts before this one that may have been processed and were sent again all
\* the same.
Extra == IF replayable THEN dropped ELSE 0

Processings ==
    /\ processed <= Extra + 1
    /\ sender[attempts] \in {"none", "sending"} => processed <= Extra
    /\ pc = "failed" /\ Retryable(failure) => processed <= Extra

-----------------------------------------------------------------------------

\* What a phase is allowed is a time that is still to come, and ends by the deadline.
LEMMA EffectiveTyped ==
  ASSUME TypeOK, ~Late, NEW phase \in Nat \union {None}
  PROVE  /\ Effective(phase) \in Nat \union {None}
         /\ After(Effective(phase)) \in Nat \union {None}
         /\ After(Effective(phase)) # None => now <= After(Effective(phase))
         /\ deadline # None => After(Effective(phase)) # None /\ After(Effective(phase)) <= deadline
<1>1. now \in Nat /\ deadline \in Nat \union {None} /\ None \notin Int
  BY TimeoutAssumption DEF TypeOK
<1>2. CASE deadline = None
  BY <1>1, <1>2 DEF Effective, After
<1>3. CASE deadline # None /\ phase = None
  BY <1>1, <1>3 DEF Effective, After, Late
<1>4. CASE deadline # None /\ phase # None
  <2>1. deadline - now \in Nat /\ phase \in Nat
    BY <1>1, <1>4 DEF Late
  <2>2. Min({phase, deadline - now}) \in Nat /\ Min({phase, deadline - now}) <= deadline - now
    BY <2>1 DEF Min
  <2>3. Effective(phase) = Min({phase, deadline - now})
    BY <1>4 DEF Effective
  <2> QED BY <1>1, <2>1, <2>2, <2>3 DEF After
<1> QED BY <1>2, <1>3, <1>4

-----------------------------------------------------------------------------

\* A dial keeps its types.
LEMMA DialTypes ==
  ASSUME DialTypeOK,
         DialStep \/ TakeDialed \/ LeaveDial \/ (\E b \in BOOLEAN : StartDial(b)) \/ UNCHANGED dialVars
  PROVE  DialTypeOK'
  BY DEF DialTypeOK, dialVars, DialStep, Opened, OpenFail, Tunnelled, Secured, Entered, DialBreaks,
         CloseTransport, Deliver, CloseDialed, TakeDialed, LeaveDial, ClaimDialed, StartDial

\* A dial closes what it has opened, or hands it over.
LEMMA DialKept ==
  ASSUME DialTypeOK, DialOwned,
         DialStep \/ TakeDialed \/ LeaveDial \/ (\E b \in BOOLEAN : StartDial(b)) \/ UNCHANGED dialVars
  PROVE  DialOwned'
  BY DEF DialTypeOK, DialOwned, dialVars, DialStep, Opened, OpenFail, Tunnelled, Secured, Entered,
         DialBreaks, CloseTransport, Deliver, CloseDialed, TakeDialed, LeaveDial, ClaimDialed, StartDial

\* What a step of the whole does to the dial.
LEMMA DialSteps ==
  ASSUME [Next]_vars
  PROVE  DialStep \/ TakeDialed \/ LeaveDial \/ (\E b \in BOOLEAN : StartDial(b)) \/ UNCHANGED dialVars
<1>1. CASE CallerStep
  BY <1>1 DEF CallerStep, Acquire, AcquireReused, AcquireDial, DialOk, AcquireFail, DialFail, Taken,
              Failed, GiveUp, GiveUpUntimed, GiveBack, Pull, Chunk, CloseStream
<1>2. CASE SenderStep
  BY <1>2 DEF SenderStep, Answer, HandOver, AbortResponse, Vanish
<1> QED BY <1>1, <1>2 DEF Next, Dialing, Tick, Rest, vars, dialVars

\* The connection that the pool hands over, or the deadline found passed there.
LEMMA TakeTyped ==
  ASSUME TypeOK, pc \in {"acquire", "dial"}, NEW again \in BOOLEAN, Take(again)
  PROVE  /\ pc' \in {"failed", "send"} /\ reused' = again /\ held'
         /\ bound' \in Nat \union {None}
         /\ failure' \in Failures \union {None}
         /\ sender' \in [Attempts -> {"none", "sending", "got", "sent", "taken", "aborting", "aborted", "failed"}]
<1>1. CASE Late
  BY <1>1 DEF Take, TypeOK, Failures
<1>2. CASE ~Late
  BY <1>2, EffectiveTyped, TimeoutAssumption DEF Take, TypeOK
<1> QED BY <1>1, <1>2

\* Every step keeps the types.
LEMMA Types ==
  ASSUME TypeOK, [Next]_vars
  PROVE  TypeOK'
<1>0. DialTypeOK'
  BY DialTypes, DialSteps DEF TypeOK
<1> USE <1>0, TimeoutAssumption
<1>1. CASE Acquire
  <2>1. CASE Late
    BY <1>1, <2>1 DEF Acquire, Raise, TypeOK, request, handover, server
  <2>2. CASE ~Late
    BY <1>1, <2>2, EffectiveTyped, ZenonT(30) DEF Acquire, TypeOK, request, handover, server
  <2> QED BY <2>1, <2>2
<1>2. CASE AcquireReused
  <2>1. Take(TRUE) /\ pc = "acquire"
    BY <1>2 DEF AcquireReused
  <2> QED BY <1>2, <2>1, TakeTyped DEF AcquireReused, TypeOK, request, server
<1>3. CASE DialOk
  <2>1. Take(FALSE) /\ pc = "dial"
    BY <1>3 DEF DialOk
  <2> QED BY <1>3, <2>1, TakeTyped DEF DialOk, TypeOK, request, server
<1>4. CASE AcquireDial
  BY <1>4 DEF AcquireDial, After, TypeOK, request, handover, server
<1>5. CASE AcquireFail \/ DialFail
  BY <1>5 DEF AcquireFail, DialFail, Raise, TypeOK, request, handover, server
<1>6. CASE Taken \/ Chunk \/ GiveUp
  BY <1>6 DEF Taken, Chunk, GiveUp, Claim, TypeOK, Failures, request, handover, server
<1>7. ASSUME NEW f \in Failures, Failed(f)
      PROVE  TypeOK'
  <2>1. processed' \in Nat /\ touched' \in Nat
    BY <1>7 DEF Failed, Count, Touch, TypeOK
  <2> QED BY <1>7, <2>1 DEF Failed, TypeOK, request
<1>8. CASE GiveUpUntimed
  BY <1>8 DEF GiveUpUntimed, Count, Touch, TypeOK, Failures, request
<1>9. ASSUME NEW cut \in BOOLEAN, GiveBack(cut)
      PROVE  TypeOK'
  <2>1. \/ attempts' = attempts + 1 /\ attempts < MaxRetries /\ pc' = "start" /\ bound' = bound
        \/ attempts' = attempts /\ pc' = "raised" /\ bound' = None
    BY <1>9 DEF GiveBack, MayRetry, Retry, Raise
  <2>2. attempts' \in Attempts
    BY <2>1 DEF TypeOK, Attempts
  <2> QED BY <1>9, <2>1, <2>2 DEF GiveBack, TypeOK, handover, server
<1>10. CASE Pull
  <2>1. CASE Late
    BY <1>10, <2>1 DEF Pull, Finish, TypeOK, request, handover, server
  <2>2. CASE ~Late
    BY <1>10, <2>2, EffectiveTyped, ZenonT(30) DEF Pull, TypeOK, request, handover, server
  <2> QED BY <2>1, <2>2
<1>11. CASE CloseStream
  BY <1>11 DEF CloseStream, Finish, TypeOK, request, handover, server
<1>12. ASSUME NEW i \in Attempts, Answer(i) \/ HandOver(i) \/ AbortResponse(i) \/ Vanish(i)
       PROVE  TypeOK'
  BY <1>12 DEF Answer, HandOver, AbortResponse, Vanish, Count, Touch, TypeOK, request, server
<1>13. CASE Dialing
  BY <1>13 DEF Dialing, TypeOK, request, handover, server
<1>14. CASE Tick
  BY <1>14 DEF Tick, TypeOK, request, handover, server
<1>15. CASE UNCHANGED vars
  BY <1>15 DEF TypeOK, vars, request, handover, server
<1> QED
  BY <1>1, <1>2, <1>3, <1>4, <1>5, <1>6, <1>7, <1>8, <1>9, <1>10, <1>11, <1>12, <1>13, <1>14, <1>15
  DEF Next, CallerStep, SenderStep, Rest

-----------------------------------------------------------------------------

(***************************************************************************)
(* The deadline.                                                           *)
(***************************************************************************)

\* A request that goes out on its connection is awaited for no longer than the deadline.
LEMMA TakeBounded ==
  ASSUME TypeOK, Bounded, NEW again, Take(again), now' = now, deadline' = deadline
  PROVE  Bounded'
<1>1. CASE Late
  BY <1>1 DEF Take, Bounded
<1>2. CASE ~Late
  BY <1>2, EffectiveTyped, TimeoutAssumption DEF Take, Bounded
<1> QED BY <1>1, <1>2

\* The clock does not pass the end of an await, and no await is set past the deadline.
LEMMA Bounds ==
  ASSUME TypeOK, Bounded, [Next]_vars
  PROVE  Bounded'
<1> USE TimeoutAssumption
<1>1. CASE Acquire
  <2>1. CASE Late
    BY <1>1, <2>1 DEF Acquire, Raise, Bounded, request
  <2>2. CASE ~Late
    BY <1>1, <2>2, EffectiveTyped DEF Acquire, Bounded, request
  <2> QED BY <2>1, <2>2
<1>2. CASE AcquireReused
  BY <1>2, TakeBounded DEF AcquireReused, request
<1>3. CASE DialOk
  BY <1>3, TakeBounded DEF DialOk, request
<1>4. CASE AcquireDial
  BY <1>4 DEF AcquireDial, After, Bounded, TypeOK, request
<1>5. CASE AcquireFail \/ DialFail \/ Taken \/ Chunk \/ GiveUp \/ CloseStream
  BY <1>5 DEF AcquireFail, DialFail, Raise, Taken, Chunk, GiveUp, CloseStream, Finish, Bounded, request
<1>6. ASSUME NEW f \in Failures, Failed(f)
      PROVE  Bounded'
  BY <1>6 DEF Failed, Bounded, request
<1>7. CASE GiveUpUntimed
  BY <1>7 DEF GiveUpUntimed, Timed, Bounded, request
<1>8. ASSUME NEW cut \in BOOLEAN, GiveBack(cut)
      PROVE  Bounded'
  BY <1>8 DEF GiveBack, Retry, Raise, Bounded
<1>9. CASE Pull
  <2>1. CASE Late
    BY <1>9, <2>1 DEF Pull, Finish, Bounded, request
  <2>2. CASE ~Late
    BY <1>9, <2>2, EffectiveTyped DEF Pull, Bounded, request
  <2> QED BY <2>1, <2>2
<1>10. ASSUME NEW i \in Attempts, Answer(i) \/ HandOver(i) \/ AbortResponse(i) \/ Vanish(i)
       PROVE  Bounded'
  BY <1>10 DEF Answer, HandOver, AbortResponse, Vanish, Bounded, request
<1>11. CASE Dialing
  BY <1>11 DEF Dialing, Bounded, request
<1>12. CASE Tick
  BY <1>12 DEF Tick, TimedOut, Bounded, TypeOK, request
<1>13. CASE UNCHANGED vars
  BY <1>13 DEF Bounded, vars, request
<1> QED
  BY <1>1, <1>2, <1>3, <1>4, <1>5, <1>6, <1>7, <1>8, <1>9, <1>10, <1>11, <1>12, <1>13
  DEF Next, CallerStep, SenderStep, Rest

-----------------------------------------------------------------------------

(***************************************************************************)
(* The connection and the response of each attempt.                        *)
(***************************************************************************)

\* Each way out of an attempt gives the connection back.
LEMMA GivenBack ==
  ASSUME ConnectionGivenBack, [Next]_vars
  PROVE  ConnectionGivenBack'
<1>1. CASE CallerStep
  BY <1>1 DEF CallerStep, Acquire, AcquireReused, AcquireDial, DialOk, AcquireFail, DialFail, Take,
              Taken, Failed, GiveUp, GiveUpUntimed, GiveBack, Retry, Raise, Pull, Chunk, CloseStream,
              Finish, ConnectionGivenBack
<1>2. CASE SenderStep
  BY <1>2 DEF SenderStep, Answer, HandOver, AbortResponse, Vanish, ConnectionGivenBack
<1> QED BY <1>1, <1>2 DEF Next, Dialing, Tick, Rest, vars, ConnectionGivenBack

\* With a connection in hand the current attempt goes out, or is too late for that.
LEMMA TakeAttempted ==
  ASSUME TypeOK, Attempted, pc \in {"acquire", "dial"}, NEW again, Take(again),
         UNCHANGED <<attempts, abandoned>>
  PROVE  Attempted'
<1>1. CASE Late
  BY <1>1 DEF Take, Attempted, TypeOK
<1>2. CASE ~Late
  BY <1>2 DEF Take, Attempted, TypeOK, Attempts
<1> QED BY <1>1, <1>2

\* Only the current attempt goes on, and the next begins when it is over.
LEMMA AttemptsKept ==
  ASSUME TypeOK, Attempted, [Next]_vars
  PROVE  Attempted'
<1>0. attempts \in Attempts /\ attempts \in Nat /\ Attempts \subseteq Nat
  BY TimeoutAssumption DEF TypeOK, Attempts
<1> USE <1>0
<1>1. CASE Acquire \/ AcquireDial \/ AcquireFail \/ DialFail \/ Pull \/ Chunk \/ CloseStream
  BY <1>1 DEF Acquire, AcquireDial, AcquireFail, DialFail, Raise, Pull, Chunk, CloseStream, Finish,
              Attempted, request, handover
<1>2. CASE AcquireReused
  BY <1>2, TakeAttempted DEF AcquireReused, request
<1>3. CASE DialOk
  BY <1>3, TakeAttempted DEF DialOk, request
<1>4. CASE Taken
  BY <1>4 DEF Taken, Attempted, TypeOK, request
<1>5. ASSUME NEW f \in Failures, Failed(f)
      PROVE  Attempted'
  BY <1>5 DEF Failed, Attempted, TypeOK, request
<1>6. CASE GiveUp
  BY <1>6 DEF GiveUp, Claim, Attempted, TypeOK, request
<1>7. CASE GiveUpUntimed
  BY <1>7 DEF GiveUpUntimed, Attempted, TypeOK, request
<1>8. ASSUME NEW cut \in BOOLEAN, GiveBack(cut)
      PROVE  Attempted'
  <2>1. CASE attempts' = attempts
    BY <1>8, <2>1 DEF GiveBack, Retry, Raise, Attempted, handover
  <2>2. CASE attempts' # attempts
    <3>1. attempts' = attempts + 1 /\ failure # "other" /\ pc = "failed" /\ pc' = "start"
      BY <1>8, <2>2 DEF GiveBack, MayRetry, Retryable, Retry, Raise
    <3>2. sender' = sender /\ abandoned' = abandoned /\ attempts' \in Attempts
      BY <1>8, <3>1, Types DEF GiveBack, handover, TypeOK
    <3> QED BY <3>1, <3>2 DEF Attempted
  <2> QED BY <2>1, <2>2
<1>9. ASSUME NEW i \in Attempts, Answer(i) \/ HandOver(i) \/ AbortResponse(i) \/ Vanish(i)
      PROVE  Attempted'
  <2>1. i = attempts
    BY <1>9 DEF Answer, HandOver, AbortResponse, Vanish, Attempted
  <2> QED BY <1>9, <2>1 DEF Answer, HandOver, AbortResponse, Vanish, Attempted, TypeOK, request
<1>10. CASE Dialing \/ Tick \/ UNCHANGED vars
  BY <1>10 DEF Dialing, Tick, vars, Attempted, request, handover
<1> QED
  BY <1>1, <1>2, <1>3, <1>4, <1>5, <1>6, <1>7, <1>8, <1>9, <1>10
  DEF Next, CallerStep, SenderStep, Rest

-----------------------------------------------------------------------------

(***************************************************************************)
(* What the server and the body have seen of the attempts.                 *)
(***************************************************************************)

\* A step in which no attempt counts, one in which the current one does as it
\* stops sending, and a retry.
Quiet ==
    /\ UNCHANGED <<attempts, replayable, touched, processed, dropped>>
    /\ sender'[attempts] \in {"none", "sending"} => sender[attempts] \in {"none", "sending"}
    /\ pc' = "failed" /\ failure' # "other" => pc = "failed" /\ failure' = failure /\ reused' = reused

Counting ==
    /\ UNCHANGED <<attempts, replayable>>
    /\ sender[attempts] = "sending" /\ sender'[attempts] \in {"got", "failed"}
    /\ touched' \in {touched, touched + 1}
    /\ processed' \in {processed, processed + 1}
    /\ dropped' \in {dropped, dropped + 1}
    /\ pc' = "failed" /\ failure' = "unsent" => touched' = touched
    /\ pc' = "failed" /\ failure' \in {"goaway", "refused", "unsent"} => processed' = processed
    /\ pc' = "failed" /\ failure' = "disconnected" /\ reused' => dropped' = dropped + 1

Retrying ==
    /\ pc = "failed" /\ pc' = "start" /\ Retryable(failure)
    /\ attempts' = attempts + 1
    /\ UNCHANGED <<replayable, touched, processed, dropped>>

\* Processing counts one more, or none.
LEMMA CountTyped ==
  ASSUME TypeOK, NEW S, Count(S)
  PROVE  processed' \in {processed, processed + 1} /\ (S \subseteq {FALSE} => processed' = processed)
<1>1. PICK b \in S : processed' = processed + (IF b THEN 1 ELSE 0)
  BY DEF Count
<1>2. CASE b
  BY <1>1, <1>2
<1>3. CASE ~b
  BY <1>1, <1>3 DEF TypeOK
<1> QED BY <1>2, <1>3

\* Consuming the body counts one more, or none.
LEMMA TouchTyped ==
  ASSUME TypeOK, NEW S, Touch(S)
  PROVE  touched' \in {touched, touched + 1} /\ (S \subseteq {FALSE} => touched' = touched)
<1>1. PICK b \in S : touched' = touched + (IF b THEN 1 ELSE 0)
  BY DEF Touch
<1>2. CASE b
  BY <1>1, <1>2
<1>3. CASE ~b
  BY <1>1, <1>3 DEF TypeOK
<1> QED BY <1>2, <1>3

\* Every step is of one of these kinds.
LEMMA Kinds ==
  ASSUME TypeOK, Attempted, [Next]_vars
  PROVE  Quiet \/ Counting \/ Retrying
<1>1. CASE Acquire \/ AcquireDial \/ AcquireFail \/ DialFail \/ Pull \/ Chunk \/ CloseStream
  BY <1>1 DEF Acquire, AcquireDial, AcquireFail, DialFail, Raise, Pull, Chunk, CloseStream, Finish,
              Quiet, request, handover, server
<1>2. CASE AcquireReused \/ DialOk
  BY <1>2 DEF AcquireReused, DialOk, Take, Attempted, TypeOK, Quiet, request, server
<1>3. CASE Taken \/ GiveUp
  BY <1>3 DEF Taken, GiveUp, Claim, Attempted, TypeOK, Quiet, request, server
<1>4. ASSUME NEW f \in Failures, Failed(f)
      PROVE  Counting
  <2>1. Count(Happened(f)) /\ Touch(BodyConsumed(f))
    BY <1>4 DEF Failed
  <2>2. f = "unsent" => BodyConsumed(f) \subseteq {FALSE}
    BY DEF BodyConsumed
  <2>3. f \in {"goaway", "refused", "unsent"} => Happened(f) \subseteq {FALSE}
    BY DEF Happened
  <2>4. /\ touched' \in {touched, touched + 1} /\ (f = "unsent" => touched' = touched)
        /\ processed' \in {processed, processed + 1}
        /\ f \in {"goaway", "refused", "unsent"} => processed' = processed
    BY <2>1, <2>2, <2>3, CountTyped, TouchTyped
  <2>5. /\ dropped' \in {dropped, dropped + 1} /\ reused' = reused
        /\ f = "disconnected" /\ reused => dropped' = dropped + 1
    BY <1>4 DEF Failed, TypeOK
  <2>6. /\ sender[attempts] = "sending" /\ sender'[attempts] = "failed" /\ failure' = f
        /\ UNCHANGED <<attempts, replayable>>
    BY <1>4 DEF Failed, TypeOK, request
  <2> QED BY <2>4, <2>5, <2>6 DEF Counting
<1>5. CASE GiveUpUntimed
  <2>1. touched' \in {touched, touched + 1} /\ processed' \in {processed, processed + 1}
    BY <1>5, CountTyped, TouchTyped DEF GiveUpUntimed
  <2> QED BY <1>5, <2>1 DEF GiveUpUntimed, TypeOK, Counting, request
<1>6. ASSUME NEW cut \in BOOLEAN, GiveBack(cut)
      PROVE  Quiet \/ Retrying
  BY <1>6 DEF GiveBack, MayRetry, Retry, Raise, Quiet, Retrying, handover, server
<1>7. ASSUME NEW i \in Attempts, HandOver(i) \/ AbortResponse(i)
      PROVE  Quiet
  BY <1>7 DEF HandOver, AbortResponse, TypeOK, Quiet, request, server
<1>8. ASSUME NEW i \in Attempts, Answer(i) \/ Vanish(i)
      PROVE  Counting
  <2>1. i = attempts
    <3>1. ~(i < attempts) /\ ~(i > attempts)
      BY <1>8 DEF Answer, Vanish, Attempted
    <3> QED BY <3>1, TimeoutAssumption DEF TypeOK, Attempts
  <2>2. touched' \in {touched, touched + 1} /\ processed' \in {processed, processed + 1}
    BY <1>8, CountTyped, TouchTyped DEF Answer, Vanish
  <2>3. /\ UNCHANGED <<pc, attempts, replayable, failure, dropped>>
        /\ sender[attempts] = "sending" /\ sender'[attempts] \in {"got", "failed"}
    BY <1>8, <2>1 DEF Answer, Vanish, TypeOK, request
  <2>4. pc' = "failed" => failure' = "other"
    BY <2>3 DEF Attempted
  <2>5. sender[attempts] = "sending" /\ sender'[attempts] \in {"got", "failed"} /\ dropped' \in {dropped, dropped + 1}
    BY <2>3
  <2> QED BY <2>2, <2>3, <2>4, <2>5 DEF Counting
<1>9. CASE Dialing \/ Tick \/ UNCHANGED vars
  BY <1>9 DEF Dialing, Tick, vars, Quiet, request, handover, server
<1> QED
  BY <1>1, <1>2, <1>3, <1>4, <1>5, <1>6, <1>7, <1>8, <1>9
  DEF Next, CallerStep, SenderStep, Rest

\* None of them consumes the body more often than there were attempts at it.
LEMMA Consumes ==
  ASSUME TypeOK, Attempted, Consumptions, [Next]_vars
  PROVE  Consumptions'
<1>1. attempts \in Nat /\ touched \in Nat
  BY TimeoutAssumption DEF TypeOK, Attempts
<1>2. CASE Quiet
  BY <1>1, <1>2 DEF Quiet, Consumptions, Before
<1>3. CASE Counting
  BY <1>1, <1>3 DEF Counting, Consumptions, Before
<1>4. CASE Retrying
  <2>1. CASE replayable
    BY <1>1, <1>4, <2>1 DEF Retrying, Consumptions, Before
  <2>2. CASE ~replayable
    BY <1>1, <1>4, <2>2 DEF Retrying, Retryable, Consumptions, Before
  <2> QED BY <2>1, <2>2
<1> QED BY <1>2, <1>3, <1>4, Kinds

\* What is one more than the less is at most one more than the more.
LEMMA OneMore ==
  ASSUME NEW x \in Nat, NEW y \in Nat, NEW p \in Nat, p <= x + 1, x <= y
  PROVE  p <= y + 1
  OBVIOUS

\* None of them has a request processed again but after a dropped connection.
LEMMA Processes ==
  ASSUME TypeOK, Attempted, Processings, [Next]_vars
  PROVE  Processings'
<1>1. processed \in Nat /\ dropped \in Nat
  BY DEF TypeOK
<1>2. CASE Quiet
  <2>1. Extra' = Extra /\ processed' = processed
    BY <1>2 DEF Quiet, Extra
  <2>2. (pc = "failed" /\ Retryable(failure))' => pc = "failed" /\ Retryable(failure)
    BY <1>2 DEF Quiet, Retryable
  <2> QED BY <1>2, <2>1, <2>2 DEF Quiet, Processings
<1>3. CASE Counting
  <2>1. processed <= Extra /\ Extra \in Nat /\ Extra' \in {Extra, Extra + 1} /\ processed' \in {processed, processed + 1}
    BY <1>1, <1>3 DEF Counting, Processings, Extra
  <2>2. ~(sender[attempts] \in {"none", "sending"})'
    BY <1>3 DEF Counting
  <2>3. ASSUME (pc = "failed" /\ Retryable(failure))'
        PROVE  processed' <= Extra'
    <3>1. CASE failure' \in {"goaway", "refused", "unsent"}
      BY <1>1, <1>3, <2>1, <2>3, <3>1 DEF Counting
    <3>2. CASE failure' = "disconnected" /\ reused' /\ replayable'
      BY <1>1, <1>3, <2>1, <2>3, <3>2 DEF Counting, Extra
    <3> QED BY <2>3, <3>1, <3>2 DEF Retryable
  <2>4. processed' <= Extra' + 1
    <3>1. processed' \in Nat /\ Extra' \in Nat /\ processed' <= Extra + 1 /\ Extra <= Extra'
      BY <1>1, <2>1
    <3> QED BY <2>1, <3>1, OneMore
  <2> QED BY <2>2, <2>3, <2>4 DEF Processings
<1>4. CASE Retrying
  <2>1. processed <= Extra /\ Extra' = Extra /\ processed' = processed /\ Extra \in Nat
    BY <1>1, <1>4 DEF Retrying, Processings, Extra
  <2> QED BY <1>1, <1>4, <2>1 DEF Retrying, Processings
<1> QED BY <1>2, <1>3, <1>4, Kinds

-----------------------------------------------------------------------------

(***************************************************************************)
(* The invariant: what is typed, who owns the dial's transport and each     *)
(* attempt's response, and what has been counted.                          *)
(***************************************************************************)
Inv ==
    /\ TypeOK /\ DialOwned /\ Bounded /\ ConnectionGivenBack /\ Attempted
    /\ Consumptions /\ Processings

\* At the start there was no attempt.
LEMMA InvInit ==
  ASSUME Init
  PROVE  Inv
<1>1. TypeOK
  <2>1. DialTypeOK
    BY DEF Init, DialInit, DialTypeOK
  <2>2. {deadline, dialFor, bound} \subseteq Nat \union {None} /\ 0 \in Attempts /\ now \in 0..Horizon
    BY TimeoutAssumption DEF Init, Attempts
  <2> QED BY <2>1, <2>2 DEF Init, TypeOK
<1>2. DialOwned /\ Bounded /\ ConnectionGivenBack
  BY DEF Init, DialInit, DialOwned, Bounded, ConnectionGivenBack
<1>3. Attempted
  BY TimeoutAssumption DEF Init, Attempted, Attempts
<1>4. Consumptions /\ Processings
  BY TimeoutAssumption DEF Init, Consumptions, Processings, Before, Extra, Attempts
<1> QED BY <1>1, <1>2, <1>3, <1>4 DEF Inv

\* Every step keeps all of it.
LEMMA InvNext ==
  ASSUME Inv, [Next]_vars
  PROVE  Inv'
<1>1. TypeOK' /\ Bounded' /\ ConnectionGivenBack' /\ Attempted'
      /\ Consumptions' /\ Processings'
  BY Types, Bounds, GivenBack, AttemptsKept, Consumes, Processes DEF Inv
<1>2. DialOwned'
  BY DialSteps, DialKept DEF Inv, TypeOK
<1> QED BY <1>1, <1>2 DEF Inv

\* So it holds for good.
LEMMA Invariance == Spec => []Inv
<1>1. Init => Inv
  BY InvInit
<1>2. Inv /\ [Next]_vars => Inv'
  BY InvNext
<1> QED BY <1>1, <1>2, PTL DEF Spec

\* The variables of the exchange and of its dial keep to their kinds, and the
\* retries of PoolTransport.send to _MAX_NACK_RETRIES.
THEOREM TransportTyped == Spec => []TypeOK
<1>1. Inv => TypeOK
  BY DEF Inv
<1> QED BY <1>1, Invariance, PTL

\* Whatever way an attempt ends, PoolTransport.send owes the pool a release
\* exactly while it sends, fails or reads a body.
THEOREM GivesBack == Spec => []ConnectionGivenBack
<1>1. Inv => ConnectionGivenBack
  BY DEF Inv
<1> QED BY <1>1, Invariance, PTL

\* A dial that fails, times out or is cancelled leaves no transport open and no
\* connection for a caller that is gone, on every route (_dial, the connectors).
THEOREM NoneStranded == Spec => []NoTransportStranded
<1>1. Inv => NoTransportStranded
  BY DEF Inv, DialOwned, NoTransportStranded
<1> QED BY <1>1, Invariance, PTL

\* The response head that send() leaves for its caller is taken or aborted
\* (_send_on), in every attempt.
THEOREM NoHeadStranded == Spec => []NoResponseStranded
<1>1. Inv => NoResponseStranded
  <2> SUFFICES ASSUME Inv PROVE NoResponseStranded
    OBVIOUS
  <2>1. attempts \in Attempts /\ Attempts \subseteq Nat
    BY TimeoutAssumption DEF Inv, TypeOK, Attempts
  <2>2. \A i \in Attempts : sender[i] \in {"sent", "taken"} => i = attempts
    BY <2>1 DEF Inv, Attempted
  <2> QED BY <2>1, <2>2 DEF Inv, Attempted, NoResponseStranded
<1> QED BY <1>1, Invariance, PTL

\* Every await that total bounds is over by the deadline, for every combination
\* of the timeouts (_effective).
THEOREM DeadlineKept == Spec => []TotalRespected
<1>1. Inv => TotalRespected
  <2> SUFFICES ASSUME Inv, deadline # None, pc \in {"acquire", "send", "pull"}
               PROVE  now <= deadline
    BY DEF TotalRespected
  <2>1. bound # None /\ now <= bound /\ bound <= deadline
    BY DEF Inv, Bounded
  <2>2. now \in Nat /\ bound \in Nat /\ deadline \in Nat
    BY <2>1, TimeoutAssumption DEF Inv, TypeOK
  <2> QED BY <2>1, <2>2
<1> QED BY <1>1, Invariance, PTL

\* For every bound on the retries, a body that cannot be replayed is consumed
\* once, and any other once per attempt (_is_retryable_nack).
THEOREM BodyOnce == Spec => []BodySentOnce
<1>1. Inv => BodySentOnce
  <2> SUFFICES ASSUME Inv PROVE BodySentOnce
    OBVIOUS
  <2>1. attempts \in 0..MaxRetries /\ touched <= Before + 1 /\ touched \in Nat /\ MaxRetries \in Nat
    BY TimeoutAssumption DEF Inv, TypeOK, Attempts, Consumptions
  <2> QED BY <2>1 DEF Before, BodySentOnce
<1> QED BY <1>1, Invariance, PTL

\* For every bound on the retries: each time that a request is processed again, the
\* server had dropped a connection that had served before, and the body can be
\* replayed.  So a body that cannot is processed once, and so is any request when
\* no such connection is dropped (_is_retryable_nack).
THEOREM ProcessedAgainHolds == Spec => []ProcessedAgainOnlyIfDropped
<1>1. Inv => ProcessedAgainOnlyIfDropped
  <2> SUFFICES ASSUME Inv PROVE ProcessedAgainOnlyIfDropped
    OBVIOUS
  <2>1. processed <= Extra + 1 /\ processed \in Nat /\ dropped \in Nat
    BY DEF Inv, TypeOK, Processings
  <2> QED BY <2>1 DEF Extra, ProcessedAgainOnlyIfDropped
<1> QED BY <1>1, Invariance, PTL
=============================================================================
