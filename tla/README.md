# punkreq in TLA+

punkreq is an async HTTP client: a pipeline (`BaseClient.send`: cookies, redirects) over a
transport (`PoolTransport`: retries, timeouts) over a connection pool (`ConnectionPool`: one
shared HTTP/2 connection or parked HTTP/1.1 connections per origin, under a global cap), with
httpunk doing the wire protocol. Its difficulty is not in HTTP: it is in who owns a connection, a
slot of the pool, a stream lease or a response when tasks interleave (on free-threaded Python,
threads do), when any `await` can time out or be cancelled, and when the pool is closed meanwhile.
These modules model that, TLC checks it on small instances, and TLAPS proves the safety properties
for all instances.

## The system's parts

| part | state | operations | interacts with | what makes it correct |
|---|---|---|---|---|
| `ConnectionPool` (`_pool.py`) | per origin: mode, shared connection and its leases, idle list, dial event, leased count; `_count`, `_waiters`, `_closed` | acquire, release, close | called by the transport and the response stream; awaits a dial, `conn.ready()`, `conn.__aexit__`, events | exact books; the cap; no lost wake-up; one owner per h1 connection; coalesced dials; nothing enters a closed pool |
| dialing (`_pool.py` `_dial`, `_connect.py`, `_proxies.py`) | the transport being opened, `abandoned`, `dialed` | direct dial, absolute form, CONNECT tunnel, `enter_connection` | runs under the backend's timeout, beside its caller | no transport left open; no connection left for a caller that is gone |
| `PoolTransport` (`_transport.py`) | attempt count, deadline, `abandoned`/`sent` of an attempt | send, `_send_on`, `_effective` | acquire, release, httpunk, `_PooledStream` | safe retries; every await inside the deadline; no response stranded; connection given back |
| `Response`/`_PooledStream` (`_models.py`, `_transport.py`) | content, closed, consumed, iterator slot; finalized, complete | read, iter_*, close | release; finish callbacks; async generators nested four deep | released once, always; reused only after a whole body |
| `BaseClient.send`, redirects, cookie hooks (`_client.py`, `_redirects.py`, `_cookies.py`) | the hop's request, history | send, `build_redirect_request`, `set_cookie_header`, `extract_cookies` | transport, `Response.read`/`close`; other requests share the jar | credentials stay home; bodies uploaded once; one connection per chain |
| requests side by side (`_client.py`) | the client's one pool; for a module-level call, a client of its own | send, `ResponseHandle`, close, `request`/`get`/... | the pool, the callers' responses, finish callbacks | requests never all wait on each other; nothing left in use; the throwaway client closed, and not too early |
| request bodies, multipart (`_content.py`, `_multipart.py`, `Request`) | what is consumed, the kept content; the caller's files and their positions | framing, iteration, `Request.read` | sent by the transport, again on a retry; files shared with the caller | each upload complete, once, as long as declared; `read()` makes it replayable |
| `Cookies` (`_cookies.py`) | the jar and its lock | set, delete, clear, update, copy, iterate, len | threads of a client and of its caller | an iteration sees one moment; no deadlock between two jars |
| decoders (`_decoders.py`) | buffers and flags across chunks | decode, flush | `Response` iterators | the output does not depend on how the input is cut |
| request building, URLs, headers, auth, config, exceptions, TLS contexts, entry points | none that changes, or plain data | | | not modelled, see below |

Hard behaviours, with their lines, are the `hazards` of `PROJECT.json`; each names the properties
that watch it, or says why none does.

## Modules

* **`Pool.tla`** is `_pool.py`. The unit of atomicity is the code's: one section under `_lock`, or
  one await. `Attempt(t, o)` is one call of `_attempt`, split by its outcome (`AttemptShared`,
  `AttemptIdle`, `AttemptJoin`, `AttemptDial`, `AttemptWait`, `AttemptClosed`), with the
  reclamation (`Culls`), the pruning (`Pruned`) and the removals (`Remove`) that the call makes.
  `Sweep` is `_close_all` with its wake-up, `DialOk`/`DialFail` are `_dial` with `_install` or
  `_abandon_dial`, `ReadyOk`/`ReadyFail`/`Evict`/`ReadyGiveUp` are `_h2_ready`, `WaitWake`/
  `WaitGiveUp` are `_wait`, `Release` is `release`, `ClosePool` is `close`. A task's `pc` says which
  await it is at. `SweepCut`, `ReadyGiveUp` and `WaitGiveUp` are the interruptions of three awaits,
  switched on by the constant `Interrupts`. `Break` and `Expire` are the peer and the clock: clock
  readings are abstracted to their order (`older`) and to whether `keepalive_expiry` has passed.
* **`MCPool.tla`** names the instances' connections, origins and protocols, and their symmetry.
* **`Slots.tla`** is what the pool promises its callers, without origins, leases, stamps, waiting or
  closing of connections: a bounded number of connections, each with one caller unless shareable,
  nothing handed out once shut. `Pool` implements it (`ImplementsSlots`): the pooled connections are
  `Parked \union SharedSet`, a caller's hand is `InHand` (what its `pc` says it is using), the
  dialers are those whose dial is in flight. It says less than `Pool` on purpose: a connection may
  be dropped at any time.
* **`Connect.tla`** is one dial: what the connector is at, who has to close the transport, and the
  hand-over under the dial's own lock. It is a part of
* **`Transport.tla`**, which extends it: one `PoolTransport.send`, its retry loop, the coroutine
  `send()` of each attempt running beside its caller, the deadlines over a counter for a clock, and
  the reads of the body. What the server did when an attempt fails is chosen by the way in which
  it fails (`Happened`, `BodyConsumed`): a graceful GOAWAY, a refused stream and a failure before
  the request was handed to the writer say that it has not processed it; a connection that it drops
  says nothing. `dropped` counts those, where the connection had served before.
* **`Stream.tla`** is a response: tasks read it, iterate it, break out of loops and close it. The
  nested generators of an `iter_*` call are one `chain`, which `aclose()` unwinds down to the
  `_PooledStream`; `Unwind`, `Abort`, `Finish` are the awaits of that teardown in order. What was
  held back at the body's end is handed over in two ways: by the chunker of `iter_raw`, ahead of the
  `finally` that closes the response (`YieldTail`, the chain is at `"tail"`); by `iter_bytes`,
  `iter_text` and `iter_lines` after it, when the response is closed already (`YieldRest`, `"rest"`).
* **`Exchange.tla`** is what a response promises its client and the pool: given back once, for
  reuse only when whole, callbacks after that, and both eventually. `Stream` implements it, liveness
  included (`ImplementsExchange`).
* **`Client.tla`** is `BaseClient.send` for one request. A header is abstracted to where its value
  comes from (the caller, or the jar of a host at some version).
* **`Session.tla`** composes: several requests of one client over `Slots`, each going through its
  hops, with the response in its caller's hands at the end, `close()` at any time, or a throwaway
  client for one request. A caller of the pool is a hop, `<<request, number>>`; `Take`,
  `BeginDial`, `Deliver`, `FailDial`, `Return`, `Shut` and `Drop` are the actions of `Slots`, each
  conjoined with what the client does at that call. `MCSession` gives `Tasks` its value.
* **`Uploads.tla`** is the body of one request. A chunk of the output is a pair (which field, which
  part of it), a length counts chunks, files are positions that the caller may move meanwhile.
* **`Jar.tla`** is `Cookies` as threads use it, lock by lock: `Locked` is `_cookies_lock` taken for
  an iteration, `Copied` its release before an update is applied to the other jar.
* **`Decoders.tla`** runs the incremental decoders on inputs cut anywhere; the reference
  definitions are `SplitLines` (by the positions at which a line ends, `LineEnds`) and `Pieces` of
  the whole input. The kind `chain` is the pipeline of
  `_iter_bytes` and `_iter_text`: two decoders that keep back as much as they like, then a chunker.
* **`MCClient.tla`** puts `Client`, `Decoders`, `Uploads` and `Jar`, which share nothing, side by side
  for one run: a behaviour is of one of them, and the others stay as they are.
* **`PoolProofs`, `PoolBooks`, `SessionProofs`** (with those of `Slots`), **`StreamProofs`,
  `TransportProofs`, `ClientProofs`** (with those of `Jar`), **`BodiesProofs`, `BodiesExact`** hold the
  theorems.

How the parts are joined. `Transport` and `Stream` meet `Pool` at acquire (in `Transport`, the
pool's answer is `AcquireReused`, `AcquireDial` or `AcquireFail` at any time) and release (in both
the give-back). `Session` is what the pool's callers amount to over a client's life, and stands on
`Slots`, which `Pool` is shown to implement; what it takes for granted of one exchange is what
`Transport`, `Stream` and `Client` show: an attempt gives its connection back
(`ConnectionGivenBack`), a response does so once and always (`ImplementsExchange`), a hop is sent
only after that (`OneConnectionPerChain`).

A definition with the comment "A slip" is never used by the specification: it is a plausible
mistake in the definition that follows it, and each property is tried against one of them.

## Runs

| run | checks | instance |
|---|---|---|
| `pool_core` | `TypeOK`, `ExclusiveUse`, `CountExact`, `NoLostWakeup`, `DialInFlight`, `OneSharedConn`, `LeasesExact`, `NoOrphan`, `EntriesJustified`, `LeasedNotReclaimed` | 3 tasks, origins alpha (h1) and beta (h2), 3 h1 and 2 h2 connections, cap 2, keep-alive cap 1, expiry, interruptible waits |
| `pool_mixed` | `CapRespected`, `ImplementsSlots` | alpha negotiates h1 or h2 dial by dial; all awaits interruptible |
| `pool_live` | `NotStuck`, `CoalescedWakes`, `DrainsAfterClose` | cap 1, fairness |
| `stream` | `KeptOnlyWhenWhole`, `OnlyStraysRemain`, `ImplementsExchange` | 3 tasks, 3 iterators, fairness |
| `transport` | `BodySentOnce`, `ProcessedAgainOnlyIfDropped`, `NoResponseStranded`, `ConnectionGivenBack`, `TotalRespected`, `NoTransportStranded`, `Terminates` | 2 retries, deadlines none, 0 and 2, clock to 6, all routes, fairness |
| `client` | `Client`: `TypeOK`, `CredentialsStayHome`, `UploadedOnce`, `OneConnectionPerChain` | 2 https origins and 1 http, 3 redirects, jar versions to 2 |
| | `Decoders`: `LinesUncut`, `DeflateDetected`, `TruncationRefused`, `PipelineExact` | inputs to 6 symbols, chunks to 3, pieces of 2 |
| | `Uploads`: `UploadExact`, `ReadFreezes` | 2 users, 2 files of length 2, 2 iterations |
| | `Jar`: `SeenAtOnce`, `NoCircularWait` | 2 threads, 2 jars, 3 domains |
| `session` | `NothingLeftBehind`, `ThrowawayClosed`, `EveryRequestEnds` | 3 requests of up to 2 hops, 2 slots, 3 connections of which one shareable, fairness |
| `pool_ready_timeout`, `pool_cancelled_close`, `transport_total`, `transport_race`, `client_headers` | one property each, violated: see Findings | of the same size as the passing runs, or smaller |

Bounds, and why they are enough:

* Pool: with three tasks there are a releaser, a waiter and a third to take the slot or the
  connection between them; two origins make reclamation across origins happen; a cap of two (one in
  `pool_live`) is reached by every mix of dialing, in use and idle; there are more connection
  objects than the cap admits, so a connection can be evicted, closed, and another installed before
  a late release. `Fresh` connections are reused objects that the program no longer refers to. A
  count made negative by a release after close stays bounded because the state space is finite: a
  closed pool starts nothing. The live run leaves expiry out (it adds stale connections, which the
  core run has) and has one h2 connection.
* Stream: two closers and a reader, and as many iterators as may be alive in tasks plus the slot.
* Transport: `_MAX_NACK_RETRIES` has its value, 2. The clock stops at `Horizon` (6), beyond every
  deadline and everything computed from one. `Connect` and `Read` are None in the passing run, so
  each await's bound is what is left of the deadline, the most it can be.
* Client: three redirects go away, come back and leave again (s1, s2, s1, p1); a jar that changes
  twice changes before and during a chain.
* Session: three requests over two slots, so that both may be taken by requests that ask for another
  hop while a third waits; one redirect each, and one connection that two requests may share.
* Decoders: six symbols have a CR LF at every position relative to cuts and to other newlines.
* Uploads: two users overlap on one body, a second iteration follows the first, and a form of two fields has
  every mix of values, files, sized or not, and the same file twice.
* Jar: two threads updating two jars from each other is the smallest circle; three domains are one
  already seen, one at hand and one to come.

`CHECK_DEADLOCK` is on everywhere: a pool task at rest may always call again, and the finite
exchanges (`Transport`, `Client`, `Decoders`) may rest (`Rest`, `ClientRest`) in their final states only. In
`Session` close() may always be called again, or the pool drop nothing.

### Fairness

* `Pool`: a task that runs is scheduled, dials and `ready()` settle one way or the other, closing a
  connection ends, and callers release what they hold (`Stream` shows the stream does). Only weak
  fairness, per task; nothing is assumed of new calls, `close`, interruptions or the peer. `NotStuck`
  is therefore not "every waiter is served": the wake-up wakes everybody and slots are not handed
  over, so a waiter may lose the race for ever. It says that it does not sleep beside a slot.
* `Stream`: the awaits of a teardown end, by completion or cancellation. The peer may never send
  another chunk, and no caller is assumed to read on or to close.
* `Transport`: the clock ticks, an await that has timed out ends (what `backend.timeout` is for), a
  caller reads on. Nothing is assumed of the server, nor that the pool ever has a connection to
  give, and `Terminates` is about requests with a deadline only. But no timeout bounds the closing of
  stale connections inside `acquire` (`_pool.py:124`), nor `release` (`_transport.py:273`); both are
  single steps here, so `Terminates` takes it that they end, and `TotalRespected` does not count the
  time they take.
* `Session`: the pool serves some waiter while it has room (`NotStuck`: which one is not promised, so
  fairness is of "some request acquires"), a closed pool refuses those who ask, each await of
  `send()` ends, and callers finish with their responses. Nothing is assumed of timeouts: a request
  that never times out ends as well.
* `Client`, `Uploads`, `Jar`, `Decoders`: none; their properties are safety.

## Findings

1. `pool_ready_timeout`: an acquirer that gives up while it waits for an h2 stream returns its
   lease without waking the capacity waiters (`_pool.py:345-347`, `360-364`), although the
   connection may have become reclaimable by that. `release` does wake them.
2. `pool_cancelled_close`: a cancellation that reaches `await self._close_all(stale)`
   (`_pool.py:124`) loses what `_attempt` had just taken: the slot of a dial, a leased connection,
   the event others coalesce on.
3. `transport_total`: `connect_timeout` is bounded by the deadline before the wait for the pool and
   used after it (`_transport.py:261`).
4. `client_headers`: what the client itself put on a hop is inherited by the next one as if it were
   the caller's. A same-origin redirect keeps the Cookie header that the jar made for the hop before,
   so cookies set by the redirect are not sent with it; https → https → http keeps the Referer of the
   first hop (`_redirects.py:44`, `58-68`).
5. `transport_race`: a disconnect on a connection that has served before is retried whatever the
   method (`_transport.py:97`), although a server that processed the request before it dropped the
   connection cannot be told from one that did not: not "demonstrably never processed"
   (`_transport.py:73-74`, `README.md:19-20`). It is so for h2 as well, where there is no keep-alive
   race to speak of. `ProcessedAgainOnlyIfDropped`, which holds, says that this is the only way.

Other observations, not checked by a run of their own:

* An origin that negotiates h1 first and h2 later: `_install` replaces a live shared connection by
  another without closing it (`_pool.py:320`); `NoOrphan` fails with `MixedProtocols` and the limit
  still holds, since its slot stays counted.
* A shared h2 connection idle for longer than `keepalive_expiry` is handed out (`_pool.py:223-230`);
  only reclamation's LRU looks at its idle time.
* `build_redirect_request` may raise for a bad Location (`_client.py:240`), and then nobody closes
  the response: state `misdirected` of `Client`.
* A `Request` that is sent twice keeps the deadline pinned by the first send (`_client.py:217-219`).
* A first chunk of one byte of raw deflate makes `DeflateDecoder` fail on the second one. Behind
  another decoder the first chunk may also be empty (a gzip header alone), with the same effect.
* A chain pushed out of the iterator slot by another `iter_*` call is not unwound by `close()`; its
  loop ends silently when resumed after the stream's close. The connection is given back all the
  same.
* A caller's own Content-Length with an iterable body of unknown length leaves both framings on the
  request.
* One file given as two fields is counted twice by the declared length and read once
  (`_multipart.py:138-146`, `103-113`): the upload falls short of its Content-Length, which
  `test_multipart.py:60` takes to be the length of the body (`SharedFile` of `Uploads`).
* A multipart stream has no guard against a second iteration and does not rewind its files
  (`_multipart.py:155`). After a send that broke off within a file, `Request.read()` keeps, and
  replays from then on, a body without what had been read, although "afterwards the body is
  replayable" (`_models.py:90`); and a second send comes out shorter than its Content-Length
  (`Muddled` of `Uploads`).
* `_is_stream_consumed` is checked and then set: that is enough between tasks of one thread only.

## What is proved

TLAPS checks 41 theorems, for every value of the constants that satisfies the named assumptions of
the modules (TLC evaluates those on every run). In each module the argument is one inductive
invariant, a lemma per conjunct, with a step per action.

* **`PoolProofs`**: for all finite sets of tasks and connections, all origins, protocols, limits and
  interruptible awaits.
  * `TypeCorrect`. `TypeOK` is not inductive: a release subtracts a lease only for a task that holds
    a connection. `Types` adds `Places` (a task's place determines which of its fields mean
    something) and `Kinds` (only h2 connections are shared, only h1 ones are parked).
  * `ExclusiveUseHolds`. `ExclusiveUse` is inductive given `Types`: a step gives out a connection it
    takes off the books, closes one it took off the books or out of its own hands, or is handed a
    `Fresh` one. Two lemmas cover all actions but four: a step that moves connections from the books
    to one task's hands (`CullKeepsExclusive`) and one that moves none (`ShrinkKeepsExclusive`).
  * `CapHolds`. The bound on `_count` is by the guard of `AttemptDial`; that the live connections do
    not exceed `_count` is `LiveCounted`, which, unlike `CountExact`, survives the leaks of finding
    2: a slot may be lost, never gained.
  * `PoolImplementsSlots`, `Spec => ImplementsSlots`. Every action maps to one step of `Slots` or to
    a stutter, given `Types` and `Room` (the capacity that `CapHolds` proves, which `BeginDial` of
    `Slots` has as its guard). Leaks are no obstacle: `Slots` counts connections, not `_count`.
* **`PoolBooks`**, which goes on from there: what the pool's books say of its callers. A part of the
  books is changed by few of the two dozen actions, so each section names the kinds of step that its
  part knows, shows that every action is of one of them, and argues about the kinds.
  * `LeasesExactHolds`, without hypotheses. `SharingInv`: a connection is shared at one origin only
    (`Apart`), and whoever streams on one that is still shared works on its origin (`Home`), so
    that a late release, after the connection was replaced, finds a connection that is not its own.
  * `OneSharedConnHolds`, without hypotheses; `DialInFlightHolds`. `DialsInv`: a closed pool has no
    books (`ClosedBooks`); who joined a dial joined an announced one (`JoinedAnnounced`), which
    somebody performs (`AnnouncedPerformed`); at an origin that only speaks h2 there is one dialer
    at most (`SoleDialer`).
  * `LeasedNotReclaimedHolds`, an action property, from `SharingInv` and `DialsInv`.
  * `EntriesJustifiedHolds`. `LeasedCovers`: `host.leased` never understates who holds a connection.
  * `CountExactHolds`, `NoOrphanHolds`. `_count` is a sum over all the tasks and origins; the proof
    has a lemma for each way in which an action moves connections between the parts of that sum.
    `OpenAccounted`: what is open is counted, or some task is about to close it.
  * `NoLostWakeupHolds`, for any mix of protocols. `WakeInv`: after each step while the pool is open a
    wake-up is pending, or everybody has been woken, or no slot has appeared, or there is none. A task
    begins to wait only where reclamation finds nothing to take; that it finds something where there
    is something needs the idle-since stamps to be kept and totally ordered (`Ordered`).
  * Hypotheses, and where what they leave out goes wrong. `"close" \notin Interrupts`
    (`CountExactHolds`, `NoOrphanHolds`, `DialInFlightHolds`, `EntriesJustifiedHolds`,
    `NoLostWakeupHolds`): finding 2. `"ready" \notin Interrupts` (`NoLostWakeupHolds`): finding 1.
    `Unmixed`, no origin negotiates h1 on one dial and h2 on another (`LeasedNotReclaimedHolds`,
    `CountExactHolds`, `NoOrphanHolds`): the first of the observations. Interrupted waits for
    capacity or a dial, deaths, GOAWAYs, expiry and `close()` are in all of them.
* **`SessionProofs`**: of the abstract pool, `CapacityHeld`, `ExclusiveAlone`, `NothingAfterClose`. By
  the refinement the pool's callers may rely on them; the invariant adds that a shut pool is empty.
  Of the client, `SessionUsesSlots` (the requests of a client take only steps that `Slots` has,
  so the theorems above hold under them), `NoneLeftBehind`, `ThrowawayEnds`, for any number of
  requests and redirects. The invariant adds that a draining hop has another to go to, that a
  misdirected request goes nowhere, and that a throwaway client has one request.
* **`StreamProofs`**: `StreamTyped` (one give-back at most, callbacks once at most), `KeptWhole`,
  `OnlyStraysHolds` and `KeepsPromise`, the safety of `ImplementsExchange`, for any number of tasks
  and iterators. The invariant: one chain at most is in the body, with one driver at most, and after the body's end only
  to be unwound (`Single`); one task is in the stream's close (`Turns`); its `discard` and the wire
  agree with `complete` until the give-back (`Judged`); a chain that is out is in the slot, where
  `close()` finds it, or its driver is ending it, or it was pushed out of the slot, or it is past the
  `finally` that closes the response (`Placed`).
* **`TransportProofs`**: `TransportTyped`, `GivesBack`, `NoneStranded`, `NoHeadStranded`,
  `DeadlineKept`, `BodyOnce`, `ProcessedAgainHolds`, for any number of retries, timeouts, deadlines and
  mix of routes. The invariant: who owns the dial's transport (`DialOwned`); an await that total
  bounds ends by it (`Bounded`); earlier attempts failed and later ones have not begun (`Attempted`);
  what has been consumed and processed so far by attempt (`Consumptions`, `Processings`).
* **`ClientProofs`**: `ClientTyped`, `CredentialsHeld`, `UploadedOnceHolds`,
  `OneConnectionHolds`, for any origins and any `max_redirects`. The invariant says of the request at
  hand *and* of the one built to follow it what they may carry, and where a streamed body still is.
  That what was dropped stays dropped, the other half of `CredentialsHeld`, takes one part more: the
  request that follows has nothing of the caller's that the one at hand has not (`Derived`).
  Of `Jar`, `JarSeenAtOnce` and `JarsNeverDeadlock`, for any threads, jars and domains: a thread
  holds the lock of the jar its call goes through, and no other.
* **`BodiesProofs`**: of `Decoders`, for inputs of any length cut anywhere and pieces of any size,
  `DeflateDetectedHolds`, `TruncationRefusedHolds` and `PipelineExactHolds`; of `Uploads`, for any
  tasks, files and number of iterations, `ReadFreezesHolds`.
  * `PipelineInv`: of the input, q whole pieces are out, and what is left of it is the chunker's
    buffer, shorter than a piece, then what the second decoder keeps, then what the first one keeps.
    The lemmas are about `Whole` and `After`, the first q pieces of a sequence and the rest of it:
    how they split (`WholeSplit`, `AfterSplit`), grow (`Grows`) and end (`Ends`).
  * `FreezeInv`: one task at most iterates a body until a second iteration begins, which only a
    multipart body allows; one without files is gone through item by item as `Plan` says, so that
    whoever overlaps with a `read()` gets the same from it.

* **`BodiesExact`**, which goes on from there: the two theorems that need induction over data. No
  induction theorem of the library can be cited, since each takes an operator, but `Least` (a set of
  numbers has a least one) follows from the well-foundedness of finite sets' strict inclusion, which
  takes none, and `Climb` (a set of numbers with 0 and all successors has all of them) from `Least`:
  what is to be proved of every number is stated as the set of the numbers it holds of.
  * `LinesUncutHolds`, for text of any length cut anywhere. `LinesInv`: what was fed is some text
    that ends with its last line, then the buffer, then a "\r" that is held back; what is out is the
    lines of the first. The lines of two texts one after the other are those of the one, then those
    of the other (`LinesSplit`), because the positions that end a line are (`EndsSplit`, `NthSplit`),
    unless a "\r\n" is cut in two (`Seam`), which is what holding the "\r" back prevents.
  * `UploadExactHolds`, for any tasks, files of any length, and iterations. `ExactInv`: there are
    positions of the files at which the request was built (`BuiltAt`), the content intended and the
    length declared being those of the plan's items from there (`ContentIs`, `LengthTrue`: a fold
    over a set is a sum whatever the order, and that sum is the length of the concatenation); and
    for as long as nobody else has used the files, whoever iterates the body has got exactly the
    items before the one it is at, and what was read of that one's file (`Along`). That part
    rests on `FreezeInv`, by which only one task ever reads a file. It needs a multipart body with
    files to be iterated once (`Muddled`) and no file to be in it twice (`SharedFile`): what
    happens otherwise is among the observations. Of those bodies `Within` remains: however many tasks read the files,
    and however often, none gets more than its items give, because what is read of a file is between
    where it was and its end (`Room`); so an upload may fall short of its Content-Length, but never
    exceeds it. Nothing is claimed once somebody else has used a file (`touched`).

Only model-checked: all liveness (`NotStuck`, `CoalescedWakes`, `DrainsAfterClose`, `Terminates`,
`EveryRequestEnds`, the fair half of `ImplementsExchange`), which is out of the prover's reach, as
ENABLED is.

## Not modelled

* Request building and the verb methods (`BaseClient.build_request` and its merges): one sequential
  function from immutable values to the request that `Client` starts with.
* URLs: parsing, quoting and joining of strings, most of it `urllib`'s. `Client` has origins.
* Headers: a case-insensitive multi-map over httpunk's. The headers that matter to a property are
  fields of the requests in `Client`.
* Auth: sets one header, `auth` in `Client`. `Timeout`, `Limits`: the constants of `Transport` and
  `Pool`.
* TLS contexts and proxy matching: configuration read once; the route is a constant of `Connect`.
* Exceptions, entry points: a class hierarchy, bindings to a backend.
* The backend's TLS handshake: that a transport is closed when it fails or is cancelled (`securing` in
  `Connect`) is what the comment at `_proxies.py:136-138` says of the backend; the lines themselves
  handle `TypeError` only.
* The codecs and httpunk, the wire protocol: libraries. Gzip, brotli and text decoders appear in the
  chain of `Decoders` as decoders that keep some output back; their errors do not.
* Matching of cookies to hosts and paths: `http.cookiejar`.
* A `Request` sent twice, and the expiry of h2 connections: see the observations.

## Plan

Done: all that is listed above. Left: decoding errors in the middle of a chain; a `Request` sent by two calls
of `send`.
