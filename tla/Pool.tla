-------------------------------- MODULE Pool --------------------------------
(***************************************************************************)
(* The connection pool of punkreq, src/punkreq/_pool.py: per-origin books  *)
(* of parked HTTP/1.1 connections and one shared HTTP/2 connection, a cap  *)
(* on live connections with reclamation of idle ones, coalesced dials, and *)
(* waiting for a dial or for capacity.                                     *)
(*                                                                         *)
(* The unit of atomicity is the code's: one section under `_lock`, or one  *)
(* await.  A task is a caller inside acquire, between acquire and release, *)
(* inside release, or inside close.  A connection is one of Conns; what    *)
(* httpunk and the peer do to it is the environment's (Break, Expire).     *)
(* Clock readings are abstracted to their order (older) and to whether     *)
(* keepalive_expiry has passed (expired).                                  *)
(***************************************************************************)
EXTENDS Integers, FiniteSets

CONSTANTS
    Tasks,        \* callers of the pool
    Conns,        \* connection objects
    Origins,      \* (scheme, host, port)
    None,
    Multiplexed,  \* the connections that negotiated h2 (_is_multiplexed)
    Protocols,    \* what a dial to an origin may negotiate: "h1", "h2" or both
    MaxConns,     \* Limits.max_connections, a number or None
    MaxKeepAlive, \* Limits.max_keepalive_connections, a number or None
    Expiry,       \* whether Limits.keepalive_expiry is set
    Interrupts    \* awaits that a timeout or a cancellation may cut short:
                  \* "wait" (_wait), "ready" (conn.ready()), "close" (__aexit__)

ASSUME TasksAssumption == IsFiniteSet(Tasks) /\ None \notin Tasks
ASSUME ConnsAssumption == IsFiniteSet(Conns) /\ None \notin Conns
ASSUME OriginsAssumption == IsFiniteSet(Origins) /\ None \notin Origins
ASSUME NoneAssumption == None \notin Int \union {"h1", "h2"}
ASSUME ProtocolAssumption ==
    /\ Multiplexed \subseteq Conns
    /\ Protocols \in [Origins -> SUBSET {"h1", "h2"}]
ASSUME LimitsAssumption ==
    /\ MaxConns \in (Nat \ {0}) \union {None}
    /\ MaxKeepAlive \in Nat \union {None}
    /\ Expiry \in BOOLEAN
    /\ Interrupts \subseteq {"wait", "ready", "close"}

VARIABLES
    mode,     \* host.mode of each origin; an origin without an entry has the
              \* values of a new _HostState
    shared,   \* host.shared
    idle,     \* host.idle, as a set: `older` orders it
    dialing,  \* whether host.dialing holds the event of a coalesced dial
    leased,   \* host.leased
    leases,   \* host.shared_leases, meaningful (0 otherwise) while shared is set
    count,    \* _count
    waiters,  \* _waiters: the tasks whose capacity event is not yet set
    closed,   \* _closed
    joined,   \* the tasks that hold the unset event of their origin's dial
    older,    \* <<c, d>>: c's idle-since stamp precedes d's
    expired,  \* stamped at least keepalive_expiry seconds ago
    wire,     \* "up"; "down": conn.closed or conn.busy; "closed": closed by us
    pc,       \* where each task is
    origin,   \* the origin it works on
    conn,     \* the connection it was given
    closing,  \* the connections it is about to close
    then      \* where it goes once they are closed

books == <<mode, shared, idle, dialing, leased, leases, count, closed>>
stamps == <<older, expired>>
places == <<pc, origin, conn, closing, then>>
vars == <<books, waiters, joined, stamps, wire, places>>

-----------------------------------------------------------------------------

Parked == UNION {idle[o] : o \in Origins}

SharedSet == {shared[o] : o \in Origins} \ {None}

\* A slip: a connection that is streaming counts as resting.
RestingOrLeased == SharedSet

Resting == {shared[o] : o \in {p \in Origins : leases[p] = 0}} \ {None}

\* What reclamation may take once nothing is stale: every connection whose
\* stamp is meaningful.
Spare == Parked \union Resting

Live == {c \in Conns : wire[c] = "up"}

Dead(c) == c \notin Live

Unfit(c) == Dead(c) \/ c \in expired

NoShared(o) == shared[o] \notin Live

\* The entries of its own origin that an attempt discards on its way to a dial.
Own(o) == (idle[o] \union {shared[o]}) \ {None}

Stale == {c \in Parked : Unfit(c)} \union {c \in SharedSet : Dead(c)}

\* A slip: off by one.
AtCapLate(o) == MaxConns # None /\ count - Cardinality(Own(o)) > MaxConns

AtCap(o) == MaxConns # None /\ count - Cardinality(Own(o)) >= MaxConns

Oldest(S) == {c \in S : \A d \in S \ {c} : <<c, d>> \in older}

\* The sets of connections an attempt on a dry origin may remove to get a slot:
\* its own leftovers if that is enough, else everything stale, else the single
\* least recently used spare connection.  Empty: there is no slot.
Culls(o) ==
    IF ~AtCap(o) THEN {Own(o)}
    ELSE IF Stale \ Own(o) # {} THEN {Stale \union Own(o)}
    ELSE {Own(o) \union {c} : c \in Oldest(Spare \ Own(o))}

\* A slip: entries are kept.
NeverPruned(S) == mode

\* _prune_locked for the origins of S, once the other books are settled.
Pruned(S) ==
    [o \in Origins |->
        IF o \in S /\ shared'[o] = None /\ idle'[o] = {} /\ ~dialing'[o] /\ leased'[o] = 0
        THEN None ELSE mode[o]]

Forget(S) ==
    /\ older' = {p \in older : p[1] \notin S /\ p[2] \notin S}
    /\ expired' = expired \ S

\* c's idle-since stamp is taken now.
Stamp(c, others) ==
    /\ older' = {p \in older : p[1] # c /\ p[2] # c} \union (others \X {c})
    /\ expired' = expired \ {c}

\* A slip: a parked connection stays parked.
RemoveSharedOnly(S) ==
    /\ shared' = [o \in Origins |-> IF shared[o] \in S THEN None ELSE shared[o]]
    /\ leases' = [o \in Origins |-> IF shared[o] \in S THEN 0 ELSE leases[o]]
    /\ UNCHANGED idle

\* The books without the connections of S.
Remove(S) ==
    /\ idle' = [o \in Origins |-> idle[o] \ S]
    /\ shared' = [o \in Origins |-> IF shared[o] \in S THEN None ELSE shared[o]]
    /\ leases' = [o \in Origins |-> IF shared[o] \in S THEN 0 ELSE leases[o]]

\* The task closes S, wakes the capacity waiters and goes to `next`.
Sweeping(t, S, next) ==
    /\ pc' = [pc EXCEPT ![t] = "sweep"]
    /\ closing' = [closing EXCEPT ![t] = S]
    /\ then' = [then EXCEPT ![t] = next]

\* `await self._close_all(S)`: nothing to do, nobody to wake, when S is empty.
CloseAll(t, S, next) ==
    IF S = {}
    THEN pc' = [pc EXCEPT ![t] = next] /\ UNCHANGED <<closing, then>>
    ELSE Sweeping(t, S, next)

\* The task's call returns or raises.
Leave(t) ==
    /\ pc' = [pc EXCEPT ![t] = "idle"]
    /\ origin' = [origin EXCEPT ![t] = None]
    /\ conn' = [conn EXCEPT ![t] = None]

\* A slip: the event is not set.
ForgetDial(o) ==
    /\ dialing' = [dialing EXCEPT ![o] = FALSE]
    /\ UNCHANGED joined

\* host.dialing of origin o is cleared and its event, if any, set.
SignalDial(o) ==
    /\ dialing' = [dialing EXCEPT ![o] = FALSE]
    /\ joined' = {u \in joined : ~(dialing[o] /\ origin[u] = o)}

-----------------------------------------------------------------------------

Init ==
    /\ mode = [o \in Origins |-> None]
    /\ shared = [o \in Origins |-> None]
    /\ idle = [o \in Origins |-> {}]
    /\ dialing = [o \in Origins |-> FALSE]
    /\ leased = [o \in Origins |-> 0]
    /\ leases = [o \in Origins |-> 0]
    /\ count = 0
    /\ waiters = {}
    /\ closed = FALSE
    /\ joined = {}
    /\ older = {}
    /\ expired = {}
    /\ wire = [c \in Conns |-> "closed"]
    /\ pc = [t \in Tasks |-> "idle"]
    /\ origin = [t \in Tasks |-> None]
    /\ conn = [t \in Tasks |-> None]
    /\ closing = [t \in Tasks |-> {}]
    /\ then = [t \in Tasks |-> "idle"]

(***************************************************************************)
(* _attempt: one scheduling decision under the lock, on entry to acquire   *)
(* and again whenever its loop comes round.                                *)
(***************************************************************************)
AtAttempt(t, o) == pc[t] = "idle" \/ (pc[t] = "attempt" /\ origin[t] = o)

AttemptClosed(t, o) ==
    /\ closed /\ AtAttempt(t, o)
    /\ Leave(t)
    /\ UNCHANGED <<books, waiters, joined, stamps, wire, closing, then>>

\* A stream lease on the live shared connection.
AttemptShared(t, o) ==
    /\ ~closed /\ AtAttempt(t, o)
    /\ ~NoShared(o)
    /\ leases' = [leases EXCEPT ![o] = @ + 1]
    /\ Forget({shared[o]})
    /\ conn' = [conn EXCEPT ![t] = shared[o]]
    /\ origin' = [origin EXCEPT ![t] = o]
    /\ pc' = [pc EXCEPT ![t] = "ready"]
    /\ UNCHANGED <<mode, shared, idle, dialing, leased, count, closed, waiters, joined, wire, closing, then>>

\* The most recently parked connection that is still fit; the unfit ones
\* popped before it are closed first.
AttemptIdle(t, o) ==
    /\ ~closed /\ AtAttempt(t, o)
    /\ NoShared(o)
    /\ \E c \in idle[o] :
         LET newer == {d \in idle[o] \ {c} : <<c, d>> \in older}
             gone == (newer \union {shared[o]}) \ {None}
         IN /\ ~Unfit(c)
            /\ \A d \in idle[o] \ {c} : ~Unfit(d) => <<d, c>> \in older
            /\ Remove(gone \union {c})
            /\ Forget(gone \union {c})
            /\ count' = count - Cardinality(gone)
            /\ leased' = [leased EXCEPT ![o] = @ + 1]
            /\ conn' = [conn EXCEPT ![t] = c]
            /\ origin' = [origin EXCEPT ![t] = o]
            /\ CloseAll(t, gone, "hold")
    /\ UNCHANGED <<mode, dialing, closed, waiters, joined, wire>>

Dry(o) == NoShared(o) /\ \A c \in idle[o] : Unfit(c)

\* A slip: the first dial to an origin is not shared.
CoalescesKnownH2(o) == dialing[o] /\ mode[o] = "h2"

\* The origin's first dial, or its h2 re-dial, is in flight: coalesce on it.
Coalesces(o) == dialing[o] /\ mode[o] # "h1"

AttemptJoin(t, o) ==
    /\ ~closed /\ AtAttempt(t, o)
    /\ Dry(o) /\ Coalesces(o)
    /\ Remove(Own(o))
    /\ Forget(Own(o))
    /\ count' = count - Cardinality(Own(o))
    /\ joined' = joined \union {t}
    /\ origin' = [origin EXCEPT ![t] = o]
    /\ CloseAll(t, Own(o), "wait")
    /\ UNCHANGED <<mode, dialing, leased, closed, waiters, wire, conn>>

\* A slot is free or was reclaimed: it is taken, and the origin's entry is in
\* place whatever the reclaim scan pruned.
AttemptDial(t, o) ==
    /\ ~closed /\ AtAttempt(t, o)
    /\ Dry(o) /\ ~Coalesces(o)
    /\ \E gone \in Culls(o) :
         /\ Remove(gone)
         /\ Forget(gone)
         /\ count' = count - Cardinality(gone) + 1
         /\ CloseAll(t, gone, "dial")
    /\ dialing' = [dialing EXCEPT ![o] = @ \/ mode[o] # "h1"]
    /\ leased' = leased
    /\ mode' = Pruned(IF AtCap(o) THEN Origins \ {o} ELSE {})
    /\ origin' = [origin EXCEPT ![t] = o]
    /\ UNCHANGED <<closed, waiters, joined, wire, conn>>

\* Every counted connection is in flight: wait for capacity.
AttemptWait(t, o) ==
    /\ ~closed /\ AtAttempt(t, o)
    /\ Dry(o) /\ ~Coalesces(o)
    /\ Culls(o) = {}
    /\ Remove(Own(o))
    /\ Forget(Own(o))
    /\ count' = count - Cardinality(Own(o))
    /\ UNCHANGED <<dialing, leased>>
    /\ mode' = Pruned(Origins)
    /\ waiters' = waiters \union {t}
    /\ origin' = [origin EXCEPT ![t] = o]
    /\ CloseAll(t, Own(o), "wait")
    /\ UNCHANGED <<closed, joined, wire, conn>>

Attempt(t, o) ==
    \/ AttemptClosed(t, o)
    \/ AttemptShared(t, o)
    \/ AttemptIdle(t, o)
    \/ AttemptJoin(t, o)
    \/ AttemptDial(t, o)
    \/ AttemptWait(t, o)

(***************************************************************************)
(* _close_all, and the _wake_waiters that ends it (and that ends release,  *)
(* close, _abandon_dial and the eviction in _h2_ready).                    *)
(***************************************************************************)
Closed(S) == [c \in Conns |-> IF c \in S THEN "closed" ELSE wire[c]]

\* _wake_waiters: everyone is woken, and tries again.
Wake == waiters' = {}

Sweep(t) ==
    /\ pc[t] = "sweep"
    /\ wire' = Closed(closing[t])
    /\ Wake
    /\ closing' = [closing EXCEPT ![t] = {}]
    /\ then' = [then EXCEPT ![t] = "idle"]
    /\ IF then[t] = "idle"
       THEN Leave(t)
       ELSE pc' = [pc EXCEPT ![t] = then[t]] /\ UNCHANGED <<origin, conn>>
    /\ UNCHANGED <<books, joined, stamps>>

\* A cancellation reaches the task while it closes connections: what it had
\* still to close stays open, nobody is woken, and what acquire had taken for
\* its caller is not given back.
SweepCut(t) ==
    /\ "close" \in Interrupts
    /\ pc[t] \in {"sweep", "refused"} /\ closing[t] # {}
    /\ \E S \in SUBSET closing[t] : wire' = Closed(S)
    /\ joined' = joined \ {t}
    /\ closing' = [closing EXCEPT ![t] = {}]
    /\ then' = [then EXCEPT ![t] = "idle"]
    /\ Leave(t)
    /\ UNCHANGED <<books, waiters, stamps>>

(***************************************************************************)
(* _dial and _install.                                                     *)
(***************************************************************************)
Proto(c) == IF c \in Multiplexed THEN "h2" ELSE "h1"

\* An object the program no longer refers to.
Fresh(c) ==
    /\ wire[c] = "closed"
    /\ c \notin Parked \union SharedSet
    /\ \A t \in Tasks : conn[t] # c /\ c \notin closing[t]

InstallH2(t, c) ==
    LET o == origin[t] IN
    /\ c \in Multiplexed
    /\ mode' = [mode EXCEPT ![o] = "h2"]
    /\ shared' = [shared EXCEPT ![o] = c]
    /\ leases' = [leases EXCEPT ![o] = 1]
    /\ Forget({shared[o]})
    /\ UNCHANGED leased

InstallH1(t, c) ==
    LET o == origin[t] IN
    /\ c \notin Multiplexed
    /\ mode' = [mode EXCEPT ![o] = "h1"]
    /\ leased' = [leased EXCEPT ![o] = @ + 1]
    /\ UNCHANGED <<shared, leases, stamps>>

Install(t, c) ==
    /\ InstallH2(t, c) \/ InstallH1(t, c)
    /\ SignalDial(origin[t])
    /\ conn' = [conn EXCEPT ![t] = c]
    /\ pc' = [pc EXCEPT ![t] = "hold"]
    /\ UNCHANGED <<idle, count, closed, waiters, origin, closing, then>>

\* A slip: the connection is only dropped.
RefuseUnclosed(t, c) ==
    /\ pc' = [pc EXCEPT ![t] = "refused"]
    /\ UNCHANGED <<books, waiters, joined, stamps, origin, conn, closing, then>>

\* The pool was closed during the dial: the connection is the dialer's to close.
Refuse(t, c) ==
    /\ closing' = [closing EXCEPT ![t] = {c}]
    /\ pc' = [pc EXCEPT ![t] = "refused"]
    /\ UNCHANGED <<books, waiters, joined, stamps, origin, conn, then>>

\* A slip: the dialer does not look whether the pool is still open.
DialOkUnchecked(t) ==
    /\ pc[t] = "dial"
    /\ \E c \in Conns :
         /\ Fresh(c) /\ Proto(c) \in Protocols[origin[t]]
         /\ wire' = [wire EXCEPT ![c] = "up"]
         /\ Install(t, c)

DialOk(t) ==
    /\ pc[t] = "dial"
    /\ \E c \in Conns :
         /\ Fresh(c) /\ Proto(c) \in Protocols[origin[t]]
         /\ wire' = [wire EXCEPT ![c] = "up"]
         /\ IF closed THEN Refuse(t, c) ELSE Install(t, c)

CloseRefused(t) ==
    /\ pc[t] = "refused"
    /\ wire' = Closed(closing[t])
    /\ closing' = [closing EXCEPT ![t] = {}]
    /\ Leave(t)
    /\ UNCHANGED <<books, waiters, joined, stamps, then>>

\* The dial fails, times out or is cancelled: _abandon_dial.
DialFail(t) ==
    LET o == origin[t] IN
    /\ pc[t] = "dial"
    /\ count' = count - 1
    /\ SignalDial(o)
    /\ UNCHANGED <<shared, idle, leased>>
    /\ mode' = Pruned({o})
    /\ Sweeping(t, {}, "idle")
    /\ UNCHANGED <<leases, closed, waiters, stamps, wire, origin, conn>>

(***************************************************************************)
(* _h2_ready.                                                              *)
(***************************************************************************)

\* A slip: the shared connection is taken for the caller's.
IsSharedUnchecked(t) == TRUE

\* A late call for a connection that was evicted or replaced is told apart by
\* identity.
IsShared(t) == shared[origin[t]] = conn[t]

\* A slip: neither the connection nor the leases are looked at.
HoldsLeaseUnchecked(t) == TRUE

\* _drop_shared_lease on behalf of task t.
HoldsLease(t) == IsShared(t) /\ leases[origin[t]] > 0

LastLease(t) == HoldsLease(t) /\ leases[origin[t]] = 1

DropLease(t) ==
    /\ leases' = IF HoldsLease(t) THEN [leases EXCEPT ![origin[t]] = @ - 1] ELSE leases
    /\ IF LastLease(t) THEN Stamp(conn[t], Spare) ELSE UNCHANGED stamps

ReadyOk(t) ==
    /\ pc[t] = "ready"
    /\ ~Dead(conn[t])
    /\ pc' = [pc EXCEPT ![t] = "hold"]
    /\ UNCHANGED <<books, waiters, joined, stamps, wire, origin, conn, closing, then>>

\* ready() raises: the connection failed, or the peer sent GOAWAY.
ReadyFail(t) ==
    /\ pc[t] = "ready"
    /\ DropLease(t)
    /\ pc' = [pc EXCEPT ![t] = "evict"]
    /\ UNCHANGED <<mode, shared, idle, dialing, leased, count, closed, waiters, joined, wire, origin, conn, closing, then>>

Evict(t) ==
    LET o == origin[t]
        c == conn[t]
    IN
    /\ pc[t] = "evict"
    /\ IF IsShared(t)
       THEN /\ Remove({c})
            /\ Forget({c})
            /\ count' = count - 1
            /\ UNCHANGED <<dialing, leased>>
            /\ mode' = Pruned({o})
       ELSE UNCHANGED <<mode, shared, idle, dialing, leased, leases, count, stamps>>
    /\ conn' = [conn EXCEPT ![t] = None]
    /\ Sweeping(t, {c}, "attempt")
    /\ UNCHANGED <<closed, waiters, joined, wire, origin>>

\* PoolTimeout or cancellation while waiting for a stream slot.
ReadyGiveUp(t) ==
    /\ "ready" \in Interrupts
    /\ pc[t] = "ready"
    /\ DropLease(t)
    /\ Leave(t)
    /\ UNCHANGED <<mode, shared, idle, dialing, leased, count, closed, waiters, joined, wire, closing, then>>

(***************************************************************************)
(* _wait.                                                                  *)
(***************************************************************************)
WaitWake(t) ==
    /\ pc[t] = "wait" /\ t \notin waiters \union joined
    /\ pc' = [pc EXCEPT ![t] = "attempt"]
    /\ UNCHANGED <<books, waiters, joined, stamps, wire, origin, conn, closing, then>>

\* PoolTimeout or cancellation.
WaitGiveUp(t) ==
    /\ "wait" \in Interrupts
    /\ pc[t] = "wait"
    /\ waiters' = waiters \ {t}
    /\ joined' = joined \ {t}
    /\ Leave(t)
    /\ UNCHANGED <<books, stamps, wire, closing, then>>

(***************************************************************************)
(* release and close.                                                      *)
(***************************************************************************)
\* A slip: the last stream of a live connection wakes nobody.
FreesCapacityIfDead(t) == Dead(conn[t])

\* The release makes a slot reclaimable.
FreesCapacity(t) == LastLease(t) \/ Dead(conn[t])

ReleaseShared(t) ==
    /\ conn[t] \in Multiplexed
    /\ DropLease(t)
    /\ IF FreesCapacity(t)
       THEN Sweeping(t, {}, "idle") /\ UNCHANGED <<origin, conn>>
       ELSE Leave(t) /\ UNCHANGED <<closing, then>>
    /\ UNCHANGED <<mode, shared, idle, dialing, leased, count, closed>>

\* _evict_over_keepalive_locked: all but the newest MaxKeepAlive of S.
Overflow(S, order) ==
    IF MaxKeepAlive = None THEN {}
    ELSE {c \in S : Cardinality({d \in S : <<c, d>> \in order}) >= MaxKeepAlive}

DropLeased(o) == leased' = [leased EXCEPT ![o] = IF closed THEN @ ELSE @ - 1]

Park(t) ==
    LET o == origin[t]
        c == conn[t]
        order == older \union (Spare \X {c})
        over == Overflow(Parked \union {c}, order)
        parks(p) == idle[p] \union (IF p = o THEN {c} ELSE {})
    IN
    /\ DropLeased(o)
    /\ idle' = [p \in Origins |-> parks(p) \ over]
    /\ older' = {p \in order : p[1] \notin over /\ p[2] \notin over}
    /\ expired' = expired \ over
    /\ count' = count - Cardinality(over)
    /\ UNCHANGED <<shared, dialing>>
    /\ mode' = Pruned({p \in Origins : parks(p) \intersect over # {}})
    /\ Sweeping(t, over, "idle")
    /\ UNCHANGED <<leases, closed>>

Discard(t) ==
    LET o == origin[t] IN
    /\ DropLeased(o)
    /\ count' = count - 1
    /\ UNCHANGED <<shared, idle, dialing>>
    /\ mode' = Pruned({o})
    /\ Sweeping(t, {conn[t]}, "idle")
    /\ UNCHANGED <<leases, closed, stamps>>

ReleaseExclusive(t, discard) ==
    /\ conn[t] \notin Multiplexed
    /\ IF discard \/ Dead(conn[t]) \/ closed THEN Discard(t) ELSE Park(t)
    /\ conn' = [conn EXCEPT ![t] = None]
    /\ UNCHANGED origin

\* The caller's exchange is over; discard: it did not complete cleanly.
Release(t, discard) ==
    /\ pc[t] = "hold"
    /\ ReleaseShared(t) \/ ReleaseExclusive(t, discard)
    /\ UNCHANGED <<waiters, joined, wire>>

ClosePool(t) ==
    /\ pc[t] = "idle"
    /\ closed' = TRUE
    /\ Sweeping(t, Parked \union SharedSet, "idle")
    /\ mode' = [o \in Origins |-> None]
    /\ shared' = [o \in Origins |-> None]
    /\ idle' = [o \in Origins |-> {}]
    /\ dialing' = [o \in Origins |-> FALSE]
    /\ leased' = [o \in Origins |-> 0]
    /\ leases' = [o \in Origins |-> 0]
    /\ count' = 0
    /\ joined' = {u \in joined : ~dialing[origin[u]]}
    /\ Forget(Conns)
    /\ UNCHANGED <<waiters, wire, origin, conn>>

(***************************************************************************)
(* The environment: the peer, the network and the clock.                   *)
(***************************************************************************)

\* conn.closed (or, on h1, conn.busy) becomes true.
Break(c) ==
    /\ wire[c] = "up"
    /\ wire' = [wire EXCEPT ![c] = "down"]
    /\ UNCHANGED <<books, waiters, joined, stamps, places>>

\* keepalive_expiry passes for the oldest connection it has not passed for.
Expire(c) ==
    /\ Expiry /\ c \in Spare \ expired
    /\ \A d \in Spare : <<d, c>> \in older => d \in expired
    /\ expired' = expired \union {c}
    /\ UNCHANGED <<books, waiters, joined, older, wire, places>>

-----------------------------------------------------------------------------

TaskStep(t) ==
    \/ \E o \in Origins : Attempt(t, o)
    \/ Sweep(t) \/ SweepCut(t)
    \/ DialOk(t) \/ DialFail(t) \/ CloseRefused(t)
    \/ ReadyOk(t) \/ ReadyFail(t) \/ Evict(t) \/ ReadyGiveUp(t)
    \/ WaitWake(t) \/ WaitGiveUp(t)
    \/ \E discard \in BOOLEAN : Release(t, discard)
    \/ ClosePool(t)

EnvStep == \E c \in Conns : Break(c) \/ Expire(c)

Next == (\E t \in Tasks : TaskStep(t)) \/ EnvStep

Spec == Init /\ [][Next]_vars

\* Tasks that run are scheduled, dials and ready() settle, and callers release
\* what they hold.  Nothing is assumed of new calls, of close, of interruptions
\* or of the environment.
Fairness ==
    \A t \in Tasks :
        /\ WF_vars(pc[t] = "attempt" /\ \E o \in Origins : Attempt(t, o))
        /\ WF_vars(Sweep(t))
        /\ WF_vars(DialOk(t) \/ DialFail(t))
        /\ WF_vars(CloseRefused(t))
        /\ WF_vars(ReadyOk(t) \/ ReadyFail(t))
        /\ WF_vars(Evict(t))
        /\ WF_vars(WaitWake(t))
        /\ WF_vars(\E discard \in BOOLEAN : Release(t, discard))

FairSpec == Spec /\ Fairness

-----------------------------------------------------------------------------

Dialers == {t \in Tasks : pc[t] = "dial" \/ (pc[t] = "sweep" /\ then[t] = "dial")}

Dialing(t, o) == t \in Dialers /\ origin[t] = o

\* h1 connections in a caller's hands.
Held == {conn[t] : t \in Tasks} \ (Multiplexed \union {None})

\* The connections that take up capacity.
Counted == Parked \union SharedSet \union Held

\* Streams of the shared connection c that acquire has given out or is about to.
Leaseholders(c) ==
    {t \in Tasks : conn[t] = c /\ (pc[t] \in {"ready", "hold"} \/ then[t] = "hold")}

BooksTypeOK ==
    /\ mode \in [Origins -> {None, "h1", "h2"}]
    /\ shared \in [Origins -> Conns \union {None}]
    /\ idle \in [Origins -> SUBSET Conns]
    /\ dialing \in [Origins -> BOOLEAN]
    /\ leased \in [Origins -> Int]
    /\ leases \in [Origins -> Nat]
    /\ count \in Int
    /\ closed \in BOOLEAN

ConnsTypeOK ==
    /\ older \subseteq Conns \X Conns
    /\ expired \subseteq Conns
    /\ wire \in [Conns -> {"up", "down", "closed"}]

TasksTypeOK ==
    /\ waiters \subseteq Tasks /\ joined \subseteq Tasks
    /\ pc \in [Tasks -> {"idle", "attempt", "sweep", "dial", "refused",
                         "ready", "evict", "wait", "hold"}]
    /\ origin \in [Tasks -> Origins \union {None}]
    /\ conn \in [Tasks -> Conns \union {None}]
    /\ closing \in [Tasks -> SUBSET Conns]
    /\ then \in [Tasks -> {"idle", "attempt", "hold", "dial", "wait"}]

\* Every variable keeps to its kind: the fields of _pool.py:63-102, the
\* connections, and the places of the tasks.  A lease given back twice would
\* make leases negative.
TypeOK == BooksTypeOK /\ ConnsTypeOK /\ TasksTypeOK

\* An h1 connection has one place: with one caller, parked at one origin, or
\* with one task that closes it.  (_pool.py:145-182 and _transport.py:161-164:
\* a double release would park it twice and two exchanges would share it.)
ExclusiveUse ==
    \A c \in Conns \ Multiplexed :
        /\ \A t, u \in Tasks : conn[t] = c /\ conn[u] = c => t = u
        /\ \A o, p \in Origins : c \in idle[o] \intersect idle[p] => o = p
        /\ \A t, u \in Tasks : c \in closing[t] \intersect closing[u] => t = u
        /\ c \in Held => c \notin Parked
        /\ \A t \in Tasks : c \in closing[t] => c \notin Held \union Parked

\* Until the pool closes, _count is what _pool.py:100 says it is: connections in
\* use, idle and being dialed.  A slot lost or counted twice would show here.
CountExact ==
    ~closed => count = Cardinality(Counted) + Cardinality(Dialers)

\* However acquirers and releasers interleave, time out or are cancelled, and
\* whatever protocols dials negotiate, the pool never has more connections in
\* use, idle and being dialed than max_connections (_pool.py:246-254).
CapRespected ==
    ~closed /\ MaxConns # None => Cardinality(Counted) + Cardinality(Dialers) <= MaxConns

\* shared_leases counts the callers that hold or await a stream, so zero means
\* that nobody uses the connection (_pool.py:72-77, 383-397).
LeasesExact ==
    \A o \in Origins :
        shared[o] # None => leases[o] = Cardinality(Leaseholders(shared[o]))

\* A capacity waiter sleeps on a slot only while somebody is about to wake it:
\* "a request waits only while every counted connection is genuinely in flight"
\* (_pool.py:35-36).
SlotAvailable == count < MaxConns \/ Spare # {}

WakePending == \E t \in Tasks : pc[t] \in {"sweep", "evict"}

NoLostWakeup ==
    ~closed /\ waiters # {} /\ SlotAvailable => WakePending

\* Whoever sleeps on a dial's event sleeps on a dial that somebody performs
\* (_pool.py:243-244, 297-307, 197-200): else nothing would ever set it.
DialInFlight ==
    /\ \A o \in Origins : dialing[o] => \E t \in Tasks : Dialing(t, o)
    /\ \A t \in joined : dialing[origin[t]]

\* An origin that only speaks h2 has one live connection at most, installed or
\* being dialed (_pool.py:10-12, "one shared h2 conn").
OneSharedConn ==
    \A o \in Origins : Protocols[o] = {"h2"} =>
        LET dialers == {t \in Tasks : Dialing(t, o)} IN
        Cardinality(dialers) + (IF shared[o] = None THEN 0 ELSE 1) <= 1

\* A connection that is open on our side can still be reached by somebody who
\* will use or close it.
Reachable == Parked \union SharedSet \union {conn[t] : t \in Tasks} \union UNION {closing[t] : t \in Tasks}

NoOrphan == \A c \in Conns : wire[c] # "closed" => c \in Reachable

\* An origin keeps an entry only while a connection or a dial needs it, so the
\* dictionary does not grow with the origins visited (_pool.py:477-482).
EntriesJustified ==
    \A o \in Origins : mode[o] # None =>
        \/ shared[o] # None \/ idle[o] # {} \/ leased[o] > 0
        \/ \E t \in Tasks : Dialing(t, o)

\* A shared connection with streams out leaves the pool only when it is dead,
\* when ready() failed on it, or when the pool closes: never to make room
\* (_pool.py:399-458).
LeasedNotReclaimed ==
    [][\A o \in Origins :
         shared[o] # None /\ leases[o] > 0 /\ shared'[o] # shared[o] =>
            \/ closed'
            \/ Dead(shared[o])
            \/ \E t \in Tasks : pc[t] = "evict" /\ conn[t] = shared[o]]_vars

\* No call sleeps for ever on a slot that is to be had (_pool.py:33-36), although
\* wakes race with new arrivals for it.
NotStuck ==
    \A t \in Tasks : []<>(pc[t] # "wait" \/ t \notin waiters \/ ~SlotAvailable)

\* Whoever coalesced on a dial is woken, whatever becomes of the dial.
CoalescedWakes == \A t \in Tasks : pc[t] = "wait" /\ t \in joined ~> t \notin joined

\* Once the pool is closed, every connection ends up closed and every caller
\* gets an answer, those that were dialing or waiting included.
DrainsAfterClose ==
    /\ \A c \in Conns : closed ~> wire[c] = "closed"
    /\ \A t \in Tasks : closed /\ pc[t] # "idle" ~> pc[t] = "idle"

\* What a caller has in hand: the connection acquire returned, or is about to
\* return once the stale ones are closed or the stream is ready.
InHand ==
    [t \in Tasks |->
        IF pc[t] \in {"ready", "hold"} \/ (pc[t] = "sweep" /\ then[t] = "hold")
        THEN conn[t] ELSE None]

Promise == INSTANCE Slots WITH
    Shareable <- Multiplexed, pooled <- Parked \union SharedSet, hand <- InHand,
    dialers <- Dialers, shut <- closed

\* The pool keeps its promise to its callers, whatever is interrupted and
\* whatever dials negotiate: every step of its bookkeeping is, seen from outside,
\* one of Slots or none at all (_pool.py:105-200).
ImplementsSlots == Promise!Spec
=============================================================================
