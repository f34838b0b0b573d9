-------------------------------- MODULE Slots --------------------------------
(***************************************************************************)
(* What the pool of src/punkreq/_pool.py promises those who call acquire,   *)
(* release and close: a bounded number of connections, each in the hands of *)
(* one caller at a time unless it is shareable (h2), and nothing handed out *)
(* once it is closed.  Origins, leases, stamps, waiting and the closing of  *)
(* connections are the implementation's (Pool).                             *)
(***************************************************************************)
EXTENDS Integers, FiniteSets

CONSTANTS
    Tasks,      \* callers
    Conns,      \* connections
    None,
    Shareable,  \* the connections that several callers may hold at once
    MaxConns    \* how many connections there may be, a number or None

ASSUME SlotsAssumption ==
    /\ IsFiniteSet(Tasks) /\ IsFiniteSet(Conns)
    /\ None \notin Conns /\ Shareable \subseteq Conns
    /\ MaxConns \in (Nat \ {0}) \union {None} /\ None \notin Int

VARIABLES
    pooled,   \* the connections the pool may hand out
    hand,     \* the connection that each caller holds
    dialers,  \* the callers for whom a connection is being opened
    shut      \* whether the pool is closed

slots == <<pooled, hand, dialers, shut>>

-----------------------------------------------------------------------------

\* The connections only their caller may use.
Exclusive == {hand[t] : t \in Tasks} \ (Shareable \union {None})

InUse == pooled \union Exclusive

Init ==
    /\ pooled = {}
    /\ hand = [t \in Tasks |-> None]
    /\ dialers = {}
    /\ shut = FALSE

Free(t) == hand[t] = None /\ t \notin dialers

\* A pooled connection is handed out; an exclusive one leaves the pool.  Here
\* and below the pool may drop others at the same time.
Take(t) ==
    /\ Free(t)
    /\ \E c \in pooled :
         /\ hand' = [hand EXCEPT ![t] = c]
         /\ pooled' \in SUBSET pooled
         /\ c \in pooled' => c \in Shareable
    /\ UNCHANGED <<dialers, shut>>

\* Whatever its callers do, and after close too, max_connections bounds the
\* connections pooled, in exclusive use and being opened (_pool.py:246-254).
Capacity ==
    MaxConns # None => Cardinality(InUse) + Cardinality(dialers) <= MaxConns

BeginDial(t) ==
    /\ ~shut /\ Free(t)
    /\ pooled' \in SUBSET pooled
    /\ dialers' = dialers \union {t}
    /\ UNCHANGED <<hand, shut>>
    /\ Capacity'

\* The connection opened is new to everybody; a shareable one is pooled at once.
Deliver(t, c) ==
    /\ ~shut /\ t \in dialers
    /\ c \notin pooled /\ \A u \in Tasks : hand[u] # c
    /\ hand' = [hand EXCEPT ![t] = c]
    /\ pooled' \in SUBSET (pooled \union ({c} \intersect Shareable))
    /\ dialers' = dialers \ {t}
    /\ UNCHANGED shut

FailDial(t) ==
    /\ t \in dialers
    /\ dialers' = dialers \ {t}
    /\ UNCHANGED <<pooled, hand, shut>>

\* The caller gives its connection back; an exclusive one may be pooled again.
Return(t) ==
    /\ hand[t] # None
    /\ hand' = [hand EXCEPT ![t] = None]
    /\ pooled' \in SUBSET IF shut THEN pooled ELSE pooled \union ({hand[t]} \ Shareable)
    /\ UNCHANGED <<dialers, shut>>

Drop ==
    /\ pooled' \in SUBSET pooled
    /\ UNCHANGED <<hand, dialers, shut>>

Shut ==
    /\ shut' = TRUE
    /\ pooled' = {}
    /\ UNCHANGED <<hand, dialers>>

Serve(t) ==
    \/ Take(t) \/ BeginDial(t) \/ FailDial(t) \/ Return(t)
    \/ \E c \in Conns : Deliver(t, c)

Next == Drop \/ Shut \/ \E t \in Tasks : Serve(t)

Spec == Init /\ [][Next]_slots

-----------------------------------------------------------------------------

TypeOK ==
    /\ pooled \subseteq Conns
    /\ hand \in [Tasks -> Conns \union {None}]
    /\ dialers \subseteq Tasks
    /\ shut \in BOOLEAN

\* An exclusive connection is with one caller, and not to be had meanwhile.
Alone ==
    \A t, u \in Tasks :
        hand[t] = hand[u] /\ hand[t] \notin Shareable \union {None} =>
            t = u /\ hand[t] \notin pooled

\* A closed pool hands nothing out, not even what it was dialing then.
ShutIsFinal ==
    [][shut => \A t \in Tasks : hand'[t] \in {hand[t], None}]_slots
=============================================================================
