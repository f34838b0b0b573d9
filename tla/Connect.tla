------------------------------ MODULE Connect ------------------------------
(***************************************************************************)
(* One dial: ConnectionPool._dial (src/punkreq/_pool.py) running a          *)
(* connector (_connect.py, _proxies.py) under connect_timeout.  The         *)
(* transport is whoever's step it is to close until an entered connection   *)
(* is taken by the caller.                                                  *)
(***************************************************************************)
EXTENDS Naturals

CONSTANT Routes   \* of the origins: "direct", "absolute" (a plain-http proxy),
                  \* "tunnel" (CONNECT through a proxy)

ASSUME RoutesAssumption == Routes \subseteq {"direct", "absolute", "tunnel"}

VARIABLES
    route,
    dial,       \* what the connector is at
    transport,  \* "none", "open" or "closed"
    timed,      \* whether dial() runs as a coroutine of its own, under a timeout
    gone        \* abandoned: the caller no longer waits for it

dialVars == <<route, dial, transport, timed, gone>>

-----------------------------------------------------------------------------

DialInit ==
    /\ route \in Routes
    /\ dial = "none"
    /\ transport = "none"
    /\ timed = FALSE
    /\ gone = FALSE

StartDial(bounded) ==
    /\ dial' = "opening"
    /\ transport' = "none"
    /\ timed' = bounded
    /\ gone' = FALSE
    /\ UNCHANGED route

\* Without a coroutine of its own the connector stops where its caller does.
GoesOn == timed \/ ~gone

\* The TCP connection, or the TLS one to an https origin or proxy, is there.
Opened ==
    /\ dial = "opening" /\ GoesOn
    /\ transport' = "open"
    /\ dial' = IF route = "tunnel" THEN "tunnelling" ELSE "entering"
    /\ UNCHANGED <<route, timed, gone>>

OpenFail ==
    /\ dial = "opening"
    /\ dial' = "over"
    /\ UNCHANGED <<route, transport, timed, gone>>

\* The proxy accepts CONNECT: its transport becomes the tunnel's.
Tunnelled ==
    /\ dial = "tunnelling" /\ GoesOn
    /\ dial' = "securing"
    /\ UNCHANGED <<route, transport, timed, gone>>

\* TLS to the origin, inside the tunnel.
Secured ==
    /\ dial = "securing" /\ GoesOn
    /\ dial' = "entering"
    /\ UNCHANGED <<route, transport, timed, gone>>

\* The HTTP handshake.
Entered ==
    /\ dial = "entering" /\ GoesOn
    /\ dial' = "entered"
    /\ UNCHANGED <<route, transport, timed, gone>>

\* The transport is closed on the way out.
CloseTransport == transport' = "closed"

\* An await of the connector fails or is cancelled: CONNECT is refused or
\* breaks, wrap_tls fails or refuses the stream, or __aenter__ fails.
DialBreaks ==
    /\ dial \in {"tunnelling", "securing", "entering"}
    /\ dial' = "over"
    /\ CloseTransport
    /\ UNCHANGED <<route, timed, gone>>

\* A slip: dial() does not look whether its caller is still there.
DeliverUnchecked ==
    /\ dial = "entered"
    /\ dial' = "dialed"
    /\ UNCHANGED <<route, transport, timed, gone>>

\* dial() under the lock: the connection is left for the caller, or its own to
\* close when the caller is gone.
Deliver ==
    /\ dial = "entered"
    /\ dial' = IF gone THEN "closing" ELSE "dialed"
    /\ UNCHANGED <<route, transport, timed, gone>>

\* _close_conn, by dial() or detached.
CloseDialed ==
    /\ dial = "closing"
    /\ dial' = "over"
    /\ transport' = "closed"
    /\ UNCHANGED <<route, timed, gone>>

\* What dial() had left for its caller is handed over to be closed.
ClaimDialed(d) == IF d = "dialed" THEN "closing" ELSE d

\* The caller times out or is cancelled.
LeaveDial ==
    /\ dial \notin {"none", "taken", "over"}
    /\ timed \/ dial \notin {"entered", "dialed"}
    /\ gone' = TRUE
    /\ dial' = ClaimDialed(dial)
    /\ UNCHANGED <<route, transport, timed>>

TakeDialed ==
    /\ dial = "dialed"
    /\ dial' = "taken"
    /\ UNCHANGED <<route, transport, timed, gone>>

DialStep ==
    \/ Opened \/ OpenFail \/ Tunnelled \/ Secured \/ Entered \/ DialBreaks
    \/ Deliver \/ CloseDialed

-----------------------------------------------------------------------------

DialTypeOK ==
    /\ route \in Routes
    /\ dial \in {"none", "opening", "tunnelling", "securing", "entering", "entered",
                 "dialed", "closing", "taken", "over"}
    /\ transport \in {"none", "open", "closed"}
    /\ {timed, gone} \subseteq BOOLEAN

\* A transport that was dialed is in use, or is somebody's who will close it or
\* hand it on: a failed, refused, timed out or cancelled dial leaves none open,
\* and leaves no connection for a caller that is gone (_pool.py:271-295,
\* _connect.py:97-107, _proxies.py:132-149).
NoTransportStranded ==
    /\ dial = "over" => transport # "open"
    /\ dial = "dialed" => ~gone
    /\ dial = "taken" => transport = "open"
=============================================================================
